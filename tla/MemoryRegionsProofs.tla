------------------------ MODULE MemoryRegionsProofs ------------------------
(***************************************************************************)
(* Every operation on the region list keeps it a list of regions, each     *)
(* with its break/watchpoints in order: one lemma for each operation.      *)
(* What an image or a run of words stores byte by byte.  And where regions *)
(* are: no operation moves one or makes one shorter than its data, and an  *)
(* alias of a region stays within it.                                      *)
(***************************************************************************)
EXTENDS MemoryRegions, WatchpointsProofs

\* Good regions are good one by one.
LEMMA GoodElement ==
  ASSUME NEW rs, GoodRegions(rs)
  PROVE  /\ Len(rs) \in Nat
         /\ DOMAIN rs = 1 .. Len(rs)
         /\ \A i \in DOMAIN rs : GoodRegion(rs[i])
<1>1. Len(rs) \in Nat /\ DOMAIN rs = 1 .. Len(rs) /\ rs \in Seq(MemoryRegion)
  BY LenProperties DEF GoodRegions
<1>2. \A i \in DOMAIN rs : rs[i] \in MemoryRegion
  BY <1>1, ElementOfSeq
<1> QED
  BY <1>1, <1>2 DEF GoodRegion, GoodRegions

\* A list of good regions of which none changed its redirection.
LEMMA SameRedirects ==
  ASSUME NEW rs, GoodRegions(rs), NEW new, DOMAIN new = DOMAIN rs,
         new \in [DOMAIN rs -> MemoryRegion],
         \A i \in DOMAIN rs : /\ GoodRegion(new[i])
                             /\ new[i].isAlias = rs[i].isAlias
                             /\ new[i].pRedirect = rs[i].pRedirect
  PROVE  GoodRegions(new)
<1>1. Len(rs) \in Nat /\ DOMAIN rs = 1 .. Len(rs)
  BY GoodElement
<1>2. new \in Seq(MemoryRegion)
  BY <1>1, SeqDef
<1>3. Redirects(new)
  <2>1. SUFFICES ASSUME NEW i \in DOMAIN rs, new[i].isAlias
                 PROVE  new[i].pRedirect \in 1 .. i - 1 /\ ~new[new[i].pRedirect].isAlias
    BY DEF Redirects
  <2>2. rs[i].pRedirect \in 1 .. i - 1 /\ ~rs[rs[i].pRedirect].isAlias
    BY <2>1 DEF GoodRegions, Redirects
  <2>3. rs[i].pRedirect \in DOMAIN rs
    BY <2>2, <1>1
  <2> QED
    BY <2>2, <2>3
<1> QED
  BY <1>2, <1>3 DEF GoodRegions, GoodRegion

\* Replacing a region by one with the same redirection.
LEMMA ReplaceRegion ==
  ASSUME NEW rs, GoodRegions(rs), NEW i \in DOMAIN rs, NEW r, GoodRegion(r),
         r.isAlias = rs[i].isAlias, r.pRedirect = rs[i].pRedirect
  PROVE  GoodRegions([rs EXCEPT ![i] = r])
<1> DEFINE new == [rs EXCEPT ![i] = r]
<1>1. DOMAIN new = DOMAIN rs /\ new[i] = r /\ \A j \in DOMAIN rs : j # i => new[j] = rs[j]
  BY DEF GoodRegions
<1>2. \A j \in DOMAIN rs : GoodRegion(rs[j])
  BY GoodElement
<1>3. \A j \in DOMAIN rs : /\ GoodRegion(new[j])
                           /\ new[j].isAlias = rs[j].isAlias
                           /\ new[j].pRedirect = rs[j].pRedirect
  BY <1>1, <1>2
<1>4. new \in [DOMAIN rs -> MemoryRegion]
  BY <1>1, <1>3 DEF GoodRegion
<1> HIDE DEF new
<1>5. GoodRegions(new)
  BY <1>1, <1>3, <1>4, SameRedirects
<1> QED
  BY <1>5 DEF new

\* Adding a region at the end.
LEMMA AppendRegion ==
  ASSUME NEW rs, GoodRegions(rs), NEW r, GoodRegion(r),
         r.isAlias => r.pRedirect \in DOMAIN rs /\ ~rs[r.pRedirect].isAlias
  PROVE  GoodRegions(Append(rs, r))
<1> DEFINE n == Len(rs)
           new == Append(rs, r)
<1>1. n \in Nat /\ DOMAIN rs = 1 .. n /\ rs \in Seq(MemoryRegion) /\ r \in MemoryRegion
  BY GoodElement DEF GoodRegions, GoodRegion
<1>2. /\ new \in Seq(MemoryRegion)
      /\ Len(new) = n + 1
      /\ \A i \in 1 .. n : new[i] = rs[i]
      /\ new[n + 1] = r
  BY <1>1
<1>3. DOMAIN new = 1 .. n + 1
  BY <1>2, LenProperties
<1> HIDE DEF new
<1>4. ASSUME NEW i \in 1 .. n + 1
      PROVE  /\ Ordered(new[i].watchpoints)
             /\ new[i].isAlias => new[i].pRedirect \in 1 .. i - 1 /\ ~new[new[i].pRedirect].isAlias
  <2>1. CASE i \in 1 .. n
    <3>1. /\ Ordered(rs[i].watchpoints)
          /\ rs[i].isAlias => rs[i].pRedirect \in 1 .. i - 1 /\ ~rs[rs[i].pRedirect].isAlias
      BY <2>1, <1>1 DEF GoodRegions, Redirects
    <3>2. \A j \in 1 .. i - 1 : new[j] = rs[j]
      BY <2>1, <1>1, <1>2
    <3> QED
      BY <2>1, <3>1, <3>2, <1>2
  <2>2. CASE i = n + 1
    <3>1. i - 1 = n
      BY <2>2, <1>1
    <3> QED
      BY <2>2, <3>1, <1>1, <1>2 DEF GoodRegion
  <2> QED
    BY <2>1, <2>2, <1>1
<1>5. GoodRegions(new)
  BY <1>2, <1>3, <1>4 DEF GoodRegions, Redirects
<1> QED
  BY <1>5 DEF new

\* An empty array is in order.
LEMMA EmptyOrdered == <<>> \in Seq(Watchpoint) /\ Ordered(<<>>)
  BY DEF Ordered, IsSortedByStart, HasNoDuplicates

\* Creating a region.
LEMMA CreateRegionGood ==
  ASSUME NEW rs, GoodRegions(rs), NEW baseAddress \in Address, NEW size \in Address,
         NEW mallocOk \in BOOLEAN
  PROVE  /\ GoodRegions(CreateRegion(rs, baseAddress, size, mallocOk).regions)
         /\ CreateRegion(rs, baseAddress, size, mallocOk).exception \in Exception
<1>1. size \in Nat /\ 0 \in Address
  BY AddressLimitAssumption DEF Address
<1>2. [i \in 1 .. size |-> 0] \in Seq(Byte)
  <2>1. [i \in 1 .. size |-> 0] \in [1 .. size -> Byte]
    BY ByteAssumption
  <2> QED
    BY <2>1, <1>1, SeqDef
<1>3. <<>> \in Seq(Nat)
  OBVIOUS
<1>5. ~NewRegion(baseAddress, size).isAlias
  BY DEF NewRegion
<1>4. GoodRegion(NewRegion(baseAddress, size))
  BY <1>1, <1>2, <1>3, EmptyOrdered DEF GoodRegion, NewRegion, MemoryRegion
<1> QED
  BY <1>4, <1>5, AppendRegion DEF CreateRegion, Returns, Throws, Exception

\* Taking the last region off again.
LEMMA FreeLastGood ==
  ASSUME NEW rs, GoodRegions(rs)
  PROVE  GoodRegions(freeLastRegion(rs))
<1> DEFINE new == freeLastRegion(rs)
<1>1. Len(rs) \in Nat /\ DOMAIN rs = 1 .. Len(rs) /\ rs \in Seq(MemoryRegion)
  BY GoodElement DEF GoodRegions
<1>2. \A i \in 1 .. Len(rs) - 1 : rs[i] \in MemoryRegion
  BY <1>1, ElementOfSeq
<1>3. CASE Len(rs) = 0
  <2>1. new = <<>>
    BY <1>3, SubSeqEmpty DEF freeLastRegion, Front
  <2>2. new \in Seq(MemoryRegion) /\ DOMAIN new = {}
    BY <2>1
  <2> QED
    BY <2>2 DEF GoodRegions, Redirects
<1>4. CASE Len(rs) > 0
  <2>1. /\ new \in Seq(MemoryRegion)
        /\ Len(new) = IF 1 <= Len(rs) - 1 THEN Len(rs) - 1 - 1 + 1 ELSE 0
        /\ \A i \in 1 .. Len(rs) - 1 - 1 + 1 : new[i] = rs[1 + i - 1]
    <3>1. 1 \in Int /\ Len(rs) - 1 \in Int
      BY <1>1
    <3> QED
      BY <3>1, <1>2, SubSeqProperties DEF freeLastRegion, Front
  <2>2. DOMAIN new = 1 .. Len(new)
    BY <2>1, LenProperties
  <2> HIDE DEF new
  <2>3. Len(new) = Len(rs) - 1
    <3>1. CASE 1 <= Len(rs) - 1
      <4>1. Len(new) = Len(rs) - 1 - 1 + 1
        BY <2>1, <3>1
      <4> QED
        BY <4>1, <1>1
    <3>2. CASE ~(1 <= Len(rs) - 1)
      <4>1. Len(new) = 0
        BY <2>1, <3>2
      <4> QED
        BY <4>1, <3>2, <1>1, <1>4
    <3> QED
      BY <3>1, <3>2
  <2>4. \A i \in DOMAIN new : new[i] = rs[i] /\ i \in DOMAIN rs
    BY <2>1, <2>2, <2>3, <1>1
  <2>5. Redirects(new)
    <3>1. SUFFICES ASSUME NEW i \in DOMAIN new, new[i].isAlias
                   PROVE  new[i].pRedirect \in 1 .. i - 1 /\ ~new[new[i].pRedirect].isAlias
      BY DEF Redirects
    <3>2. rs[i].pRedirect \in 1 .. i - 1 /\ ~rs[rs[i].pRedirect].isAlias
      BY <3>1, <2>4 DEF GoodRegions, Redirects
    <3>3. rs[i].pRedirect \in DOMAIN new
      BY <3>1, <3>2, <2>2, <2>3, <1>1
    <3> QED
      BY <3>1, <3>2, <3>3, <2>4
  <2>6. GoodRegions(new)
    BY <2>1, <2>4, <2>5 DEF GoodRegions
  <2> QED
    BY <2>6 DEF new
<1> QED
  BY <1>1, <1>3, <1>4

\* An address that matches resolves to an address in a region that is no alias.
LEMMA FindGood ==
  ASSUME NEW rs, GoodRegions(rs), NEW address \in Address, NEW size,
         Matching(rs, address, size) # {}
  PROVE  LET found == findMatchingRegion(rs, address, size)
         IN  /\ found.address \in Address
             /\ found.region \in DOMAIN rs
             /\ GoodRegion(rs[found.region])
             /\ ~rs[found.region].isAlias
<1> DEFINE S == Matching(rs, address, size)
           i == Min(S)
           found == findMatchingRegion(rs, address, size)
<1>1. DOMAIN rs = 1 .. Len(rs) /\ Len(rs) \in Nat
  BY GoodElement
<1>2. S \in SUBSET Nat
  BY <1>1 DEF Matching
<1>3. i \in DOMAIN rs
  BY <1>2, MinIsLeast DEF Matching
<1> HIDE DEF i
<1>4. rs[i] \in MemoryRegion
  BY <1>3, GoodElement DEF GoodRegion
<1>5. rs[i].baseAddress \in Int /\ rs[i].redirectAddress \in Int /\ address \in Int
  BY <1>4, AddressLimitAssumption DEF MemoryRegion, Address
<1>6. ((address - rs[i].baseAddress) + rs[i].redirectAddress) % AddressLimit \in Address
  BY <1>5, AddressLimitAssumption DEF Address
<1>7. CASE rs[i].isAlias
  <2>1. /\ found.region = rs[i].pRedirect
        /\ found.address
             = ((address - rs[i].baseAddress) + rs[i].redirectAddress) % AddressLimit
    BY <1>7 DEF findMatchingRegion, i
  <2>2. rs[i].pRedirect \in 1 .. i - 1 /\ ~rs[rs[i].pRedirect].isAlias
    BY <1>3, <1>7 DEF GoodRegions, Redirects
  <2>3. rs[i].pRedirect \in DOMAIN rs
    BY <2>2, <1>1, <1>3
  <2> QED
    BY <2>1, <2>2, <2>3, <1>6, GoodElement
<1>8. CASE ~rs[i].isAlias
  <2>1. found.region = i /\ found.address = address
    BY <1>8 DEF findMatchingRegion, i
  <2> QED
    BY <2>1, <1>3, <1>8, GoodElement
<1> QED
  BY <1>7, <1>8

\* Creating an alias.
LEMMA CreateAliasGood ==
  ASSUME NEW rs, GoodRegions(rs), NEW aliasAddress \in Address,
         NEW redirectAddress \in Address, NEW size \in Address, NEW mallocOk \in BOOLEAN
  PROVE  LET result == CreateAlias(rs, aliasAddress, redirectAddress, size, mallocOk)
         IN  GoodRegions(result.regions) /\ result.exception \in Exception
<1>1. CASE ~mallocOk
  BY <1>1 DEF CreateAlias, Throws, Exception
<1>2. CASE mallocOk /\ Matching(rs, redirectAddress, 1) = {}
  BY <1>2 DEF CreateAlias, Throws, Exception
<1>3. CASE mallocOk /\ Matching(rs, redirectAddress, 1) # {}
  <2> DEFINE p == findMatchingRegion(rs, redirectAddress, 1).region
             maxSize == (rs[p].size - (redirectAddress - rs[p].baseAddress)) % AddressLimit
             alias == NewAlias(rs, aliasAddress, redirectAddress, size)
  <2>1. p \in DOMAIN rs /\ rs[p] \in MemoryRegion /\ ~rs[p].isAlias
    BY <1>3, FindGood DEF GoodRegion
  <2>2. /\ alias.isAlias /\ alias.pRedirect = p
        /\ alias = [baseAddress |-> aliasAddress,
                    size |-> IF size > maxSize THEN maxSize ELSE size,
                    pData |-> <<>>, isReadOnly |-> rs[p].isReadOnly,
                    pReadCounts |-> <<>>, watchpoints |-> <<>>, isAlias |-> TRUE,
                    redirectAddress |-> redirectAddress, pRedirect |-> p]
    BY DEF NewAlias
  <2> HIDE DEF p, alias
  <2>3. p \in Nat
    BY <2>1, GoodElement
  <2>4. maxSize \in Address
    <3>1. /\ rs[p].size \in Int /\ rs[p].baseAddress \in Int /\ redirectAddress \in Int
      BY <2>1, AddressLimitAssumption DEF MemoryRegion, Address
    <3> QED
      BY <3>1, AddressLimitAssumption DEF Address
  <2>5. <<>> \in Seq(Byte) /\ <<>> \in Seq(Nat) /\ rs[p].isReadOnly \in BOOLEAN
    BY <2>1 DEF MemoryRegion
  <2>6. (IF size > maxSize THEN maxSize ELSE size) \in Address
    BY <2>4
  <2> HIDE DEF maxSize
  <2>7. alias \in MemoryRegion /\ alias.watchpoints = <<>>
    BY <2>2, <2>3, <2>5, <2>6, EmptyOrdered DEF MemoryRegion
  <2>8. GoodRegions(Append(rs, alias))
    BY <2>1, <2>2, <2>7, EmptyOrdered, AppendRegion DEF GoodRegion
  <2> QED
    BY <2>8, <1>3 DEF CreateAlias, Returns, Exception, alias
<1> QED
  BY <1>1, <1>2, <1>3

\* Making a region read-only, with its counters or without.
LEMMA MakeRegionReadOnlyGood ==
  ASSUME NEW rs, GoodRegions(rs), NEW baseAddress \in Address, NEW mallocOk \in BOOLEAN
  PROVE  LET result == MakeRegionReadOnly(rs, baseAddress, mallocOk)
         IN  GoodRegions(result.regions) /\ result.exception \in Exception
<1>1. CASE Matching(rs, baseAddress, 1) = {}
  BY <1>1 DEF MakeRegionReadOnly, Throws, Exception
<1>2. CASE Matching(rs, baseAddress, 1) # {}
  <2> DEFINE i      == findMatchingRegion(rs, baseAddress, 1).region
             locked == [rs EXCEPT ![i].isReadOnly = TRUE]
             counts == ZeroReadCounts(rs[i].size)
  <2>1. i \in DOMAIN rs /\ GoodRegion(rs[i])
    BY <1>2, FindGood
  <2>2. counts \in Seq(Nat)
    <3>1. rs[i].size \div HalfWordSize \in Nat
      BY <2>1, AddressLimitAssumption DEF GoodRegion, MemoryRegion, Address, HalfWordSize
    <3>2. counts \in [1 .. rs[i].size \div HalfWordSize -> Nat]
      BY DEF ZeroReadCounts
    <3> QED
      BY <3>1, <3>2, SeqDef
  <2>3. GoodRegions(locked)
    <3> DEFINE r == [rs[i] EXCEPT !.isReadOnly = TRUE]
    <3>1. GoodRegion(r) /\ r.isAlias = rs[i].isAlias /\ r.pRedirect = rs[i].pRedirect
      BY <2>1 DEF GoodRegion, MemoryRegion
    <3>2. locked = [rs EXCEPT ![i] = r]
      OBVIOUS
    <3> QED
      BY <2>1, <3>1, <3>2, ReplaceRegion
  <2>4. locked[i].size = rs[i].size /\ i \in DOMAIN locked
    BY <2>1 DEF GoodRegion, MemoryRegion
  <2> HIDE DEF i, locked, counts
  <2>5. GoodRegions([locked EXCEPT ![i].pReadCounts = counts])
    <3> DEFINE r == [locked[i] EXCEPT !.pReadCounts = counts]
    <3>1. GoodRegion(locked[i])
      BY <2>3, <2>4, GoodElement
    <3>2. GoodRegion(r) /\ r.isAlias = locked[i].isAlias /\ r.pRedirect = locked[i].pRedirect
      BY <3>1, <2>2 DEF GoodRegion, MemoryRegion
    <3>3. [locked EXCEPT ![i].pReadCounts = counts] = [locked EXCEPT ![i] = r]
      OBVIOUS
    <3> HIDE DEF r
    <3> QED
      BY <2>3, <2>4, <3>2, <3>3, ReplaceRegion
  <2> QED
    BY <1>2, <2>3, <2>5 DEF MakeRegionReadOnly, Returns, Throws, Exception, i, locked, counts
<1> QED
  BY <1>1, <1>2

\* Writing bytes.
LEMMA OverwriteGood ==
  ASSUME NEW rs, GoodRegions(rs), NEW found, found.region \in DOMAIN rs,
         found.address \in Address, NEW size \in Nat, NEW bytes \in [1 .. size -> Byte]
  PROVE  GoodRegions(Overwrite(rs, found, bytes))
<1> DEFINE f     == found.region
           first == RegionOffset(rs, found) + 1
           old   == rs[f].pData
           new   == [b \in 1 .. Len(old) |->
                       IF b \in first .. first + Len(bytes) - 1 THEN bytes[b - first + 1]
                       ELSE old[b]]
           r     == [rs[f] EXCEPT !.pData = new]
<1>1. GoodRegion(rs[f])
  BY GoodElement
<1>2. /\ old \in Seq(Byte) /\ Len(old) \in Nat
      /\ \A b \in 1 .. Len(old) : old[b] \in Byte
  BY <1>1, LenProperties, ElementOfSeq DEF GoodRegion, MemoryRegion
<1>3. first \in Int
  BY <1>1, AddressLimitAssumption, SMTT(20) DEF RegionOffset, GoodRegion, MemoryRegion, Address
<1>4. Len(bytes) = size /\ \A k \in 1 .. size : bytes[k] \in Byte
  <2>1. bytes \in Seq(Byte)
    BY SeqDef
  <2>2. Len(bytes) \in Nat /\ DOMAIN bytes = 1 .. Len(bytes) /\ DOMAIN bytes = 1 .. size
    BY <2>1, LenProperties
  <2> QED
    BY <2>2
<1> HIDE DEF first
<1>5. \A b \in 1 .. Len(old) : new[b] \in Byte
  BY <1>2, <1>3, <1>4
<1>6. new \in Seq(Byte)
  <2>1. new \in [1 .. Len(old) -> Byte]
    BY <1>5
  <2> QED
    BY <2>1, <1>2, SeqDef
<1>7. Overwrite(rs, found, bytes) = [rs EXCEPT ![f] = r]
  BY DEF Overwrite, first
<1> HIDE DEF new
<1>8. GoodRegion(r) /\ r.isAlias = rs[f].isAlias /\ r.pRedirect = rs[f].pRedirect
  BY <1>1, <1>6 DEF GoodRegion, MemoryRegion
<1> HIDE DEF r
<1>9. GoodRegions([rs EXCEPT ![f] = r])
  BY <1>8, ReplaceRegion
<1> QED
  BY <1>7, <1>9

\* The maximum of a set of naturals with an upper bound.
LEMMA MaxIsGreatest ==
  ASSUME NEW n \in Nat, NEW S \in SUBSET (0 .. n), S # {}
  PROVE  Max(S) \in S /\ \A y \in S : Max(S) >= y
<1> DEFINE T == {n - x : x \in S}
<1>1. T \in SUBSET Nat /\ T # {}
  <2>1. \A x \in S : n - x \in Nat
    OBVIOUS
  <2> QED
    BY <2>1, Zenon
<1>2. Min(T) \in T /\ \A y \in T : Min(T) <= y
  BY <1>1, MinIsLeast
<1>3. PICK x \in S : Min(T) = n - x
  BY <1>2
<1>4. \A y \in S : x >= y
  <2>1. \A y \in S : n - x <= n - y
    BY <1>2, <1>3
  <2> QED
    BY <2>1
<1> QED
  BY <1>4 DEF Max

\* The maximum of a set that one number is put on top of.
LEMMA MaxOnTop ==
  ASSUME NEW n \in Nat, NEW S \in SUBSET (1 .. n - 1)
  PROVE  Max(S \cup {n}) = n
<1> DEFINE T == S \cup {n}
<1>1. \A y \in T : n >= y
  OBVIOUS
<1>2. Max(T) \in T /\ \A y \in T : Max(T) >= y
  <2>1. \E x \in T : \A y \in T : x >= y
    BY <1>1
  <2> HIDE DEF T
  <2> QED
    BY <2>1 DEF Max
<1>3. n \in T /\ T \in SUBSET Nat
  OBVIOUS
<1> DEFINE m == Max(T)
<1> HIDE DEF T, m
<1>4. m \in Nat /\ m >= n /\ n >= m
  BY <1>1, <1>2, <1>3 DEF m
<1>5. m = n
  BY <1>4
<1> QED
  BY <1>5 DEF m, T

\* The chunks of an image lie within it.
LEMMA ChunkBounds ==
  ASSUME NEW n \in Nat, NEW k \in DOMAIN Chunks(n)
  PROVE  /\ Chunks(n)[k].at \in Nat
         /\ Chunks(n)[k].size \in {1, 4}
         /\ Chunks(n)[k].at + Chunks(n)[k].size <= n
         /\ k \in 1 .. n
<1>1. /\ WordCount(n) \in Nat /\ WordSize * WordCount(n) <= n
  <2>1. CASE n = 0
    BY <2>1 DEF WordCount, WordSize
  <2>2. CASE n # 0
    <3>1. (n - 1) \div 4 \in Nat /\ 4 * ((n - 1) \div 4) <= n - 1
      BY <2>2
    <3> QED
      BY <2>2, <3>1 DEF WordCount, WordSize
  <2> QED
    BY <2>1, <2>2
<1> DEFINE w == WordCount(n)
<1>2. /\ DOMAIN Chunks(n) = 1 .. w + (n - 4 * w)
      /\ Chunks(n)[k] = IF k <= w THEN [at |-> 4 * (k - 1), size |-> 4]
                        ELSE [at |-> 4 * w + (k - w - 1), size |-> 1]
  BY DEF Chunks, WordSize, ByteSize
<1> HIDE DEF w
<1>3. w \in Nat /\ 4 * w <= n /\ k \in 1 .. w + (n - 4 * w)
  BY <1>1, <1>2 DEF w, WordSize
<1>4. CASE k <= w
  BY <1>2, <1>3, <1>4
<1>5. CASE ~(k <= w)
  BY <1>2, <1>3, <1>5
<1> QED
  BY <1>4, <1>5

\* Storing chunks of an image leaves bytes in every region, and nothing else
\* changes.
LEMMA StoreChunksGood ==
  ASSUME NEW rs, GoodRegions(rs), NEW baseAddress \in Address, NEW image \in Seq(Byte),
         NEW ks \in SUBSET DOMAIN Chunks(Len(image)),
         \A k \in ks : LET chunk == Chunks(Len(image))[k]
                      IN  Matching(rs, ChunkAddress(baseAddress, chunk), chunk.size) # {}
  PROVE  GoodRegions(StoreChunks(rs, baseAddress, image, ks))
<1> DEFINE n == Len(image)
           new == StoreChunks(rs, baseAddress, image, ks)
           Into(i, b) == StoresInto(rs, baseAddress, n, ks, i, b)
           Stored_(i, b) == IF Into(i, b) = {} THEN rs[i].pData[b]
                            ELSE StoredByte(rs, baseAddress, image, Max(Into(i, b)), b)
           Data(i) == [b \in 1 .. Len(rs[i].pData) |-> Stored_(i, b)]
<1>1. n \in Nat /\ \A x \in 1 .. n : image[x] \in Byte
  BY LenProperties, ElementOfSeq
<1>2. new = [i \in DOMAIN rs |-> [rs[i] EXCEPT !.pData = Data(i)]]
  BY DEF StoreChunks
<1>3. ASSUME NEW i \in DOMAIN rs
      PROVE  Data(i) \in Seq(Byte)
  <2>1. rs[i].pData \in Seq(Byte)
    BY GoodElement DEF GoodRegion, MemoryRegion
  <2>2. Len(rs[i].pData) \in Nat /\ \A b \in 1 .. Len(rs[i].pData) : rs[i].pData[b] \in Byte
    BY <2>1, LenProperties, ElementOfSeq
  <2>3. ASSUME NEW b \in 1 .. Len(rs[i].pData), Into(i, b) # {}
        PROVE  Stored_(i, b) \in Byte
    <3> DEFINE k == Max(Into(i, b))
               chunk == Chunks(n)[k]
               off == RegionOffset(rs, ChunkTarget(rs, baseAddress, chunk))
    <3>1. Into(i, b) \in SUBSET (0 .. n)
      BY <1>1, ChunkBounds DEF StoresInto
    <3>2. k \in Into(i, b)
      BY <3>1, <2>3, <1>1, MaxIsGreatest
    <3> HIDE DEF k
    <3>3. /\ k \in DOMAIN Chunks(n) /\ k \in ks
          /\ ChunkTarget(rs, baseAddress, chunk).region = i
          /\ b - 1 >= off /\ b - 1 < off + chunk.size
      BY <3>2 DEF StoresInto
    <3>4. /\ chunk.at \in Nat /\ chunk.size \in {1, 4} /\ chunk.at + chunk.size <= n
      BY <3>3, <1>1, ChunkBounds
    <3> HIDE DEF chunk
    <3>5. off \in Int
      <4>1. rs[i].baseAddress \in Int
        BY GoodElement, AddressLimitAssumption DEF GoodRegion, MemoryRegion, Address
      <4>2. ChunkAddress(baseAddress, chunk) \in Address
        <5> DEFINE sum == baseAddress + chunk.at
        <5>1. sum \in Int
          BY <3>4, AddressLimitAssumption DEF Address
        <5> HIDE DEF sum
        <5>2. sum % AddressLimit \in 0 .. AddressLimit - 1
          BY <5>1, AddressLimitAssumption
        <5> QED
          BY <5>2 DEF ChunkAddress, Address, sum
      <4>3. Matching(rs, ChunkAddress(baseAddress, chunk), chunk.size) # {}
        BY <3>3 DEF chunk
      <4>4. ChunkTarget(rs, baseAddress, chunk).address \in Address
        BY <4>2, <4>3, FindGood DEF ChunkTarget
      <4> QED
        BY <4>1, <4>4, <3>3, AddressLimitAssumption DEF RegionOffset, Address
    <3> HIDE DEF off
    <3>6. chunk.at + b - off \in 1 .. n
      BY <3>3, <3>4, <3>5, <2>2, <1>1
    <3>7. Stored_(i, b) = image[chunk.at + b - off]
      BY <2>3 DEF StoredByte, k, chunk, off
    <3> QED
      BY <3>6, <3>7, <1>1
  <2> HIDE DEF Into
  <2>4. \A b \in 1 .. Len(rs[i].pData) : Stored_(i, b) \in Byte
    BY <2>2, <2>3
  <2> HIDE DEF Stored_
  <2>5. Data(i) \in [1 .. Len(rs[i].pData) -> Byte]
    BY <2>4
  <2> QED
    BY <2>2, <2>5, SeqDef
<1> HIDE DEF Data
<1>4. ASSUME NEW i \in DOMAIN rs
      PROVE  /\ GoodRegion([rs[i] EXCEPT !.pData = Data(i)])
             /\ [rs[i] EXCEPT !.pData = Data(i)].isAlias = rs[i].isAlias
             /\ [rs[i] EXCEPT !.pData = Data(i)].pRedirect = rs[i].pRedirect
  <2>1. GoodRegion(rs[i])
    BY GoodElement
  <2> QED
    BY <2>1, <1>3 DEF GoodRegion, MemoryRegion
<1>5. /\ DOMAIN new = DOMAIN rs
      /\ \A i \in DOMAIN rs : new[i] = [rs[i] EXCEPT !.pData = Data(i)]
  BY <1>2
<1>6. new \in [DOMAIN rs -> MemoryRegion]
  BY <1>2, <1>4 DEF GoodRegion
<1>7. \A i \in DOMAIN rs : /\ GoodRegion(new[i])
                           /\ new[i].isAlias = rs[i].isAlias
                           /\ new[i].pRedirect = rs[i].pRedirect
  BY <1>4, <1>5
<1> HIDE DEF new
<1>8. GoodRegions(new)
  BY <1>5, <1>6, <1>7, SameRedirects
<1> QED
  BY <1>8 DEF new

\* Loading an image, whether it fits or not.
LEMMA LoadGood ==
  ASSUME NEW rs, GoodRegions(rs), NEW baseAddress \in Address, NEW image \in Seq(Byte)
  PROVE  LET result == LoadFromFlashImage(rs, baseAddress, image)
         IN  GoodRegions(result.regions) /\ result.exception \in Exception
<1>1. Stored(rs, baseAddress, Len(image)) \in SUBSET DOMAIN Chunks(Len(image))
  BY DEF Stored
<1>2. \A k \in Stored(rs, baseAddress, Len(image)) :
        LET chunk == Chunks(Len(image))[k]
        IN  Matching(rs, ChunkAddress(baseAddress, chunk), chunk.size) # {}
  <2>1. Len(image) \in Nat
    BY LenProperties
  <2>2. \A k \in DOMAIN Chunks(Len(image)) : k \in 1 .. Len(image)
    BY <2>1, ChunkBounds
  <2>3. \A k \in DOMAIN Chunks(Len(image)) : k \in 1 .. k
    BY <2>1, <2>2
  <2> QED
    BY <2>3 DEF Stored
<1>3. GoodRegions(StoreChunks(rs, baseAddress, image, Stored(rs, baseAddress, Len(image))))
  BY <1>1, <1>2, StoreChunksGood
<1> QED
  BY <1>3 DEF LoadFromFlashImage, Returns, Throws, Exception

\* Creating the regions of a flash image, however far it gets.
LEMMA FlashGood ==
  ASSUME NEW rs, GoodRegions(rs), NEW image \in [bytes : Seq(Byte), stack : Address],
         Len(image.bytes) \in Address,
         NEW flashOk \in BOOLEAN, NEW countsOk \in BOOLEAN, NEW ramOk \in BOOLEAN
  PROVE  LET result == CreateRegionsFromFlashImage(rs, image, flashOk, countsOk, ramOk)
         IN  GoodRegions(result.regions) /\ result.exception \in Exception
<1> DEFINE created == CreateRegion(rs, FLASH_BASE_ADDRESS, Len(image.bytes), flashOk)
           loaded  == LoadFromFlashImage(created.regions, FLASH_BASE_ADDRESS, image.bytes)
           locked  == MakeRegionReadOnly(loaded.regions, FLASH_BASE_ADDRESS, countsOk)
           ram     == CreateRegion(locked.regions, RAMBase(image.stack),
                                   image.stack % RAMBlock, ramOk)
<1>1. FLASH_BASE_ADDRESS \in Address
  BY AddressLimitAssumption DEF FLASH_BASE_ADDRESS, Address
<1>2. RAMBase(image.stack) \in Address /\ image.stack % RAMBlock \in Address
  <2>1. image.stack \in 0 .. AddressLimit - 1
    BY DEF Address
  <2>2. image.stack % RAMBlock \in Nat /\ image.stack % RAMBlock <= image.stack
    BY <2>1, RAMBlockAssumption, AddressLimitAssumption
  <2> QED
    BY <2>1, <2>2, AddressLimitAssumption DEF RAMBase, Address
<1>3. GoodRegions(created.regions) /\ created.exception \in Exception
  BY <1>1, CreateRegionGood
<1> HIDE DEF created
<1>4. GoodRegions(loaded.regions) /\ loaded.exception \in Exception
  BY <1>1, <1>3, LoadGood
<1> HIDE DEF loaded
<1>5. GoodRegions(locked.regions) /\ locked.exception \in Exception
  BY <1>1, <1>4, MakeRegionReadOnlyGood
<1> HIDE DEF locked
<1>6. GoodRegions(ram.regions) /\ ram.exception \in Exception
  BY <1>2, <1>5, CreateRegionGood
<1> HIDE DEF ram
<1>7. GoodRegions(freeLastRegion(locked.regions)) /\ GoodRegions(freeLastRegion(ram.regions))
  BY <1>5, <1>6, FreeLastGood
<1> DEFINE Failed(step) == step.exception # noException
           result == CreateRegionsFromFlashImage(rs, image, flashOk, countsOk, ramOk)
<1>8. result = IF Len(image.bytes) < WordSize THEN Throws(rs, bufferOverrunException)
               ELSE IF Failed(created) THEN created
               ELSE IF Failed(loaded) THEN loaded
               ELSE IF Failed(locked)
                    THEN Throws(freeLastRegion(locked.regions), locked.exception)
               ELSE IF Failed(ram) THEN Throws(freeLastRegion(ram.regions), ram.exception)
               ELSE ram
  BY DEF CreateRegionsFromFlashImage, created, loaded, locked, ram
<1> HIDE DEF result
<1>9. result \in {Throws(rs, bufferOverrunException), created, loaded, ram,
                 Throws(freeLastRegion(locked.regions), locked.exception),
                 Throws(freeLastRegion(ram.regions), ram.exception)}
  BY <1>8
<1>10. \A rs1, e : Throws(rs1, e).regions = rs1 /\ Throws(rs1, e).exception = e
  BY DEF Throws
<1>11. bufferOverrunException \in Exception
  BY DEF Exception
<1>12. GoodRegions(result.regions) /\ result.exception \in Exception
  BY <1>3, <1>4, <1>5, <1>6, <1>7, <1>9, <1>10, <1>11
<1> QED
  BY <1>12 DEF result
(***************************************************************************)
(* What is loaded on top of other regions keeps them.                      *)
(***************************************************************************)

\* Creating a region keeps those before it.
LEMMA CreateKeepsRegions ==
  ASSUME NEW old, NEW rs \in Seq(MemoryRegion), KeepsRegions(old, rs),
         NEW baseAddress, NEW size, NEW mallocOk
  PROVE  KeepsRegions(old, CreateRegion(rs, baseAddress, size, mallocOk).regions)
<1> DEFINE new == NewRegion(baseAddress, size)
<1>1. Len(rs) \in Nat /\ DOMAIN rs = 1 .. Len(rs)
  BY LenProperties
<1>2. /\ DOMAIN Append(rs, new) = 1 .. Len(rs) + 1
      /\ \A i \in 1 .. Len(rs) : Append(rs, new)[i] = rs[i]
  BY <1>1
<1> HIDE DEF new
<1>3. KeepsRegions(old, Append(rs, new))
  BY <1>1, <1>2 DEF KeepsRegions
<1> QED
  BY <1>3 DEF CreateRegion, Returns, Throws, new

\* Writing to a region that is not read-only keeps them.
LEMMA OverwriteKeepsRegions ==
  ASSUME NEW old \in Seq(MemoryRegion), NEW rs, KeepsRegions(old, rs),
         NEW found, found.region \in DOMAIN rs, ~rs[found.region].isReadOnly, NEW bytes
  PROVE  KeepsRegions(old, Overwrite(rs, found, bytes))
<1> DEFINE f   == found.region
           new == Overwrite(rs, found, bytes)
<1>1. /\ DOMAIN new = DOMAIN rs
      /\ new[f] = [rs[f] EXCEPT !.pData = new[f].pData]
      /\ \A i \in DOMAIN rs : i # f => new[i] = rs[i]
  <2>1. PICK data : new = [rs EXCEPT ![f].pData = data]
    BY DEF Overwrite
  <2>2. new[f] = [rs[f] EXCEPT !.pData = data]
    BY <2>1
  <2>3. [rs[f] EXCEPT !.pData = new[f].pData] = [rs[f] EXCEPT !.pData = data]
    <3>1. CASE "pData" \in DOMAIN rs[f]
      BY <2>2, <3>1
    <3>2. CASE "pData" \notin DOMAIN rs[f]
      BY <3>2
    <3> QED
      BY <3>1, <3>2
  <2> QED
    BY <2>1, <2>2, <2>3
<1> HIDE DEF new
<1>2. SUFFICES ASSUME NEW i \in DOMAIN old
               PROVE  /\ new[i] = [old[i] EXCEPT !.pData = new[i].pData]
                      /\ old[i].isReadOnly => new[i] = old[i]
  BY <1>1 DEF KeepsRegions, new
<1>3. /\ i \in DOMAIN rs
      /\ rs[i] = [old[i] EXCEPT !.pData = rs[i].pData]
      /\ old[i].isReadOnly => rs[i] = old[i]
  BY DEF KeepsRegions
<1>4. CASE i # f
  BY <1>1, <1>3, <1>4
<1>5. CASE i = f
  <2>1. old[i] \in MemoryRegion
    BY ElementOfSeq, LenProperties
  <2>2. ~old[i].isReadOnly
    BY <1>3, <1>5
  <2>3. [rs[i] EXCEPT !.pData = new[i].pData] = [old[i] EXCEPT !.pData = new[i].pData]
    BY <1>3, <2>1 DEF MemoryRegion
  <2> QED
    BY <1>1, <1>5, <2>2, <2>3
<1> QED
  BY <1>4, <1>5

\* Addresses wrap once.
LEMMA Wrapping ==
  /\ \A x \in Int : x >= 0 /\ x < AddressLimit => x % AddressLimit = x
  /\ \A x \in Int : x >= AddressLimit /\ x < 2 * AddressLimit => x % AddressLimit = x - AddressLimit
  /\ \A x \in Int : x < 0 /\ x >= 0 - AddressLimit => x % AddressLimit = x + AddressLimit
<1> DEFINE L == AddressLimit
<1>1. L \in Nat /\ L > 0
  BY AddressLimitAssumption
<1> HIDE DEF L
<1>2. \A x \in 0 .. L - 1 : x % L = x /\ (x + L) % L = x /\ (x - L) % L = x
  BY <1>1
<1>3. \A x \in Int : x >= 0 /\ x < L => x % L = x
  BY <1>1, <1>2
<1>4. \A x \in Int : x >= L /\ x < 2 * L => x % L = x - L
  <2> TAKE x \in Int
  <2> SUFFICES ASSUME x >= L, x < 2 * L PROVE x % L = x - L
    OBVIOUS
  <2>1. x - L \in 0 .. L - 1 /\ x = (x - L) + L
    BY <1>1
  <2> QED
    BY <1>2, <2>1
<1>5. \A x \in Int : x < 0 /\ x >= 0 - L => x % L = x + L
  <2> TAKE x \in Int
  <2> SUFFICES ASSUME x < 0, x >= 0 - L PROVE x % L = x + L
    OBVIOUS
  <2>1. x + L \in 0 .. L - 1 /\ x = (x + L) - L
    BY <1>1
  <2> QED
    BY <1>2, <2>1
<1> QED
  BY <1>3, <1>4, <1>5 DEF L

\* Wrapping a part of a sum first makes no difference.
LEMMA WrappedSum ==
  ASSUME NEW x \in Nat, x < 2 * AddressLimit, NEW y \in Nat, y <= AddressLimit
  PROVE  ((x % AddressLimit) + y) % AddressLimit = (x + y) % AddressLimit
<1> DEFINE L == AddressLimit
<1>1. L \in Nat /\ L > 0
  BY AddressLimitAssumption
<1> HIDE DEF L
<1>2. \A z \in Int : z >= 0 /\ z < L => z % L = z /\ (z + L) % L = z /\ (z + 2 * L) % L = z
  <2> TAKE z \in Int
  <2> SUFFICES ASSUME z >= 0, z < L PROVE z % L = z /\ (z + L) % L = z /\ (z + 2 * L) % L = z
    OBVIOUS
  <2> QED
    BY <1>1
<1>3. \A z \in Int : z >= L /\ z <= 3 * L => (z - L) % L = z % L
  <2> TAKE z \in Int
  <2> SUFFICES ASSUME z >= L, z <= 3 * L PROVE (z - L) % L = z % L
    OBVIOUS
  <2>1. CASE z < 2 * L
    <3>1. PICK w \in Int : w = z - L
      BY <1>1
    <3>2. w >= 0 /\ w < L /\ z = w + L
      BY <1>1, <2>1, <3>1
    <3> QED
      BY <1>2, <3>1, <3>2
  <2>2. CASE z >= 2 * L /\ z < 3 * L
    <3>1. PICK w \in Int : w = z - 2 * L
      BY <1>1
    <3>2. w >= 0 /\ w < L /\ z = w + 2 * L /\ z - L = w + L
      BY <1>1, <2>2, <3>1
    <3> QED
      BY <1>2, <3>2
  <2>3. CASE z = 3 * L
    BY <1>1, <2>3
  <2> QED
    BY <1>1, <2>1, <2>2, <2>3
<1>4. CASE x < L
  BY <1>1, <1>2, <1>4 DEF L
<1>5. CASE x >= L
  <2>1. PICK w \in Int : w = x - L
    BY <1>1
  <2>2. w >= 0 /\ w < L /\ x = w + L
    BY <1>1, <1>5, <2>1 DEF L
  <2>3. x % L = w
    BY <1>2, <2>2
  <2>4. PICK z \in Int : z = x + y
    OBVIOUS
  <2>5. z >= L /\ z <= 3 * L /\ z - L = w + y
    BY <1>1, <1>5, <2>1, <2>4 DEF L
  <2> QED
    BY <1>3, <2>3, <2>4, <2>5 DEF L
<1> QED
  BY <1>1, <1>4, <1>5

(***************************************************************************)
(* What a dump loader does to the list: it adds RAM, and stores into RAM.  *)
(***************************************************************************)

\* A region that is created is a new one behind the others.
LEMMA CreateAppends ==
  ASSUME NEW rs \in Seq(MemoryRegion), NEW baseAddress, NEW size, NEW mallocOk,
         CreateRegion(rs, baseAddress, size, mallocOk).exception = noException
  PROVE  LET created == CreateRegion(rs, baseAddress, size, mallocOk).regions
             new     == created[Len(created)]
         IN  /\ Len(created) = Len(rs) + 1
             /\ created = Append(rs, NewRegion(new.baseAddress, new.size))
<1> DEFINE new == NewRegion(baseAddress, size)
<1>1. CreateRegion(rs, baseAddress, size, mallocOk).regions = Append(rs, new)
  BY DEF CreateRegion, Returns, Throws, noException, outOfMemoryException
<1>2. new.baseAddress = baseAddress /\ new.size = size
  BY DEF NewRegion
<1> HIDE DEF new
<1>3. /\ Len(rs) \in Nat
      /\ Len(Append(rs, new)) = Len(rs) + 1
      /\ Append(rs, new)[Len(rs) + 1] = new
  BY LenProperties, AppendProperties
<1> QED
  BY <1>1, <1>2, <1>3 DEF new

\* Bytes that are written change the data of one region, and not how much it has.
LEMMA OverwriteStores ==
  ASSUME NEW rs \in Seq(MemoryRegion), NEW found, found.region \in DOMAIN rs, NEW bytes
  PROVE  LET new == Overwrite(rs, found, bytes)
         IN  /\ DOMAIN new = DOMAIN rs
             /\ Len(new[found.region].pData) = Len(rs[found.region].pData)
             /\ new = [rs EXCEPT ![found.region].pData = new[found.region].pData]
<1> DEFINE f     == found.region
           first == RegionOffset(rs, found) + 1
           old   == rs[f].pData
           data  == [b \in 1 .. Len(old) |->
                       IF b \in first .. first + Len(bytes) - 1 THEN bytes[b - first + 1]
                       ELSE old[b]]
           new   == Overwrite(rs, found, bytes)
<1>1. new = [rs EXCEPT ![f].pData = data]
  BY DEF Overwrite
<1>2. rs[f] \in MemoryRegion /\ Len(old) \in Nat
  <2>1. rs[f] \in MemoryRegion
    BY LenProperties, ElementOfSeq
  <2> QED
    BY <2>1, LenProperties DEF MemoryRegion
<1>3. Len(data) = Len(old)
  <2>1. DOMAIN data = 1 .. Len(old)
    OBVIOUS
  <2> HIDE DEF data
  <2> QED
    BY <1>2, <2>1
<1> HIDE DEF data, new
<1>4. new[f].pData = data
  BY <1>1, <1>2 DEF MemoryRegion
<1>5. DOMAIN new = DOMAIN rs
  BY <1>1
<1> QED
  BY <1>1, <1>3, <1>4, <1>5 DEF new

(***************************************************************************)
(* Reading back what was written, in a list without aliases.               *)
(***************************************************************************)

\* No region is an alias, and each has as many bytes as its size.
Filled(rs) ==
  /\ rs \in Seq(MemoryRegion)
  /\ \A i \in DOMAIN rs : ~rs[i].isAlias /\ Len(rs[i].pData) = rs[i].size

\* The byte at an address is in the first region that holds it.
LEMMA ByteAt ==
  ASSUME NEW rs, Filled(rs), NEW a \in Address, Matching(rs, a, ByteSize) # {}
  PROVE  LET i == Min(Matching(rs, a, ByteSize))
         IN  /\ i \in DOMAIN rs /\ rs[i] \in MemoryRegion
             /\ findMatchingRegion(rs, a, ByteSize) = [region |-> i, address |-> a]
             /\ a - rs[i].baseAddress \in 0 .. rs[i].size - 1
             /\ RegionOffset(rs, [region |-> i, address |-> a]) = a - rs[i].baseAddress
             /\ ByteOf(rs, a) = rs[i].pData[a - rs[i].baseAddress + 1]
<1> DEFINE i == Min(Matching(rs, a, ByteSize))
<1>1. DOMAIN rs = 1 .. Len(rs) /\ Len(rs) \in Nat
  BY LenProperties DEF Filled
<1>2. i \in Matching(rs, a, ByteSize)
  <2>1. Matching(rs, a, ByteSize) \in SUBSET Nat
    BY <1>1 DEF Matching
  <2> QED
    BY <2>1, MinIsLeast
<1>3. findMatchingRegion(rs, a, ByteSize) = [region |-> i, address |-> a]
  BY <1>2 DEF findMatchingRegion, Matching, Filled
<1> HIDE DEF i
<1>4. i \in DOMAIN rs /\ Holds(rs[i], a, ByteSize)
  BY <1>2 DEF Matching
<1>5. rs[i] \in MemoryRegion
  BY <1>1, <1>4, ElementOfSeq DEF Filled
<1>6. a \in Nat /\ rs[i].baseAddress \in Nat /\ rs[i].size \in 0 .. AddressLimit - 1
  BY <1>5, AddressLimitAssumption DEF MemoryRegion, Address
<1>7. a - rs[i].baseAddress \in 0 .. rs[i].size - 1
  BY <1>4, <1>6 DEF Holds, ByteSize
<1>8. RegionOffset(rs, [region |-> i, address |-> a]) = a - rs[i].baseAddress
  <2>1. a - rs[i].baseAddress \in 0 .. AddressLimit - 1
    BY <1>6, <1>7, AddressLimitAssumption
  <2>2. \A x \in 0 .. AddressLimit - 1 : x % AddressLimit = x
    BY AddressLimitAssumption
  <2> QED
    BY <2>1, <2>2 DEF RegionOffset
<1>9. ByteOf(rs, a) = rs[i].pData[a - rs[i].baseAddress + 1]
  BY <1>3, <1>8 DEF ByteOf
<1> QED
  BY <1>3, <1>4, <1>5, <1>7, <1>8, <1>9 DEF i

\* Induction, for a set of naturals.
LEMMA SetInduction ==
  ASSUME NEW S, 0 \in S, \A n \in Nat : n \in S => n + 1 \in S
  PROVE  \A n \in Nat : n \in S
<1> DEFINE T == Nat \ S
           m == Min(T)
<1>1. SUFFICES ASSUME T # {} PROVE FALSE
  OBVIOUS
<1>2. m \in T /\ \A x \in T : m <= x
  BY <1>1, MinIsLeast
<1> HIDE DEF m
<1>3. m \in Nat /\ m # 0
  BY <1>2
<1>4. m - 1 \in Nat /\ m - 1 \notin T
  BY <1>2, <1>3
<1>5. m - 1 + 1 \in S
  BY <1>4
<1> QED
  BY <1>2, <1>3, <1>5

\* g is a followed by its sums with the first n of w.
SumsOf(g, n, a, w) ==
  /\ g \in [1 .. n + 1 -> Nat]
  /\ \A k \in 1 .. n + 1 : g[k] = IF k = 1 THEN a ELSE g[k - 1] + w[k - 1]

\* Numbers can be summed up one after the other.
LEMMA RunningSum ==
  ASSUME NEW n \in Nat, NEW a \in Nat, NEW w \in [1 .. n -> Nat]
  PROVE  \E g : SumsOf(g, n, a, w)
<1> DEFINE Sums(m, g) == \A k \in 1 .. m + 1 : g[k] = IF k = 1 THEN a ELSE g[k - 1] + w[k - 1]
           S == {m \in Nat : m <= n => \E g \in [1 .. m + 1 -> Nat] : Sums(m, g)}
<1>0. \A m \in Nat : m \in S <=> (m <= n => \E g \in [1 .. m + 1 -> Nat] : Sums(m, g))
  OBVIOUS
<1> HIDE DEF S
<1>1. 0 \in S
  <2> DEFINE g == [k \in 1 .. 1 |-> a]
  <2>1. g \in [1 .. 0 + 1 -> Nat]
    OBVIOUS
  <2>2. Sums(0, g)
    OBVIOUS
  <2> HIDE DEF Sums, g
  <2> QED
    BY <1>0, <2>1, <2>2
<1>2. ASSUME NEW m \in Nat, m \in S
      PROVE  m + 1 \in S
  <2>1. SUFFICES ASSUME m + 1 <= n
                 PROVE  \E h \in [1 .. m + 1 + 1 -> Nat] : Sums(m + 1, h)
    <3>1. m + 1 \in Nat
      OBVIOUS
    <3> HIDE DEF Sums
    <3> QED
      BY <1>0, <3>1
  <2>2. PICK g \in [1 .. m + 1 -> Nat] : Sums(m, g)
    <3>1. m <= n
      BY <2>1
    <3> HIDE DEF Sums
    <3> QED
      BY <1>0, <1>2, <3>1
  <2> DEFINE h == [k \in 1 .. m + 2 |-> IF k <= m + 1 THEN g[k] ELSE g[m + 1] + w[m + 1]]
  <2>3. g[m + 1] + w[m + 1] \in Nat
    BY <2>1, <2>2
  <2>4. h \in [1 .. m + 1 + 1 -> Nat]
    BY <2>2, <2>3
  <2>5. Sums(m + 1, h)
    <3>1. ASSUME NEW k \in 1 .. m + 2
          PROVE  h[k] = IF k = 1 THEN a ELSE h[k - 1] + w[k - 1]
      <4>1. CASE k <= m + 1
        <5>1. k \in 1 .. m + 1 /\ h[k] = g[k] /\ (k # 1 => h[k - 1] = g[k - 1])
          BY <4>1
        <5> QED
          BY <5>1, <2>2
      <4>2. CASE k = m + 2
        BY <4>2
      <4> QED
        BY <4>1, <4>2
    <3> QED
      BY <3>1
  <2> QED
    BY <2>4, <2>5
<1>3. n \in S
  BY <1>1, <1>2, SetInduction
<1>4. \E g \in [1 .. n + 1 -> Nat] : Sums(n, g)
  <2>1. n <= n
    OBVIOUS
  <2> HIDE DEF Sums
  <2> QED
    BY <1>0, <1>3, <2>1
<1> QED
  BY <1>4 DEF SumsOf

\* Two sets of naturals that agree up to the minimum of one have the same minimum.
LEMMA MinOfUnion ==
  ASSUME NEW n \in Nat, NEW S \in SUBSET (1 .. n), NEW T \in SUBSET {n + 1}, S # {}
  PROVE  Min(S \cup T) = Min(S)
<1> DEFINE m == Min(S)
           k == Min(S \cup T)
<1>1. S \in SUBSET Nat /\ S \cup T \in SUBSET Nat /\ S \cup T # {}
  OBVIOUS
<1>2. m \in S /\ (\A x \in S : m <= x) /\ k \in S \cup T /\ (\A x \in S \cup T : k <= x)
  BY <1>1, MinIsLeast
<1> HIDE DEF m, k
<1>3. m \in 1 .. n /\ k <= m /\ (k \in S \/ k = n + 1)
  BY <1>2
<1>4. k \in S
  BY <1>3
<1>5. m <= k /\ k \in Nat /\ m \in Nat
  BY <1>2, <1>4
<1>6. k = m
  BY <1>3, <1>5
<1> QED
  BY <1>6 DEF m, k

\* A new region behind the others is only seen where no other one is.
LEMMA AppendedBytes ==
  ASSUME NEW rs, Filled(rs), NEW baseAddress \in Address, NEW size \in Address
  PROVE  LET new == Append(rs, NewRegion(baseAddress, size))
         IN  /\ Filled(new)
             /\ \A a \in Address :
                  /\ Matching(rs, a, ByteSize) # {} =>
                       /\ Matching(new, a, ByteSize) # {}
                       /\ ByteOf(new, a) = ByteOf(rs, a)
                       /\ Min(Matching(new, a, ByteSize)) = Min(Matching(rs, a, ByteSize))
                  /\ Matching(rs, a, ByteSize) = {} =>
                       (Matching(new, a, ByteSize) # {} <=>
                          a >= baseAddress /\ a < baseAddress + size)
<1> DEFINE r   == NewRegion(baseAddress, size)
           new == Append(rs, r)
           n   == Len(rs)
<1>1. n \in Nat /\ DOMAIN rs = 1 .. n /\ rs \in Seq(MemoryRegion)
  BY LenProperties DEF Filled
<1>2. /\ r \in MemoryRegion /\ ~r.isAlias /\ Len(r.pData) = size
      /\ r.baseAddress = baseAddress /\ r.size = size
  <2>1. size \in Nat /\ 0 \in Address
    BY AddressLimitAssumption DEF Address
  <2> DEFINE data == [k \in 1 .. size |-> 0]
  <2>2. data \in Seq(Byte)
    <3>1. data \in [1 .. size -> Byte]
      BY ByteAssumption
    <3> QED
      BY <2>1, <3>1, SeqDef
  <2>3. Len(data) = size
    <3>1. Len(data) \in Nat /\ DOMAIN data = 1 .. Len(data) /\ DOMAIN data = 1 .. size
      BY <2>2, LenProperties
    <3> QED
      BY <2>1, <3>1
  <2>4. <<>> \in Seq(Nat) /\ <<>> \in Seq(Watchpoint)
    OBVIOUS
  <2> HIDE DEF data
  <2>5. r = [baseAddress |-> baseAddress, size |-> size, pData |-> data,
             isReadOnly |-> FALSE, pReadCounts |-> <<>>, watchpoints |-> <<>>,
             isAlias |-> FALSE, redirectAddress |-> 0, pRedirect |-> 0]
    BY DEF NewRegion, data
  <2> QED
    BY <2>1, <2>2, <2>3, <2>4, <2>5 DEF MemoryRegion
<1> HIDE DEF r
<1>3. /\ new \in Seq(MemoryRegion) /\ DOMAIN new = 1 .. n + 1
      /\ \A j \in 1 .. n : new[j] = rs[j]
      /\ new[n + 1] = r
  BY <1>1, <1>2
<1> HIDE DEF new
<1>4. Filled(new)
  BY <1>1, <1>2, <1>3 DEF Filled
<1>5. SUFFICES ASSUME NEW a \in Address
               PROVE  /\ Matching(rs, a, ByteSize) # {} =>
                           /\ Matching(new, a, ByteSize) # {}
                           /\ ByteOf(new, a) = ByteOf(rs, a)
                           /\ Min(Matching(new, a, ByteSize)) = Min(Matching(rs, a, ByteSize))
                      /\ Matching(rs, a, ByteSize) = {} =>
                           (Matching(new, a, ByteSize) # {} <=>
                              a >= baseAddress /\ a < baseAddress + size)
  BY <1>4 DEF new, r
<1>6. Holds(r, a, ByteSize) <=> a >= baseAddress /\ a < baseAddress + size
  BY <1>2, AddressLimitAssumption DEF Holds, ByteSize, Address
<1> DEFINE S == Matching(rs, a, ByteSize)
           T == {j \in {n + 1} : Holds(r, a, ByteSize)}
<1>7. Matching(new, a, ByteSize) = S \cup T /\ S \in SUBSET (1 .. n) /\ T \in SUBSET {n + 1}
  BY <1>1, <1>3 DEF Matching
<1>8. CASE S # {}
  <2>1. Min(S \cup T) = Min(S)
    BY <1>1, <1>7, <1>8, MinOfUnion
  <2>2. /\ Min(S) \in DOMAIN rs
        /\ ByteOf(rs, a) = rs[Min(S)].pData[a - rs[Min(S)].baseAddress + 1]
    BY <1>8, ByteAt
  <2>3. ByteOf(new, a) = new[Min(S)].pData[a - new[Min(S)].baseAddress + 1]
    BY <1>4, <1>7, <1>8, <2>1, ByteAt
  <2> QED
    BY <1>1, <1>3, <1>7, <1>8, <2>1, <2>2, <2>3
<1>9. CASE S = {}
  BY <1>6, <1>7, <1>9
<1> QED
  BY <1>8, <1>9

\* A byte that is written is read back, and no other address reads anything else.
LEMMA WrittenByte ==
  ASSUME NEW rs, Filled(rs), NEW address \in Address, NEW v \in Byte,
         Matching(rs, address, ByteSize) # {}
  PROVE  LET new == Overwrite(rs, findMatchingRegion(rs, address, ByteSize), <<v>>)
         IN  /\ Filled(new)
             /\ \A a \in Address :
                  /\ Matching(new, a, ByteSize) = Matching(rs, a, ByteSize)
                  /\ Matching(rs, a, ByteSize) # {} =>
                       ByteOf(new, a) = IF a = address THEN v ELSE ByteOf(rs, a)
<1> DEFINE f     == Min(Matching(rs, address, ByteSize))
           found == [region |-> f, address |-> address]
           first == RegionOffset(rs, found) + 1
           old   == rs[f].pData
           bytes == <<v>>
           data  == [b \in 1 .. Len(old) |->
                       IF b \in first .. first + Len(bytes) - 1 THEN bytes[b - first + 1] ELSE old[b]]
           new   == Overwrite(rs, found, bytes)
<1>1. /\ f \in DOMAIN rs /\ rs[f] \in MemoryRegion
      /\ findMatchingRegion(rs, address, ByteSize) = found
      /\ address - rs[f].baseAddress \in 0 .. rs[f].size - 1
      /\ first = address - rs[f].baseAddress + 1
  BY ByteAt
<1>2. new = [rs EXCEPT ![f].pData = data]
  BY DEF Overwrite
<1>3. old \in Seq(Byte) /\ Len(old) = rs[f].size /\ Len(old) \in Nat
  BY <1>1, LenProperties DEF Filled, MemoryRegion
<1> HIDE DEF f, first
<1>4. /\ first \in 1 .. Len(old)
      /\ data = [b \in 1 .. Len(old) |-> IF b = first THEN v ELSE old[b]]
  <2>1. first \in 1 .. Len(old)
    BY <1>1, <1>3
  <2>2. Len(bytes) = 1 /\ bytes[1] = v
    OBVIOUS
  <2>3. \A b \in 1 .. Len(old) :
          (IF b \in first .. first + Len(bytes) - 1 THEN bytes[b - first + 1] ELSE old[b])
            = (IF b = first THEN v ELSE old[b])
    <3> TAKE b \in 1 .. Len(old)
    <3>1. CASE b = first
      <4>1. b - first + 1 = 1 /\ b \in first .. first + 1 - 1
        BY <2>1, <3>1
      <4> QED
        BY <2>2, <3>1, <4>1
    <3>2. CASE b # first
      <4>1. b \notin first .. first + 1 - 1
        BY <2>1, <3>2
      <4> QED
        BY <2>2, <3>2, <4>1
    <3> QED
      BY <3>1, <3>2
  <2> QED
    BY <2>1, <2>3
<1> HIDE DEF data, bytes
<1>5. data \in Seq(Byte) /\ Len(data) = Len(old)
  <2>1. \A b \in 1 .. Len(old) : old[b] \in Byte
    BY <1>3, ElementOfSeq
  <2>2. data \in [1 .. Len(old) -> Byte]
    BY <1>4, <2>1
  <2>3. data \in Seq(Byte)
    BY <1>3, <2>2, SeqDef
  <2>4. Len(data) \in Nat /\ DOMAIN data = 1 .. Len(data) /\ DOMAIN data = 1 .. Len(old)
    BY <2>2, <2>3, LenProperties
  <2> QED
    BY <1>3, <2>3, <2>4
<1> HIDE DEF new
<1>6. rs \in Seq(MemoryRegion) /\ DOMAIN rs = 1 .. Len(rs) /\ Len(rs) \in Nat
  BY LenProperties DEF Filled
<1>7. /\ DOMAIN new = DOMAIN rs
      /\ \A j \in DOMAIN rs : j # f => new[j] = rs[j]
      /\ new[f] = [rs[f] EXCEPT !.pData = data]
  BY <1>1, <1>2
<1>8. /\ new[f] \in MemoryRegion /\ new[f].pData = data /\ new[f].isAlias = rs[f].isAlias
      /\ new[f].baseAddress = rs[f].baseAddress /\ new[f].size = rs[f].size
  BY <1>1, <1>5, <1>7 DEF MemoryRegion
<1>9. Filled(new)
  <2>1. \A j \in DOMAIN rs : rs[j] \in MemoryRegion
    BY <1>6, ElementOfSeq
  <2>2. new \in [1 .. Len(rs) -> MemoryRegion]
    BY <1>2, <1>6, <1>7, <1>8, <2>1
  <2>3. new \in Seq(MemoryRegion)
    BY <1>6, <2>2, SeqDef
  <2>4. \A j \in DOMAIN new : ~new[j].isAlias /\ Len(new[j].pData) = new[j].size
    BY <1>1, <1>3, <1>5, <1>7, <1>8 DEF Filled
  <2> QED
    BY <2>3, <2>4 DEF Filled
<1>10. \A a \in Address : Matching(new, a, ByteSize) = Matching(rs, a, ByteSize)
  BY <1>7, <1>8 DEF Matching, Holds
<1>11. ASSUME NEW a \in Address, Matching(rs, a, ByteSize) # {}
       PROVE  ByteOf(new, a) = IF a = address THEN v ELSE ByteOf(rs, a)
  <2> DEFINE i == Min(Matching(rs, a, ByteSize))
  <2>1. /\ i \in DOMAIN rs /\ rs[i] \in MemoryRegion
        /\ a - rs[i].baseAddress \in 0 .. rs[i].size - 1
        /\ ByteOf(rs, a) = rs[i].pData[a - rs[i].baseAddress + 1]
    BY <1>11, ByteAt
  <2>2. ByteOf(new, a) = new[i].pData[a - new[i].baseAddress + 1]
    BY <1>9, <1>10, <1>11, ByteAt
  <2>3. a = address => i = f
    BY DEF f
  <2> HIDE DEF i
  <2>4. CASE i # f
    BY <1>7, <2>1, <2>2, <2>3, <2>4
  <2>5. CASE i = f
    <3>1. a - rs[f].baseAddress + 1 \in 1 .. Len(old)
      BY <1>3, <2>1, <2>5
    <3>2. ByteOf(new, a) = data[a - rs[f].baseAddress + 1]
      BY <1>8, <2>2, <2>5
    <3>3. a - rs[f].baseAddress + 1 = first <=> a = address
      <4>1. PICK x \in Nat : x = rs[f].baseAddress
        BY <1>1, AddressLimitAssumption DEF MemoryRegion, Address
      <4>2. a \in Nat /\ address \in Nat
        BY AddressLimitAssumption DEF Address
      <4>3. first = address - x + 1
        BY <1>1, <4>1
      <4>4. a - x + 1 = address - x + 1 <=> a = address
        BY <4>2
      <4> QED
        BY <4>1, <4>3, <4>4
    <3>4. \A b \in 1 .. Len(old) : data[b] = IF b = first THEN v ELSE old[b]
      BY <1>4
    <3>5. ByteOf(rs, a) = old[a - rs[f].baseAddress + 1]
      BY <2>1, <2>5
    <3> HIDE DEF old
    <3> QED
      BY <3>1, <3>2, <3>3, <3>4, <3>5
  <2> QED
    BY <2>4, <2>5
<1> QED
  BY <1>1, <1>9, <1>10, <1>11 DEF new, bytes

\* Writing changes the data of regions, not where and what they are.
LEMMA OverwriteShape ==
  ASSUME NEW rs, Filled(rs), GoodRegions(rs), NEW found, found.region \in DOMAIN rs,
         found.address \in Address, NEW size \in Nat, NEW bytes \in [1 .. size -> Byte]
  PROVE  LET new == Overwrite(rs, found, bytes)
         IN  /\ Filled(new) /\ DOMAIN new = DOMAIN rs
             /\ \A i \in DOMAIN rs :
                  /\ new[i].baseAddress = rs[i].baseAddress /\ new[i].size = rs[i].size
                  /\ new[i].isReadOnly = rs[i].isReadOnly
                  /\ i # found.region => new[i] = rs[i]
             /\ \A a, n : Matching(new, a, n) = Matching(rs, a, n)
<1> DEFINE f   == found.region
           new == Overwrite(rs, found, bytes)
<1>1. /\ DOMAIN new = DOMAIN rs
      /\ Len(new[f].pData) = Len(rs[f].pData)
      /\ new = [rs EXCEPT ![f].pData = new[f].pData]
  BY OverwriteStores DEF Filled
<1>2. GoodRegions(new)
  BY OverwriteGood
<1>3. rs[f] \in MemoryRegion
  BY LenProperties, ElementOfSeq DEF Filled
<1> HIDE DEF new, f
<1>4. /\ \A i \in DOMAIN rs : i # f => new[i] = rs[i]
      /\ new[f] = [rs[f] EXCEPT !.pData = new[f].pData]
  BY <1>1 DEF f
<1>5. /\ new[f].baseAddress = rs[f].baseAddress /\ new[f].size = rs[f].size
      /\ new[f].isReadOnly = rs[f].isReadOnly /\ new[f].isAlias = rs[f].isAlias
  BY <1>3, <1>4 DEF MemoryRegion
<1>6. \A i \in DOMAIN rs :
        /\ new[i].baseAddress = rs[i].baseAddress /\ new[i].size = rs[i].size
        /\ new[i].isReadOnly = rs[i].isReadOnly /\ new[i].isAlias = rs[i].isAlias
        /\ Len(new[i].pData) = Len(rs[i].pData)
  BY <1>1, <1>4, <1>5
<1>7. Filled(new)
  BY <1>1, <1>2, <1>6 DEF Filled, GoodRegions
<1>8. \A a, n : Matching(new, a, n) = Matching(rs, a, n)
  BY <1>1, <1>6 DEF Matching, Holds
<1> QED
  BY <1>1, <1>4, <1>6, <1>7, <1>8 DEF new, f

\* The bounds of a region do not part a word.
Whole(r) == r.baseAddress % WordSize = 0 /\ r.size % WordSize = 0

\* Where no bound parts a word, each of its bytes is where the word is.
LEMMA WordMatches ==
  ASSUME NEW rs, Filled(rs), \A i \in DOMAIN rs : Whole(rs[i]),
         NEW address \in Address, address % WordSize = 0,
         NEW a \in address .. address + WordSize - 1
  PROVE  Matching(rs, a, ByteSize) = Matching(rs, address, WordSize)
<1>1. ASSUME NEW i \in DOMAIN rs
      PROVE  Holds(rs[i], a, ByteSize) <=> Holds(rs[i], address, WordSize)
  <2>1. rs[i] \in MemoryRegion
    BY LenProperties, ElementOfSeq DEF Filled
  <2>2. /\ rs[i].baseAddress \in Nat /\ rs[i].size \in Nat /\ address \in Nat /\ a \in Nat
        /\ rs[i].baseAddress % 4 = 0 /\ rs[i].size % 4 = 0 /\ address % 4 = 0
        /\ a >= address /\ a <= address + 3
    BY <2>1, AddressLimitAssumption DEF MemoryRegion, Address, Whole, WordSize
  <2> DEFINE b == rs[i].baseAddress
             s == rs[i].size
  <2>3. \A x, y, z, w \in Nat :
          x % 4 = 0 /\ y % 4 = 0 /\ z % 4 = 0 /\ w >= z /\ w <= z + 3 =>
            (w >= x /\ w + 1 <= x + y <=> z >= x /\ z + 4 <= x + y)
    OBVIOUS
  <2> HIDE DEF b, s
  <2>4. a >= b /\ a + 1 <= b + s <=> address >= b /\ address + 4 <= b + s
    BY <2>2, <2>3 DEF b, s
  <2> QED
    BY <2>4 DEF b, s, Holds, ByteSize, WordSize
<1> QED
  BY <1>1 DEF Matching

\* A word that is written is read back byte by byte, and nothing else changes.
LEMMA WrittenWord ==
  ASSUME NEW rs, Filled(rs), GoodRegions(rs), \A i \in DOMAIN rs : Whole(rs[i]),
         NEW address \in Address, address % WordSize = 0,
         NEW v \in [1 .. WordSize -> Byte], Matching(rs, address, WordSize) # {}
  PROVE  LET new == Overwrite(rs, findMatchingRegion(rs, address, WordSize), v)
         IN  \A a \in Address :
               IF a \in address .. address + WordSize - 1
               THEN Matching(rs, a, ByteSize) # {} /\ ByteOf(new, a) = v[a - address + 1]
               ELSE Matching(rs, a, ByteSize) # {} => ByteOf(new, a) = ByteOf(rs, a)
<1> DEFINE f     == Min(Matching(rs, address, WordSize))
           found == [region |-> f, address |-> address]
           new   == Overwrite(rs, found, v)
           first == RegionOffset(rs, found) + 1
           old   == rs[f].pData
           data  == [b \in 1 .. Len(old) |->
                       IF b \in first .. first + Len(v) - 1 THEN v[b - first + 1] ELSE old[b]]
<1>1. address \in Nat /\ address \in address .. address + WordSize - 1
  BY AddressLimitAssumption DEF Address, WordSize
<1>2. Matching(rs, address, ByteSize) = Matching(rs, address, WordSize)
  BY <1>1, WordMatches
<1>3. /\ f \in DOMAIN rs /\ rs[f] \in MemoryRegion
      /\ RegionOffset(rs, found) = address - rs[f].baseAddress
  BY <1>2, ByteAt
<1>4. findMatchingRegion(rs, address, WordSize) = found
  BY <1>3 DEF findMatchingRegion, Filled
<1>5. /\ Filled(new) /\ DOMAIN new = DOMAIN rs
      /\ \A i \in DOMAIN rs : new[i].baseAddress = rs[i].baseAddress /\ (i # f => new[i] = rs[i])
      /\ \A a : Matching(new, a, ByteSize) = Matching(rs, a, ByteSize)
  <2>1. WordSize \in Nat
    BY DEF WordSize
  <2> HIDE DEF new, f
  <2>2. found.region = f /\ found.address = address
    OBVIOUS
  <2> HIDE DEF found
  <2> QED
    BY <1>3, <2>1, <2>2, OverwriteShape DEF new
<1>6. new[f].pData = data
  <2>1. new = [rs EXCEPT ![f].pData = data]
    BY DEF Overwrite
  <2> HIDE DEF new, data, f
  <2> QED
    BY <1>3, <2>1 DEF MemoryRegion
<1>7. Len(v) = 4 /\ first = address - rs[f].baseAddress + 1
  <2>1. v \in Seq(Byte)
    BY SeqDef DEF WordSize
  <2> QED
    BY <1>3, <2>1, LenProperties DEF WordSize
<1> HIDE DEF f
<1>8. /\ rs[f].baseAddress \in Nat /\ Len(old) = rs[f].size /\ rs[f].size \in Nat
  BY <1>3, AddressLimitAssumption DEF MemoryRegion, Address, Filled
<1> HIDE DEF new, found, first
<1>9. ASSUME NEW a \in Address, Matching(rs, a, ByteSize) # {}
      PROVE  ByteOf(new, a) = IF a \in address .. address + WordSize - 1
                              THEN v[a - address + 1] ELSE ByteOf(rs, a)
  <2> DEFINE i == Min(Matching(rs, a, ByteSize))
  <2>0. a \in Nat
    BY AddressLimitAssumption DEF Address
  <2>1. /\ i \in DOMAIN rs
        /\ a - rs[i].baseAddress \in 0 .. rs[i].size - 1
        /\ ByteOf(rs, a) = rs[i].pData[a - rs[i].baseAddress + 1]
    BY <1>9, ByteAt
  <2>2. ByteOf(new, a) = new[i].pData[a - rs[i].baseAddress + 1]
    <3>1. Matching(new, a, ByteSize) = Matching(rs, a, ByteSize)
      BY <1>5
    <3>2. ByteOf(new, a) = new[i].pData[a - new[i].baseAddress + 1]
      BY <1>5, <1>9, <3>1, ByteAt
    <3> HIDE DEF i
    <3> QED
      BY <1>5, <2>1, <3>2
  <2>3. a \in address .. address + WordSize - 1 => i = f
    BY <1>9, WordMatches DEF f
  <2> HIDE DEF i
  <2>4. CASE i # f
    BY <1>5, <2>1, <2>2, <2>3, <2>4
  <2>5. CASE i = f
    <3> DEFINE b == a - rs[f].baseAddress + 1
    <3>1. b \in 1 .. Len(old)
      BY <1>8, <2>1, <2>5
    <3>2. ByteOf(new, a) = data[b]
      BY <1>6, <2>2, <2>5
    <3>3. b \in first .. first + Len(v) - 1 <=> a \in address .. address + WordSize - 1
      <4>1. /\ first = address - rs[f].baseAddress + 1 /\ rs[f].baseAddress \in Nat
            /\ address \in Nat
        BY <1>1, <1>7, <1>8
      <4>2. first + Len(v) - 1 = first + 3 /\ address + WordSize - 1 = address + 3
        BY <1>7, <4>1 DEF WordSize
      <4>3. b \in first .. first + 3 <=> a \in address .. address + 3
        <5>1. PICK x \in Nat : x = rs[f].baseAddress
          BY <4>1
        <5>2. b = a - x + 1 /\ first = address - x + 1
          BY <4>1, <5>1
        <5> HIDE DEF b
        <5> QED
          BY <2>0, <4>1, <5>2
      <4> QED
        BY <4>2, <4>3
    <3>4. b - first + 1 = a - address + 1
      BY <1>1, <1>7, <1>8, <2>0
    <3>5. ByteOf(rs, a) = old[b]
      BY <2>1, <2>5
    <3> HIDE DEF b, old
    <3>6. data[b] = IF b \in first .. first + Len(v) - 1 THEN v[b - first + 1] ELSE old[b]
      BY <3>1
    <3> HIDE DEF data
    <3> QED
      BY <3>2, <3>3, <3>4, <3>5, <3>6
  <2> QED
    BY <2>4, <2>5
<1>10. ASSUME NEW a \in Address
       PROVE  IF a \in address .. address + WordSize - 1
              THEN Matching(rs, a, ByteSize) # {} /\ ByteOf(new, a) = v[a - address + 1]
              ELSE Matching(rs, a, ByteSize) # {} => ByteOf(new, a) = ByteOf(rs, a)
  <2>1. a \in address .. address + WordSize - 1 => Matching(rs, a, ByteSize) # {}
    BY WordMatches
  <2> QED
    BY <1>9, <2>1
<1> QED
  BY <1>4, <1>10 DEF new

\* The distance from an address to another that wrapped.
LEMMA WrappedOffset ==
  ASSUME NEW d \in Nat, NEW q \in Nat, d >= q, d - q < AddressLimit, q < AddressLimit,
         d < 2 * AddressLimit
  PROVE  ((d % AddressLimit) - q) % AddressLimit = d - q
<1> DEFINE L == AddressLimit
<1>1. L \in Nat /\ L > 0
  BY AddressLimitAssumption
<1>2. PICK e \in Int : e = d - q
  OBVIOUS
<1>3. CASE d < L
  <2>1. d % L = d
    BY <1>3, Wrapping
  <2>2. e % L = e
    <3>1. e >= 0 /\ e < L
      BY <1>2
    <3> QED
      BY <3>1, Wrapping
  <2> QED
    BY <1>2, <2>1, <2>2
<1>4. CASE d >= L
  <2>1. d % L = d - L
    BY <1>4, Wrapping
  <2>2. PICK x \in Int : x = d - L - q
    BY <1>1
  <2> HIDE DEF L
  <2>3. x < 0 /\ x >= 0 - L /\ x + L = d - q
    BY <1>1, <1>4, <2>2 DEF L
  <2>4. x % L = x + L
    BY <2>3, Wrapping DEF L
  <2> QED
    BY <2>1, <2>2, <2>3, <2>4 DEF L
<1> QED
  BY <1>1, <1>3, <1>4

(***************************************************************************)
(* Where a region is and what it redirects to is never changed, and every  *)
(* address that is let through lies in data.                               *)
(***************************************************************************)

SamePlace(r, s) ==
  /\ s.baseAddress = r.baseAddress /\ s.size = r.size
  /\ s.isAlias = r.isAlias /\ s.redirectAddress = r.redirectAddress
  /\ s.pRedirect = r.pRedirect

\* new has the regions of old, where they were, and maybe some behind them.
KeepsPlaces(old, new) ==
  /\ DOMAIN old \subseteq DOMAIN new
  /\ \A i \in DOMAIN old : SamePlace(old[i], new[i])

\* It has them and more, but no alias that is new.
KeepsAliases(old, new) ==
  /\ KeepsPlaces(old, new)
  /\ \A i \in DOMAIN new \ DOMAIN old : ~new[i].isAlias

\* Regions behind the others never change what an address means.
LEMMA SameFinds ==
  ASSUME NEW old \in Seq(MemoryRegion), NEW new \in Seq(MemoryRegion), KeepsPlaces(old, new),
         NEW address, NEW size, Matching(old, address, size) # {}
  PROVE  findMatchingRegion(new, address, size) = findMatchingRegion(old, address, size)
<1> DEFINE S == Matching(old, address, size)
           T == Matching(new, address, size)
           m == Min(S)
           k == Min(T)
<1>1. \A i \in DOMAIN old : Holds(new[i], address, size) <=> Holds(old[i], address, size)
  BY DEF KeepsPlaces, SamePlace, Holds
<1>2. S \subseteq T /\ \A i \in DOMAIN old : i \in T => i \in S
  BY <1>1 DEF Matching, KeepsPlaces
<1>3. PICK n, p \in Nat : DOMAIN old = 1 .. n /\ DOMAIN new = 1 .. p
  BY LenProperties
<1>4. S \in SUBSET Nat /\ T \in SUBSET Nat /\ S \subseteq 1 .. n
  BY <1>3 DEF Matching
<1>5. m \in S /\ \A x \in S : m <= x
  BY <1>4, MinIsLeast
<1>6. k \in T /\ \A x \in T : k <= x
  BY <1>2, <1>4, MinIsLeast
<1> HIDE DEF m, k, S, T
<1>7. k = m
  <2>1. k <= m /\ k \in Nat /\ k >= 1 /\ m \in 1 .. n
    <3>1. k >= 1
      BY <1>3, <1>6 DEF T, Matching
    <3> QED
      BY <1>2, <1>4, <1>5, <1>6, <3>1
  <2>2. k \in 1 .. n
    BY <2>1
  <2>3. m <= k
    BY <1>2, <1>3, <1>5, <1>6, <2>2
  <2> QED
    BY <2>1, <2>3
<1>8. m \in DOMAIN old /\ SamePlace(old[m], new[m])
  BY <1>3, <1>4, <1>5 DEF KeepsPlaces
<1> QED
  BY <1>7, <1>8 DEF findMatchingRegion, SamePlace, m, k, S, T

\* The regions of one list are in the next, and its regions in a third.
LEMMA AliasesKept ==
  ASSUME NEW rs, NEW next, NEW last, KeepsAliases(rs, next), KeepsAliases(next, last)
  PROVE  KeepsAliases(rs, last)
BY DEF KeepsAliases, KeepsPlaces, SamePlace

\* A list whose new regions are sound, and whose old ones have kept their data.
LEMMA StaysSound ==
  ASSUME NEW old, GoodRegions(old), Sound(old), NEW new, KeepsPlaces(old, new),
         \A i \in DOMAIN new : Equipped(new[i]),
         \A i \in DOMAIN new \ DOMAIN old : Within(new, i)
  PROVE  Sound(new)
<1>1. ASSUME NEW i \in DOMAIN old, old[i].isAlias
      PROVE  old[i].pRedirect \in DOMAIN old
  BY <1>1, GoodElement DEF GoodRegions, Redirects
<1>2. ASSUME NEW i \in DOMAIN old
      PROVE  Within(new, i)
  BY <1>1 DEF Sound, Within, KeepsPlaces, SamePlace
<1> QED
  BY <1>2 DEF Sound

\* An address that is let through: its offset in the region it was found in.
LEMMA FoundInData ==
  ASSUME NEW rs, GoodRegions(rs), Sound(rs), NEW address \in Address, NEW size \in Nat,
         Matching(rs, address, size) # {}
  PROVE  LET found == findMatchingRegion(rs, address, size)
         IN  /\ RegionOffset(rs, found) \in Nat
             /\ RegionOffset(rs, found) + size <= rs[found.region].size
             /\ PointsIntoData(rs, found, size)
<1> DEFINE S == Matching(rs, address, size)
           i == Min(S)
           found == findMatchingRegion(rs, address, size)
<1>1. DOMAIN rs = 1 .. Len(rs) /\ Len(rs) \in Nat
  BY GoodElement
<1>2. S \in SUBSET Nat
  BY <1>1 DEF Matching
<1>3. i \in DOMAIN rs /\ Holds(rs[i], address, size)
  BY <1>2, MinIsLeast DEF Matching
<1>4. found = IF rs[i].isAlias
              THEN [region |-> rs[i].pRedirect,
                    address |-> ((address - rs[i].baseAddress) + rs[i].redirectAddress) % AddressLimit]
              ELSE [region |-> i, address |-> address]
  BY DEF findMatchingRegion
<1> HIDE DEF i, found
<1>5. /\ AddressLimit \in Nat /\ AddressLimit > 0
      /\ \A x \in Address : x \in Nat /\ x < AddressLimit
  BY AddressLimitAssumption DEF Address
<1>6. \A j \in DOMAIN rs : rs[j] \in MemoryRegion
  BY GoodElement DEF GoodRegion
<1>7. PICK f, o : f = found.region /\ o = RegionOffset(rs, found)
  OBVIOUS
<1>8. /\ f \in DOMAIN rs /\ ~rs[f].isAlias
      /\ o \in Nat /\ o + size <= rs[f].size
  <2>1. PICK b, s, a : b = rs[i].baseAddress /\ s = rs[i].size /\ a = address
    OBVIOUS
  <2>2. /\ b \in Nat /\ b < AddressLimit /\ s \in Nat /\ s < AddressLimit
        /\ a \in Nat /\ a < AddressLimit /\ a >= b /\ a + size <= b + s
    BY <1>3, <1>5, <1>6, <2>1 DEF MemoryRegion, Holds
  <2>3. CASE ~rs[i].isAlias
    <3>1. f = i /\ o = (a - b) % AddressLimit
      BY <1>4, <1>7, <2>1, <2>3 DEF RegionOffset
    <3>2. a - b \in Int /\ a - b >= 0 /\ a - b < AddressLimit /\ a - b + size <= s
      BY <2>2, AddressLimitAssumption
    <3>3. o = a - b
      BY <3>1, <3>2, Wrapping
    <3> QED
      BY <1>3, <2>1, <2>2, <2>3, <3>1, <3>2, <3>3
  <2>4. CASE rs[i].isAlias
    <3>1. f = rs[i].pRedirect /\ f \in DOMAIN rs /\ ~rs[f].isAlias
      <4>1. rs[i].pRedirect \in 1 .. i - 1 /\ ~rs[rs[i].pRedirect].isAlias
        BY <1>3, <2>4 DEF GoodRegions, Redirects
      <4> QED
        BY <1>1, <1>3, <1>4, <1>7, <2>4, <4>1
    <3>2. PICK t, q, z : t = rs[i].redirectAddress /\ q = rs[f].baseAddress /\ z = rs[f].size
      OBVIOUS
    <3>3. /\ t \in Nat /\ t < AddressLimit /\ q \in Nat /\ q < AddressLimit
          /\ z \in Nat /\ z < AddressLimit /\ t >= q /\ t + s <= q + z
      BY <1>3, <1>5, <1>6, <2>1, <2>4, <3>1, <3>2 DEF MemoryRegion, Sound, Within
    <3>4. PICK d \in Nat : d = (a - b) + t
      BY <2>2, <3>3
    <3>5. o = ((d % AddressLimit) - q) % AddressLimit
      BY <1>4, <1>7, <2>1, <2>4, <3>1, <3>2, <3>4 DEF RegionOffset
    <3>6. d >= q /\ d - q + size <= z /\ d < 2 * AddressLimit
      BY <1>5, <2>2, <3>3, <3>4
    <3>7. o = d - q
      BY <1>5, <3>3, <3>5, <3>6, WrappedOffset
    <3> QED
      BY <3>1, <3>2, <3>3, <3>4, <3>6, <3>7
  <2> QED
    BY <2>3, <2>4
<1>9. Len(rs[f].pData) = rs[f].size
  BY <1>8 DEF Sound, Equipped
<1> QED
  BY <1>7, <1>8, <1>9 DEF PointsIntoData, found

\* A chunk is stored at an address.
LEMMA ChunkAddresses ==
  ASSUME NEW baseAddress \in Address, NEW chunk, chunk.at \in Nat
  PROVE  ChunkAddress(baseAddress, chunk) \in Address
<1>1. PICK sum \in Int : sum = baseAddress + chunk.at
  BY AddressLimitAssumption DEF Address
<1>2. sum % AddressLimit \in 0 .. AddressLimit - 1
  BY AddressLimitAssumption
<1> QED
  BY <1>1, <1>2 DEF ChunkAddress, Address

(***************************************************************************)
(* What each operation does to places and soundness.                       *)
(***************************************************************************)

\* A region that is added.
LEMMA AppendedPlaces ==
  ASSUME NEW rs, GoodRegions(rs), NEW r
  PROVE  /\ DOMAIN Append(rs, r) = 1 .. Len(rs) + 1
         /\ KeepsPlaces(rs, Append(rs, r))
         /\ \A i \in DOMAIN rs : Append(rs, r)[i] = rs[i]
         /\ Append(rs, r)[Len(rs) + 1] = r
<1>1. Len(rs) \in Nat /\ DOMAIN rs = 1 .. Len(rs) /\ rs \in Seq(MemoryRegion)
  BY GoodElement DEF GoodRegions
<1>2. /\ DOMAIN Append(rs, r) = 1 .. Len(rs) + 1
      /\ \A i \in 1 .. Len(rs) : Append(rs, r)[i] = rs[i]
      /\ Append(rs, r)[Len(rs) + 1] = r
  BY <1>1
<1>3. DOMAIN rs \subseteq DOMAIN Append(rs, r)
  BY <1>1, <1>2
<1> QED
  BY <1>1, <1>2, <1>3 DEF KeepsPlaces, SamePlace

LEMMA AppendedSound ==
  ASSUME NEW rs, GoodRegions(rs), Sound(rs), NEW r, Equipped(r),
         r.isAlias =>
           /\ r.pRedirect \in DOMAIN rs
           /\ r.redirectAddress >= rs[r.pRedirect].baseAddress
           /\ r.redirectAddress + r.size
                <= rs[r.pRedirect].baseAddress + rs[r.pRedirect].size
  PROVE  Sound(Append(rs, r))
<1> DEFINE new == Append(rs, r)
           n   == Len(rs)
<1>1. n \in Nat /\ DOMAIN rs = 1 .. n
  BY GoodElement
<1>2. /\ DOMAIN new = 1 .. n + 1 /\ KeepsPlaces(rs, new)
      /\ \A i \in DOMAIN rs : new[i] = rs[i]
      /\ new[n + 1] = r
  BY AppendedPlaces
<1> HIDE DEF new, n
<1>3. \A i \in DOMAIN new : i \in DOMAIN rs \/ i = n + 1
  BY <1>1, <1>2
<1>4. \A i \in DOMAIN new : Equipped(new[i])
  BY <1>2, <1>3 DEF Sound
<1>5. Within(new, n + 1)
  BY <1>2 DEF Within
<1>6. Sound(new)
  BY <1>2, <1>3, <1>4, <1>5, StaysSound
<1> QED
  BY <1>6 DEF new

\* Creating a region.
LEMMA CreatePlaces ==
  ASSUME NEW rs, GoodRegions(rs), NEW baseAddress \in Address, NEW size \in Address,
         NEW mallocOk \in BOOLEAN
  PROVE  LET result == CreateRegion(rs, baseAddress, size, mallocOk)
         IN  /\ KeepsAliases(rs, result.regions)
             /\ DOMAIN result.regions = 1 .. Len(rs) + (IF mallocOk THEN 1 ELSE 0)
             /\ Sound(rs) => Sound(result.regions)
<1> DEFINE new == NewRegion(baseAddress, size)
<1>1. KeepsAliases(rs, rs) /\ Len(rs) \in Nat /\ DOMAIN rs = 1 .. Len(rs)
  BY GoodElement DEF KeepsAliases, KeepsPlaces, SamePlace
<1>2. size \in Nat
  BY AddressLimitAssumption DEF Address
<1>3. /\ ~new.isAlias /\ ~new.isReadOnly /\ new.size = size
      /\ new.pData = [i \in 1 .. size |-> 0]
  BY DEF NewRegion
<1> HIDE DEF new
<1>4. Len(new.pData) = size
  BY <1>2, <1>3
<1>5. Equipped(new)
  BY <1>3, <1>4 DEF Equipped
<1>6. Sound(rs) => Sound(Append(rs, new))
  BY <1>3, <1>5, AppendedSound
<1>7. DOMAIN Append(rs, new) = 1 .. Len(rs) + 1 /\ KeepsAliases(rs, Append(rs, new))
  <2>1. /\ DOMAIN Append(rs, new) = 1 .. Len(rs) + 1 /\ KeepsPlaces(rs, Append(rs, new))
        /\ Append(rs, new)[Len(rs) + 1] = new
    BY AppendedPlaces
  <2>2. \A i \in 1 .. Len(rs) + 1 : i \in 1 .. Len(rs) \/ i = Len(rs) + 1
    BY <1>1
  <2> QED
    BY <1>1, <1>3, <2>1, <2>2 DEF KeepsAliases
<1> QED
  BY <1>1, <1>6, <1>7 DEF CreateRegion, Returns, Throws, new

\* An alias of an address that a region holds, and no alias, lies within that region.
LEMMA AliasReaches ==
  ASSUME NEW rs, GoodRegions(rs), NEW aliasAddress \in Address,
         NEW redirectAddress \in Address, NEW size \in Address,
         Matching(rs, redirectAddress, 1) # {},
         ~rs[Min(Matching(rs, redirectAddress, 1))].isAlias
  PROVE  LET alias == NewAlias(rs, aliasAddress, redirectAddress, size)
         IN  /\ alias.isAlias /\ alias.pRedirect \in DOMAIN rs
             /\ alias.redirectAddress >= rs[alias.pRedirect].baseAddress
             /\ alias.redirectAddress + alias.size
                  <= rs[alias.pRedirect].baseAddress + rs[alias.pRedirect].size
<1> DEFINE S     == Matching(rs, redirectAddress, 1)
           i     == Min(S)
           p     == findMatchingRegion(rs, redirectAddress, 1).region
           alias == NewAlias(rs, aliasAddress, redirectAddress, size)
<1>1. S \in SUBSET Nat
  BY GoodElement DEF Matching
<1>2. i \in S
  BY <1>1, MinIsLeast
<1>3. p = i
  BY DEF findMatchingRegion
<1> HIDE DEF i, p
<1>4. p \in DOMAIN rs /\ Holds(rs[p], redirectAddress, 1) /\ rs[p] \in MemoryRegion
  BY <1>2, <1>3, GoodElement DEF Matching, GoodRegion
<1>5. PICK b, s, m : b = rs[p].baseAddress /\ s = rs[p].size
                     /\ m = (rs[p].size - (redirectAddress - rs[p].baseAddress)) % AddressLimit
  OBVIOUS
<1>6. /\ b \in Nat /\ s \in Nat /\ s < AddressLimit /\ redirectAddress \in Nat /\ size \in Nat
      /\ redirectAddress >= b /\ redirectAddress + 1 <= b + s
  BY <1>4, <1>5, AddressLimitAssumption DEF Holds, MemoryRegion, Address
<1>7. m = s - (redirectAddress - b)
  <2>1. PICK x \in Int : x = s - (redirectAddress - b)
    BY <1>6
  <2>2. x >= 0 /\ x < AddressLimit
    BY <1>6, <2>1, AddressLimitAssumption
  <2> QED
    BY <1>5, <2>1, <2>2, Wrapping
<1>8. /\ alias.isAlias /\ alias.pRedirect = p /\ alias.redirectAddress = redirectAddress
      /\ alias.size = IF size > m THEN m ELSE size
  BY <1>5 DEF NewAlias, p
<1> HIDE DEF alias
<1>9. alias.size \in Nat /\ alias.size <= m
  BY <1>6, <1>7, <1>8
<1>10. redirectAddress + alias.size <= b + s
  BY <1>6, <1>7, <1>9
<1> QED
  BY <1>4, <1>5, <1>6, <1>8, <1>10 DEF alias

\* Creating an alias.
LEMMA AliasPlaces ==
  ASSUME NEW rs, GoodRegions(rs), NEW aliasAddress \in Address,
         NEW redirectAddress \in Address, NEW size \in Address, NEW mallocOk \in BOOLEAN
  PROVE  LET result == CreateAlias(rs, aliasAddress, redirectAddress, size, mallocOk)
             direct == ~rs[Min(Matching(rs, redirectAddress, 1))].isAlias
         IN  /\ KeepsPlaces(rs, result.regions)
             /\ IF result.exception = noException
                THEN /\ Matching(rs, redirectAddress, 1) # {}
                     /\ result.regions
                          = Append(rs, NewAlias(rs, aliasAddress, redirectAddress, size))
                ELSE result.regions = rs
             /\ Sound(rs) /\ direct => Sound(result.regions)
<1> DEFINE S     == Matching(rs, redirectAddress, 1)
           i     == Min(S)
           alias == NewAlias(rs, aliasAddress, redirectAddress, size)
           result == CreateAlias(rs, aliasAddress, redirectAddress, size, mallocOk)
<1>1. KeepsPlaces(rs, rs)
  BY DEF KeepsPlaces, SamePlace
<1>2. IF mallocOk /\ S # {} THEN result = [regions |-> Append(rs, alias), exception |-> noException]
      ELSE result.regions = rs /\ result.exception # noException
  BY DEF CreateAlias, Returns, Throws, noException, outOfMemoryException, busErrorException
<1>3. ASSUME S # {}, Sound(rs), ~rs[i].isAlias
      PROVE  Sound(Append(rs, alias))
  <2>1. /\ alias.isAlias /\ alias.pRedirect \in DOMAIN rs
        /\ alias.redirectAddress >= rs[alias.pRedirect].baseAddress
        /\ alias.redirectAddress + alias.size
             <= rs[alias.pRedirect].baseAddress + rs[alias.pRedirect].size
    BY <1>3, AliasReaches
  <2> HIDE DEF alias
  <2> QED
    BY <1>3, <2>1, AppendedSound DEF Equipped
<1> HIDE DEF alias, i
<1>4. KeepsPlaces(rs, Append(rs, alias))
  BY AppendedPlaces
<1> HIDE DEF result
<1>5. CASE mallocOk /\ S # {}
  <2>1. result.regions = Append(rs, alias) /\ result.exception = noException
    BY <1>2, <1>5
  <2> QED
    BY <1>3, <1>4, <1>5, <2>1 DEF alias, i, result
<1>6. CASE ~(mallocOk /\ S # {})
  <2>1. result.regions = rs /\ result.exception # noException
    BY <1>2, <1>6
  <2> QED
    BY <1>1, <2>1 DEF result
<1> QED
  BY <1>5, <1>6

\* A list one region of which has changed, but not its place.
LEMMA ReplacedPlaces ==
  ASSUME NEW rs, GoodRegions(rs), NEW f \in DOMAIN rs, NEW r, SamePlace(rs[f], r)
  PROVE  LET new == [rs EXCEPT ![f] = r]
         IN  /\ KeepsPlaces(rs, new)
             /\ DOMAIN new = DOMAIN rs
             /\ Sound(rs) /\ Equipped(r) => Sound(new)
<1> DEFINE new == [rs EXCEPT ![f] = r]
<1>1. DOMAIN new = DOMAIN rs /\ \A i \in DOMAIN rs : new[i] = IF i = f THEN r ELSE rs[i]
  BY DEF GoodRegions
<1> HIDE DEF new
<1>2. KeepsPlaces(rs, new)
  BY <1>1 DEF KeepsPlaces, SamePlace
<1>3. ASSUME Sound(rs), Equipped(r)
      PROVE  Sound(new)
  <2>1. \A i \in DOMAIN new : Equipped(new[i])
    BY <1>1, <1>3 DEF Sound
  <2> QED
    BY <1>1, <1>2, <1>3, <2>1, StaysSound
<1> QED
  BY <1>1, <1>2, <1>3 DEF new

\* Making a region read-only.
LEMMA LockPlaces ==
  ASSUME NEW rs, GoodRegions(rs), NEW baseAddress \in Address, NEW mallocOk \in BOOLEAN
  PROVE  LET result == MakeRegionReadOnly(rs, baseAddress, mallocOk)
         IN  /\ KeepsPlaces(rs, result.regions)
             /\ DOMAIN result.regions = DOMAIN rs
             /\ Sound(rs) /\ mallocOk => Sound(result.regions)
<1>1. CASE Matching(rs, baseAddress, 1) = {}
  BY <1>1 DEF MakeRegionReadOnly, Throws, KeepsPlaces, SamePlace
<1>2. CASE Matching(rs, baseAddress, 1) # {}
  <2> DEFINE i      == findMatchingRegion(rs, baseAddress, 1).region
             counts == ZeroReadCounts(rs[i].size)
             r1     == [rs[i] EXCEPT !.isReadOnly = TRUE]
             r2     == [rs[i] EXCEPT !.isReadOnly = TRUE, !.pReadCounts = counts]
             result == MakeRegionReadOnly(rs, baseAddress, mallocOk)
  <2>1. i \in DOMAIN rs /\ rs[i] \in MemoryRegion
    BY <1>2, FindGood DEF GoodRegion
  <2>2. result.regions = IF mallocOk THEN [rs EXCEPT ![i] = r2] ELSE [rs EXCEPT ![i] = r1]
    <3>1. [[rs EXCEPT ![i].isReadOnly = TRUE] EXCEPT ![i].pReadCounts = counts]
            = [rs EXCEPT ![i] = r2]
      BY <2>1
    <3>2. [rs EXCEPT ![i].isReadOnly = TRUE] = [rs EXCEPT ![i] = r1]
      OBVIOUS
    <3> HIDE DEF i, counts, r1, r2
    <3> QED
      BY <1>2, <3>1, <3>2 DEF MakeRegionReadOnly, Returns, Throws, i, counts
  <2>3. Len(counts) = rs[i].size \div HalfWordSize
    <3>1. rs[i].size \div HalfWordSize \in Nat
      BY <2>1, AddressLimitAssumption DEF MemoryRegion, Address, HalfWordSize
    <3> QED
      BY <3>1 DEF ZeroReadCounts
  <2> HIDE DEF i, counts, result
  <2>4. SamePlace(rs[i], r1) /\ SamePlace(rs[i], r2)
    BY <2>1 DEF SamePlace, MemoryRegion
  <2>5. Sound(rs) => Equipped(r2)
    <3>1. /\ r2.isAlias = rs[i].isAlias /\ r2.pData = rs[i].pData /\ r2.size = rs[i].size
          /\ r2.pReadCounts = counts
      BY <2>1 DEF MemoryRegion
    <3> HIDE DEF r2
    <3> QED
      BY <2>1, <2>3, <3>1 DEF Sound, Equipped
  <2> HIDE DEF r1, r2
  <2>6. /\ KeepsPlaces(rs, [rs EXCEPT ![i] = r1]) /\ DOMAIN [rs EXCEPT ![i] = r1] = DOMAIN rs
        /\ KeepsPlaces(rs, [rs EXCEPT ![i] = r2]) /\ DOMAIN [rs EXCEPT ![i] = r2] = DOMAIN rs
        /\ Sound(rs) => Sound([rs EXCEPT ![i] = r2])
    BY <2>1, <2>4, <2>5, ReplacedPlaces
  <2>7. /\ KeepsPlaces(rs, result.regions)
        /\ DOMAIN result.regions = DOMAIN rs
        /\ Sound(rs) /\ mallocOk => Sound(result.regions)
    BY <2>2, <2>6
  <2> QED
    BY <2>7 DEF result
<1> QED
  BY <1>1, <1>2

\* Writing bytes.
LEMMA OverwritePlaces ==
  ASSUME NEW rs, GoodRegions(rs), NEW found, found.region \in DOMAIN rs, NEW bytes
  PROVE  /\ KeepsPlaces(rs, Overwrite(rs, found, bytes))
         /\ DOMAIN Overwrite(rs, found, bytes) = DOMAIN rs
         /\ Sound(rs) => Sound(Overwrite(rs, found, bytes))
<1> DEFINE f   == found.region
           new == Overwrite(rs, found, bytes)
           r   == [rs[f] EXCEPT !.pData = new[f].pData]
<1>1. /\ Len(new[f].pData) = Len(rs[f].pData)
      /\ new = [rs EXCEPT ![f].pData = new[f].pData]
  BY OverwriteStores DEF GoodRegions
<1>2. rs[f] \in MemoryRegion
  BY GoodElement DEF GoodRegion
<1> HIDE DEF new
<1>3. new = [rs EXCEPT ![f] = r]
  BY <1>1
<1>4. /\ SamePlace(rs[f], r) /\ r.pData = new[f].pData
      /\ r.isReadOnly = rs[f].isReadOnly /\ r.pReadCounts = rs[f].pReadCounts
  BY <1>2 DEF SamePlace, MemoryRegion
<1> HIDE DEF r
<1>5. Sound(rs) => Equipped(r)
  BY <1>1, <1>4 DEF Sound, Equipped, SamePlace
<1>6. LET all == [rs EXCEPT ![f] = r]
      IN  /\ KeepsPlaces(rs, all) /\ DOMAIN all = DOMAIN rs
          /\ Sound(rs) /\ Equipped(r) => Sound(all)
  BY <1>4, ReplacedPlaces
<1>7. KeepsPlaces(rs, new) /\ DOMAIN new = DOMAIN rs /\ (Sound(rs) => Sound(new))
  BY <1>3, <1>5, <1>6
<1> QED
  BY <1>7 DEF new

\* Loading an image.
LEMMA LoadPlaces ==
  ASSUME NEW rs, GoodRegions(rs), NEW baseAddress \in Address, NEW image \in Seq(Byte)
  PROVE  LET result == LoadFromFlashImage(rs, baseAddress, image)
         IN  /\ KeepsPlaces(rs, result.regions)
             /\ DOMAIN result.regions = DOMAIN rs
             /\ Sound(rs) => Sound(result.regions)
             /\ Sound(rs) => ~LoadGoesWild(rs, baseAddress, image)
<1> DEFINE ks     == Stored(rs, baseAddress, Len(image))
           new    == StoreChunks(rs, baseAddress, image, ks)
           result == LoadFromFlashImage(rs, baseAddress, image)
<1>1. result.regions = new
  BY DEF LoadFromFlashImage, Returns, Throws
<1>2. /\ DOMAIN new = DOMAIN rs
      /\ \A i \in DOMAIN rs :
           /\ new[i] = [rs[i] EXCEPT !.pData = new[i].pData]
           /\ Len(new[i].pData) = Len(rs[i].pData)
  <2> DEFINE Into(i, b) == StoresInto(rs, baseAddress, Len(image), ks, i, b)
             Data(i) == [b \in 1 .. Len(rs[i].pData) |->
                           IF Into(i, b) = {} THEN rs[i].pData[b]
                           ELSE StoredByte(rs, baseAddress, image, Max(Into(i, b)), b)]
  <2>1. new = [i \in DOMAIN rs |-> [rs[i] EXCEPT !.pData = Data(i)]]
    BY DEF StoreChunks
  <2>2. ASSUME NEW i \in DOMAIN rs
        PROVE  Len(Data(i)) = Len(rs[i].pData)
    <3>1. Len(rs[i].pData) \in Nat
      BY GoodElement, LenProperties DEF GoodRegion, MemoryRegion
    <3>2. DOMAIN Data(i) = 1 .. Len(rs[i].pData)
      OBVIOUS
    <3> HIDE DEF Data
    <3> QED
      BY <3>1, <3>2
  <2> HIDE DEF Data, ks
  <2>3. ASSUME NEW i \in DOMAIN rs
        PROVE  new[i] = [rs[i] EXCEPT !.pData = Data(i)] /\ new[i].pData = Data(i)
    <3>1. rs[i] \in MemoryRegion
      BY GoodElement DEF GoodRegion
    <3>2. new[i] = [rs[i] EXCEPT !.pData = Data(i)]
      BY <2>1
    <3> QED
      BY <3>1, <3>2 DEF MemoryRegion
  <2> QED
    BY <2>1, <2>2, <2>3
<1> HIDE DEF new, result
<1>3. ASSUME NEW i \in DOMAIN rs
      PROVE  /\ SamePlace(rs[i], new[i])
             /\ Sound(rs) => Equipped(new[i])
  <2>1. rs[i] \in MemoryRegion
    BY GoodElement DEF GoodRegion
  <2>2. /\ SamePlace(rs[i], new[i]) /\ Len(new[i].pData) = Len(rs[i].pData)
        /\ new[i].isReadOnly = rs[i].isReadOnly /\ new[i].pReadCounts = rs[i].pReadCounts
    BY <1>2, <2>1 DEF SamePlace, MemoryRegion
  <2> QED
    BY <2>2 DEF Sound, Equipped, SamePlace
<1>4. KeepsPlaces(rs, new)
  BY <1>2, <1>3 DEF KeepsPlaces
<1>5. Sound(rs) => Sound(new)
  BY <1>2, <1>3, <1>4, StaysSound
<1>6. ASSUME Sound(rs)
      PROVE  ~LoadGoesWild(rs, baseAddress, image)
  <2>1. Len(image) \in Nat
    BY LenProperties
  <2>2. SUFFICES ASSUME NEW k \in ks
                 PROVE  PointsIntoData(rs, ChunkTarget(rs, baseAddress, Chunks(Len(image))[k]),
                                       Chunks(Len(image))[k].size)
    BY DEF LoadGoesWild
  <2> DEFINE chunk == Chunks(Len(image))[k]
  <2>3. k \in DOMAIN Chunks(Len(image))
    BY <2>2 DEF Stored
  <2>4. chunk.at \in Nat /\ chunk.size \in {1, 4} /\ k \in 1 .. Len(image)
    BY <2>1, <2>3, ChunkBounds
  <2>5. k \in 1 .. k
    BY <2>1, <2>4
  <2>6. Matching(rs, ChunkAddress(baseAddress, chunk), chunk.size) # {}
    BY <2>2, <2>5 DEF Stored
  <2> HIDE DEF chunk
  <2>7. ChunkAddress(baseAddress, chunk) \in Address
    BY <2>4, ChunkAddresses
  <2>8. chunk.size \in Nat
    BY <2>4
  <2> QED
    BY <1>6, <2>6, <2>7, <2>8, FoundInData DEF ChunkTarget, chunk
<1> QED
  BY <1>1, <1>2, <1>4, <1>5, <1>6 DEF result

\* The last region taken off again.
LEMMA FreedPlaces ==
  ASSUME NEW rs, GoodRegions(rs), NEW n \in Nat, Len(rs) = n + 1
  PROVE  /\ DOMAIN freeLastRegion(rs) = 1 .. n
         /\ \A i \in 1 .. n : freeLastRegion(rs)[i] = rs[i]
         /\ Sound(rs) => Sound(freeLastRegion(rs))
<1> DEFINE new == freeLastRegion(rs)
<1>1. DOMAIN rs = 1 .. n + 1 /\ rs \in Seq(MemoryRegion)
  BY GoodElement DEF GoodRegions
<1>2. DOMAIN new = 1 .. n /\ \A i \in 1 .. n : new[i] = rs[i]
  BY <1>1 DEF freeLastRegion, Front
<1> HIDE DEF new
<1>3. ASSUME Sound(rs), NEW i \in 1 .. n
      PROVE  Equipped(new[i]) /\ Within(new, i)
  <2>1. rs[i].isAlias => rs[i].pRedirect \in 1 .. n
    BY <1>1 DEF GoodRegions, Redirects
  <2> QED
    BY <1>1, <1>2, <1>3, <2>1 DEF Sound, Within
<1> QED
  BY <1>2, <1>3 DEF Sound, new

\* A flash image always fits into the region that was created for it.
LEMMA FlashFits ==
  ASSUME NEW rs, GoodRegions(rs), NEW image \in Seq(Byte), Len(image) \in Address
  PROVE  LoadFromFlashImage(CreateRegion(rs, FLASH_BASE_ADDRESS, Len(image), TRUE).regions,
                            FLASH_BASE_ADDRESS, image).exception = noException
<1> DEFINE new == NewRegion(FLASH_BASE_ADDRESS, Len(image))
           all == Append(rs, new)
<1>1. CreateRegion(rs, FLASH_BASE_ADDRESS, Len(image), TRUE).regions = all
  BY DEF CreateRegion, Returns
<1>2. PICK n : n = Len(image)
  OBVIOUS
<1>3. n \in Nat /\ n < AddressLimit
  BY <1>2, LenProperties, AddressLimitAssumption DEF Address
<1>4. new.baseAddress = 0 /\ new.size = n
  BY <1>2 DEF NewRegion, FLASH_BASE_ADDRESS
<1>5. Len(rs) \in Nat /\ DOMAIN all = 1 .. Len(rs) + 1 /\ all[Len(rs) + 1] = new
  BY GoodElement, AppendedPlaces
<1> HIDE DEF new, all
<1>6. ASSUME NEW k \in DOMAIN Chunks(n)
      PROVE  Matching(all, ChunkAddress(FLASH_BASE_ADDRESS, Chunks(n)[k]), Chunks(n)[k].size) # {}
  <2>1. PICK x, s : x = Chunks(n)[k].at /\ s = Chunks(n)[k].size
    OBVIOUS
  <2>2. x \in Nat /\ s \in Nat /\ s >= 1 /\ x + s <= n
    BY <1>3, <2>1, ChunkBounds
  <2>3. ChunkAddress(FLASH_BASE_ADDRESS, Chunks(n)[k]) = x
    <3>1. x >= 0 /\ x < AddressLimit
      BY <1>3, <2>2, AddressLimitAssumption
    <3>2. x % AddressLimit = x /\ 0 + x = x
      BY <2>2, <3>1, Wrapping
    <3> QED
      BY <2>1, <3>2 DEF ChunkAddress, FLASH_BASE_ADDRESS
  <2>4. Holds(new, x, s)
    BY <1>3, <1>4, <2>2 DEF Holds
  <2>5. Len(rs) + 1 \in DOMAIN all
    BY <1>5
  <2> QED
    BY <1>5, <2>1, <2>3, <2>4, <2>5 DEF Matching
<1>7. Stored(all, FLASH_BASE_ADDRESS, n) = DOMAIN Chunks(n)
  <2>1. \A k \in DOMAIN Chunks(n) : \A j \in 1 .. k : j \in DOMAIN Chunks(n)
    <3>1. PICK m \in Int : DOMAIN Chunks(n) = 1 .. m
      <4>1. WordCount(n) + (n - WordSize * WordCount(n)) \in Int
        BY <1>3 DEF WordCount, WordSize
      <4> QED
        BY <4>1 DEF Chunks
    <3> QED
      BY <3>1
  <2> QED
    BY <1>6, <2>1 DEF Stored
<1> QED
  BY <1>1, <1>2, <1>7 DEF LoadFromFlashImage, Returns

\* Creating the regions of a flash image: all of them or none.
LEMMA FlashPlaces ==
  ASSUME NEW rs, GoodRegions(rs), NEW image \in [bytes : Seq(Byte), stack : Address],
         Len(image.bytes) \in Address,
         NEW flashOk \in BOOLEAN, NEW countsOk \in BOOLEAN, NEW ramOk \in BOOLEAN
  PROVE  LET result  == CreateRegionsFromFlashImage(rs, image, flashOk, countsOk, ramOk)
             created == CreateRegion(rs, FLASH_BASE_ADDRESS, Len(image.bytes), flashOk)
         IN  /\ KeepsAliases(rs, result.regions)
             /\ result.exception # noException => DOMAIN result.regions = DOMAIN rs
             /\ Sound(rs) =>
                  ~LoadGoesWild(created.regions, FLASH_BASE_ADDRESS, image.bytes)
             /\ Sound(rs) /\ countsOk => Sound(result.regions)
<1> DEFINE created == CreateRegion(rs, FLASH_BASE_ADDRESS, Len(image.bytes), flashOk)
           loaded  == LoadFromFlashImage(created.regions, FLASH_BASE_ADDRESS, image.bytes)
           locked  == MakeRegionReadOnly(loaded.regions, FLASH_BASE_ADDRESS, countsOk)
           ram     == CreateRegion(locked.regions, RAMBase(image.stack),
                                   image.stack % RAMBlock, ramOk)
           Failed(step) == step.exception # noException
           result  == CreateRegionsFromFlashImage(rs, image, flashOk, countsOk, ramOk)
           Loads   == LoadGoesWild(created.regions, FLASH_BASE_ADDRESS, image.bytes)
<1>1. result = IF Len(image.bytes) < WordSize THEN Throws(rs, bufferOverrunException)
               ELSE IF Failed(created) THEN created
               ELSE IF Failed(loaded) THEN loaded
               ELSE IF Failed(locked)
                    THEN Throws(freeLastRegion(locked.regions), locked.exception)
               ELSE IF Failed(ram) THEN Throws(freeLastRegion(ram.regions), ram.exception)
               ELSE ram
  BY DEF CreateRegionsFromFlashImage
<1> HIDE DEF result
<1>2. FLASH_BASE_ADDRESS \in Address
  BY AddressLimitAssumption DEF FLASH_BASE_ADDRESS, Address
<1>3. RAMBase(image.stack) \in Address /\ image.stack % RAMBlock \in Address
  <2>1. image.stack \in 0 .. AddressLimit - 1
    BY DEF Address
  <2>2. image.stack % RAMBlock \in Nat /\ image.stack % RAMBlock <= image.stack
    BY <2>1, RAMBlockAssumption, AddressLimitAssumption
  <2> QED
    BY <2>1, <2>2, AddressLimitAssumption DEF RAMBase, Address
<1>4. PICK n \in Nat : n = Len(rs) /\ DOMAIN rs = 1 .. n
  BY GoodElement
<1>5. /\ GoodRegions(created.regions)
      /\ Failed(created) <=> ~flashOk
      /\ Failed(created) => created.regions = rs
      /\ flashOk => ~Failed(loaded)
  <2>1. flashOk \in {TRUE, FALSE}
    OBVIOUS
  <2>2. /\ Failed(created) <=> ~flashOk
        /\ Failed(created) => created.regions = rs
    BY <2>1 DEF CreateRegion, Returns, Throws, noException, outOfMemoryException
  <2>3. CASE flashOk
    <3>1. flashOk = TRUE
      BY <2>1, <2>3
    <3>2. ~Failed(loaded)
      BY <3>1, FlashFits
    <3> QED
      BY <1>2, <2>2, <3>2, CreateRegionGood
  <2> QED
    BY <1>2, <2>2, <2>3, CreateRegionGood
<1>6. /\ KeepsAliases(rs, created.regions)
      /\ DOMAIN created.regions = 1 .. n + (IF flashOk THEN 1 ELSE 0)
      /\ Sound(rs) => Sound(created.regions)
  BY <1>2, <1>4, CreatePlaces
<1> HIDE DEF created
<1>7. /\ GoodRegions(loaded.regions)
      /\ KeepsAliases(created.regions, loaded.regions)
      /\ DOMAIN loaded.regions = DOMAIN created.regions
      /\ Sound(created.regions) => Sound(loaded.regions) /\ ~Loads
  BY <1>2, <1>5, LoadGood, LoadPlaces DEF KeepsAliases
<1> HIDE DEF loaded, Loads
<1>8. /\ GoodRegions(locked.regions)
      /\ KeepsAliases(loaded.regions, locked.regions)
      /\ DOMAIN locked.regions = DOMAIN loaded.regions
      /\ Sound(loaded.regions) /\ countsOk => Sound(locked.regions)
  BY <1>2, <1>7, MakeRegionReadOnlyGood, LockPlaces DEF KeepsAliases
<1> HIDE DEF locked
<1>9. /\ GoodRegions(ram.regions)
      /\ KeepsAliases(locked.regions, ram.regions)
      /\ Failed(ram) => ram.regions = locked.regions
      /\ Sound(locked.regions) => Sound(ram.regions)
  <2>1. Failed(ram) => ram.regions = locked.regions
    BY DEF CreateRegion, Returns, Throws, noException, outOfMemoryException
  <2> QED
    BY <1>3, <1>8, <2>1, CreateRegionGood, CreatePlaces
<1> HIDE DEF ram
<1>10. KeepsAliases(rs, locked.regions) /\ KeepsAliases(rs, ram.regions)
  BY <1>6, <1>7, <1>8, <1>9, AliasesKept
<1>11. KeepsAliases(rs, rs)
  BY DEF KeepsAliases, KeepsPlaces, SamePlace
<1>12. \A rs1, e : Throws(rs1, e).regions = rs1 /\ Throws(rs1, e).exception = e
  BY DEF Throws
<1>13. ASSUME flashOk
       PROVE  /\ DOMAIN freeLastRegion(locked.regions) = DOMAIN rs
              /\ KeepsAliases(rs, freeLastRegion(locked.regions))
              /\ Sound(locked.regions) => Sound(freeLastRegion(locked.regions))
  <2>1. Len(locked.regions) = n + 1
    <3>1. DOMAIN locked.regions = 1 .. n + 1
      BY <1>6, <1>7, <1>8, <1>13
    <3>2. Len(locked.regions) \in Nat /\ DOMAIN locked.regions = 1 .. Len(locked.regions)
      BY <1>8, GoodElement
    <3> QED
      BY <3>1, <3>2
  <2>2. /\ DOMAIN freeLastRegion(locked.regions) = 1 .. n
        /\ \A i \in 1 .. n : freeLastRegion(locked.regions)[i] = locked.regions[i]
        /\ Sound(locked.regions) => Sound(freeLastRegion(locked.regions))
    BY <1>8, <2>1, FreedPlaces
  <2> QED
    BY <1>4, <1>10, <2>2 DEF KeepsAliases, KeepsPlaces, SamePlace
<1> HIDE DEF Failed
<1>14. Failed(ram) => ram.exception # noException
  BY DEF Failed
<1>15. CASE Len(image.bytes) < WordSize
  <2>1. result.regions = rs
    BY <1>1, <1>12, <1>15
  <2> QED
    BY <1>6, <1>7, <1>11, <2>1 DEF Loads, created, result
<1>16. CASE ~(Len(image.bytes) < WordSize) /\ Failed(created)
  <2>1. result.regions = rs
    BY <1>1, <1>5, <1>16
  <2> QED
    BY <1>6, <1>7, <1>11, <2>1 DEF Loads, created, result
<1>17. CASE ~(Len(image.bytes) < WordSize) /\ flashOk /\ (Failed(locked) \/ Failed(ram))
  <2>1. \E e : result = Throws(freeLastRegion(locked.regions), e)
    BY <1>1, <1>5, <1>9, <1>17
  <2>2. result.regions = freeLastRegion(locked.regions)
    BY <1>12, <2>1
  <2> QED
    BY <1>6, <1>7, <1>8, <1>13, <1>17, <2>2 DEF Loads, created, result
<1>18. CASE ~(Len(image.bytes) < WordSize) /\ flashOk /\ ~Failed(locked) /\ ~Failed(ram)
  <2>1. result = ram
    BY <1>1, <1>5, <1>18
  <2> QED
    BY <1>6, <1>7, <1>8, <1>9, <1>10, <1>18, <2>1 DEF Loads, created, Failed, result
<1> QED
  BY <1>5, <1>15, <1>16, <1>17, <1>18

\* A region that does not pass the top of the address space.
BelowTop(r) == r.baseAddress + r.size <= AddressLimit

\* Regions that are new, and appending or freeing one.
LEMMA FreshAppended ==
  ASSUME NEW rs, NEW old, GoodRegions(old), NEW r, BelowTop(r),
         \A i \in DOMAIN old \ DOMAIN rs : BelowTop(old[i]), DOMAIN rs \subseteq DOMAIN old,
         NEW new \in {old, Append(old, r)}
  PROVE  /\ \A i \in DOMAIN new \ DOMAIN rs : BelowTop(new[i])
         /\ DOMAIN rs \subseteq DOMAIN new
<1>1. PICK n \in Nat : n = Len(old) /\ DOMAIN old = 1 .. n
  BY GoodElement
<1>2. /\ DOMAIN Append(old, r) = 1 .. n + 1
      /\ \A i \in DOMAIN old : Append(old, r)[i] = old[i]
      /\ Append(old, r)[n + 1] = r
  BY <1>1, AppendedPlaces
<1>3. \A i \in 1 .. n + 1 : i \in 1 .. n \/ i = n + 1
  OBVIOUS
<1>4. 1 .. n \subseteq 1 .. n + 1
  OBVIOUS
<1> QED
  BY <1>1, <1>2, <1>3, <1>4

LEMMA FreshFreed ==
  ASSUME NEW rs, NEW new, GoodRegions(new),
         \A i \in DOMAIN new \ DOMAIN rs : BelowTop(new[i])
  PROVE  \A i \in DOMAIN freeLastRegion(new) \ DOMAIN rs : BelowTop(freeLastRegion(new)[i])
<1>1. PICK n \in Nat : n = Len(new) /\ DOMAIN new = 1 .. n
  BY GoodElement
<1>2. CASE n = 0
  <2>1. new = <<>>
    BY <1>1, <1>2, EmptySeq DEF GoodRegions
  <2>2. freeLastRegion(<<>>) = <<>>
    BY DEF freeLastRegion, Front
  <2> QED
    BY <2>1, <2>2
<1>3. CASE n # 0
  <2>1. PICK m \in Nat : n = m + 1
    <3>1. n - 1 \in Nat /\ n = (n - 1) + 1
      BY <1>3
    <3> QED
      BY <3>1
  <2>2. /\ DOMAIN freeLastRegion(new) = 1 .. m
        /\ \A i \in 1 .. m : freeLastRegion(new)[i] = new[i]
    BY <1>1, <2>1, FreedPlaces
  <2>3. 1 .. m \subseteq 1 .. n
    BY <2>1
  <2> QED
    BY <1>1, <2>2, <2>3
<1> QED
  BY <1>2, <1>3

\* What a flash image brings does not: its RAM ends where the stack begins.
LEMMA FlashBelowTop ==
  ASSUME NEW rs, GoodRegions(rs), NEW image \in [bytes : Seq(Byte), stack : Address],
         Len(image.bytes) \in Address,
         NEW flashOk \in BOOLEAN, NEW countsOk \in BOOLEAN, NEW ramOk \in BOOLEAN
  PROVE  LET result == CreateRegionsFromFlashImage(rs, image, flashOk, countsOk, ramOk)
         IN  \A i \in DOMAIN result.regions \ DOMAIN rs : BelowTop(result.regions[i])
<1> DEFINE created == CreateRegion(rs, FLASH_BASE_ADDRESS, Len(image.bytes), flashOk)
           loaded  == LoadFromFlashImage(created.regions, FLASH_BASE_ADDRESS, image.bytes)
           locked  == MakeRegionReadOnly(loaded.regions, FLASH_BASE_ADDRESS, countsOk)
           base    == RAMBase(image.stack)
           size    == image.stack % RAMBlock
           ram     == CreateRegion(locked.regions, base, size, ramOk)
           result  == CreateRegionsFromFlashImage(rs, image, flashOk, countsOk, ramOk)
           Fresh(new) == \A i \in DOMAIN new \ DOMAIN rs : BelowTop(new[i])
<1>1. FLASH_BASE_ADDRESS \in Address /\ FLASH_BASE_ADDRESS = 0
  BY AddressLimitAssumption DEF FLASH_BASE_ADDRESS, Address
<1>2. base \in Address /\ size \in Address /\ base + size <= AddressLimit
  <2>1. image.stack \in 0 .. AddressLimit - 1
    BY DEF Address
  <2>2. size \in Nat /\ size <= image.stack
    BY <2>1, RAMBlockAssumption, AddressLimitAssumption
  <2>3. base = image.stack - size
    BY DEF RAMBase
  <2> HIDE DEF base, size
  <2> QED
    BY <2>1, <2>2, <2>3, AddressLimitAssumption DEF Address
<1> HIDE DEF base, size
<1>3. result.regions \in {rs, created.regions, loaded.regions,
                         freeLastRegion(locked.regions), freeLastRegion(ram.regions),
                         ram.regions}
  <2>1. \A rs1, e : Throws(rs1, e).regions = rs1
    BY DEF Throws
  <2> DEFINE Failed(step) == step.exception # noException
  <2>2. result = IF Len(image.bytes) < WordSize THEN Throws(rs, bufferOverrunException)
                 ELSE IF Failed(created) THEN created
                 ELSE IF Failed(loaded) THEN loaded
                 ELSE IF Failed(locked)
                      THEN Throws(freeLastRegion(locked.regions), locked.exception)
                 ELSE IF Failed(ram) THEN Throws(freeLastRegion(ram.regions), ram.exception)
                 ELSE ram
    BY DEF CreateRegionsFromFlashImage, base, size
  <2> HIDE DEF result, created, loaded, locked, ram, Failed
  <2> QED
    BY <2>1, <2>2
<1> HIDE DEF result
<1>4. \A b \in Address, n \in Address :
        NewRegion(b, n).baseAddress = b /\ NewRegion(b, n).size = n
  BY DEF NewRegion
<1>5. Fresh(created.regions) /\ GoodRegions(created.regions)
      /\ DOMAIN rs \subseteq DOMAIN created.regions
  <2>1. created.regions \in {rs, Append(rs, NewRegion(FLASH_BASE_ADDRESS, Len(image.bytes)))}
    BY DEF CreateRegion, Returns, Throws
  <2>2. BelowTop(NewRegion(FLASH_BASE_ADDRESS, Len(image.bytes)))
    <3>1. PICK m \in Address : m = Len(image.bytes)
      OBVIOUS
    <3>2. 0 + m <= AddressLimit
      BY AddressLimitAssumption DEF Address
    <3> QED
      BY <1>1, <1>4, <3>1, <3>2 DEF BelowTop
  <2>3. GoodRegions(created.regions)
    BY <1>1, CreateRegionGood
  <2> HIDE DEF created
  <2> QED
    BY <2>1, <2>2, <2>3, FreshAppended
<1> HIDE DEF created
<1>6. Fresh(loaded.regions) /\ GoodRegions(loaded.regions)
      /\ DOMAIN rs \subseteq DOMAIN loaded.regions
  <2>1. /\ KeepsPlaces(created.regions, loaded.regions)
        /\ DOMAIN loaded.regions = DOMAIN created.regions
        /\ GoodRegions(loaded.regions)
    BY <1>1, <1>5, LoadPlaces, LoadGood
  <2> HIDE DEF loaded
  <2> QED
    BY <1>5, <2>1 DEF KeepsPlaces, SamePlace, BelowTop
<1> HIDE DEF loaded
<1>7. Fresh(locked.regions) /\ GoodRegions(locked.regions)
      /\ DOMAIN rs \subseteq DOMAIN locked.regions
  <2>1. /\ KeepsPlaces(loaded.regions, locked.regions)
        /\ DOMAIN locked.regions = DOMAIN loaded.regions
        /\ GoodRegions(locked.regions)
    BY <1>1, <1>6, LockPlaces, MakeRegionReadOnlyGood
  <2> HIDE DEF locked
  <2> QED
    BY <1>6, <2>1 DEF KeepsPlaces, SamePlace, BelowTop
<1> HIDE DEF locked
<1>8. Fresh(ram.regions) /\ GoodRegions(ram.regions)
  <2>1. ram.regions \in {locked.regions, Append(locked.regions, NewRegion(base, size))}
    BY DEF CreateRegion, Returns, Throws
  <2>2. BelowTop(NewRegion(base, size))
    BY <1>2, <1>4 DEF BelowTop
  <2>3. GoodRegions(ram.regions)
    BY <1>2, <1>7, CreateRegionGood
  <2> HIDE DEF ram
  <2> QED
    BY <1>7, <2>1, <2>2, <2>3, FreshAppended
<1> HIDE DEF ram
<1>9. ASSUME NEW new, GoodRegions(new), Fresh(new)
      PROVE  Fresh(freeLastRegion(new))
  BY <1>9, FreshFreed
<1>10. Fresh(rs)
  OBVIOUS
<1> QED
  BY <1>3, <1>5, <1>6, <1>7, <1>8, <1>9, <1>10 DEF result
=============================================================================
