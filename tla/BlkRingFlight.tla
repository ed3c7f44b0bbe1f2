--------------------------- MODULE BlkRingFlight ---------------------------
(***************************************************************************)
(* What is in flight in the split block driver, for every size of the ring *)
(* and of the pool: the list of free ids, the one place of each request,   *)
(* and that the driver implements a block device.                          *)
(*                                                                         *)
(* The argument in short.  Counted from rsp_cons the ring has responses,   *)
(* then a gap as large as the number of requests that the back end has,    *)
(* then requests, and all of them together fit: so a response is written   *)
(* where a request was taken, and a request where a response was.  Every   *)
(* id in use is in exactly one of these places and the free list has the   *)
(* others, so a request never gets an id that is still in flight, and a    *)
(* response names the request that its sender was given.  After a restore  *)
(* the ring is empty and the shadow table alone knows what was in flight.  *)
(***************************************************************************)
EXTENDS BlkRingProofs, WellFoundedInduction

-----------------------------------------------------------------------------
(* Places in the ring.                                                     *)

\* Division with remainder is unique.
LEMMA Remainder ==
  ASSUME NEW a \in Int, NEW q \in Int, NEW r \in 0 .. RingSize - 1,
         a = q * RingSize + r
  PROVE  a % RingSize = r
<1> DEFINE b == a \div RingSize
           s == a % RingSize
<1>1. /\ RingSize \in Nat /\ RingSize > 0 /\ b \in Int
      /\ s \in 0 .. RingSize - 1 /\ a = RingSize * b + s
  BY RingAssumption
<1> HIDE DEF b, s
<1>2. PICK k \in Int : k = q - b
  BY <1>1
<1>3. k * RingSize = s - r
  BY <1>1, <1>2
<1>4. k > 0 => k * RingSize >= RingSize
  BY <1>1
<1>5. k < 0 => k * RingSize <= -RingSize
  BY <1>1
<1>6. k = 0
  BY <1>1, <1>3, <1>4, <1>5
<1>7. s = r
  BY <1>1, <1>3, <1>6
<1> QED BY <1>7 DEF s

\* The 32-bit wraparound keeps the place: the ring's size divides 2^32.
LEMMA Wraps ==
  ASSUME NEW a \in Int
  PROVE  (a + IdxMod) % RingSize = a % RingSize
<1>0. RingSize \in Nat /\ RingSize > 0 /\ IdxMod \in Nat
  BY RingAssumption
<1>1. PICK k \in Int : IdxMod = k * RingSize
  <2>1. /\ IdxMod \div RingSize \in Int
        /\ IdxMod = (IdxMod \div RingSize) * RingSize + (IdxMod % RingSize)
        /\ IdxMod % RingSize = 0
    BY RingAssumption
  <2>2. (IdxMod \div RingSize) * RingSize \in Int
    BY <1>0, <2>1
  <2> QED BY <2>1, <2>2
<1>2. PICK q \in Int, r \in 0 .. RingSize - 1 :
        a = q * RingSize + r /\ r = a % RingSize
  <2>1. /\ a \div RingSize \in Int /\ a % RingSize \in 0 .. RingSize - 1
        /\ a = (a \div RingSize) * RingSize + (a % RingSize)
    BY <1>0
  <2> QED BY <2>1
<1>3. a + IdxMod = (q + k) * RingSize + r
  BY <1>0, <1>1, <1>2
<1>4. (a + IdxMod) \in Int /\ (q + k) \in Int
  BY <1>0
<1> QED BY <1>2, <1>3, <1>4, Remainder

\* The place that is k behind index c.
Place(c, k) == (c + k) % RingSize

\* Places within one round differ.
LEMMA PlacesDiffer ==
  ASSUME NEW c \in Index, NEW i \in Slot, NEW j \in Slot,
         Place(c, i) = Place(c, j)
  PROVE  i = j
<1> DEFINE q == (c + i) \div RingSize
           s == (c + j) \div RingSize
           r == (c + i) % RingSize
<1>0. c \in Int /\ i \in 0 .. RingSize - 1 /\ j \in 0 .. RingSize - 1
      /\ (c + i) % RingSize = (c + j) % RingSize
  BY Sizes DEF Index, Slot, Place
<1>1. /\ RingSize \in Nat /\ RingSize > 0 /\ q \in Int /\ s \in Int
      /\ r \in 0 .. RingSize - 1
      /\ c + i = RingSize * q + r /\ c + j = RingSize * s + r
  BY <1>0, RingAssumption
<1> HIDE DEF q, s, r
<1>2. PICK k \in Int : k = q - s
  BY <1>1
<1>3. k * RingSize = i - j
  BY <1>0, <1>1, <1>2
<1>4. k > 0 => k * RingSize >= RingSize
  BY <1>1
<1>5. k < 0 => k * RingSize <= -RingSize
  BY <1>1
<1>6. k = 0
  BY <1>0, <1>1, <1>3, <1>4, <1>5
<1> QED BY <1>0, <1>1, <1>3, <1>6

\* The place of an index is as far behind c as the index is, ...
LEMMA IndexPlace ==
  ASSUME NEW x \in Index, NEW c \in Index, NEW i \in Nat
  PROVE  At(x + i) = Place(c, Sub(x, c) + i)
<1>0. x \in Int /\ c \in Int /\ IdxMod \in Int
  BY Sizes DEF Index
<1>1. Sub(x, c) = IF x >= c THEN x - c ELSE x - c + IdxMod
  BY SubFacts
<1>2. CASE x >= c
  <2>1. c + (Sub(x, c) + i) = x + i
    BY <1>0, <1>1, <1>2
  <2> QED BY <2>1 DEF At, Place
<1>3. CASE ~ (x >= c)
  <2>1. c + (Sub(x, c) + i) = (x + i) + IdxMod /\ x + i \in Int
    BY <1>0, <1>1, <1>3
  <2> QED BY <2>1, Wraps DEF At, Place
<1> QED BY <1>2, <1>3

\* ... and the places behind c come one earlier when c is advanced.
LEMMA NextPlace ==
  ASSUME NEW c \in Index, NEW i \in Nat
  PROVE  Place(Succ(c), i) = Place(c, i + 1)
<1>1. Succ(c) \in Index /\ Succ(c) = IF c = IdxMod - 1 THEN 0 ELSE c + 1
  BY SuccFacts
<1>2. c \in Int /\ IdxMod \in Int
  BY Sizes DEF Index
<1>3. CASE c = IdxMod - 1
  <2>1. Succ(c) + i = i /\ c + (i + 1) = i + IdxMod
    BY <1>1, <1>2, <1>3
  <2> QED BY <2>1, Wraps DEF Place
<1>4. CASE c # IdxMod - 1
  <2>1. Succ(c) + i = c + (i + 1)
    BY <1>1, <1>2, <1>4
  <2> QED BY <2>1 DEF Place
<1> QED BY <1>3, <1>4

\* A place is a slot of the ring.
LEMMA PlaceType == \A c \in Index, k \in Nat : Place(c, k) \in Slot
BY Sizes DEF Place, Slot, Index

-----------------------------------------------------------------------------
(* The list of free shadow entries.                                        *)

\* lst is the list from shadow_free, of m entries: exactly those not in use.
FreeList(lst, m) ==
    /\ lst[0] = fe.shadow_free
    /\ \A n \in Nat : n < m => /\ lst[n] \in Slot /\ ~InUse(lst[n])
                               /\ shadow[lst[n]].id = lst[n + 1]
    /\ \A n \in Nat : n >= m => lst[n] = EndOfList
    /\ \A n, k \in Nat : n < m /\ k < m /\ lst[n] = lst[k] => n = k
    /\ \A i \in Slot : ~InUse(i) => \E n \in Nat : n < m /\ lst[n] = i
    /\ recovery # "requeue" => m + Outstanding = RingSize

FreeOK == \E lst \in [Nat -> Slot \cup {EndOfList}], m \in Nat : FreeList(lst, m)

\* The end of the list is not an entry.
LEMMA EndNoSlot == EndOfList \notin Slot
BY Sizes DEF EndOfList, Slot

\* A list that threads the entries from u on, in order.
LEMMA FreshFree ==
  ASSUME NEW u \in 0 .. RingSize
  PROVE  LET lst == [n \in Nat |-> IF n < RingSize - u THEN u + n ELSE EndOfList]
             m == RingSize - u
         IN  /\ lst \in [Nat -> Slot \cup {EndOfList}] /\ m \in Nat
             /\ lst[0] = u
             /\ \A n \in Nat : n < m => lst[n] \in Slot /\ lst[n] >= u
                                        /\ lst[n] + 1 = lst[n + 1]
             /\ \A n \in Nat : n >= m => lst[n] = EndOfList
             /\ \A n, k \in Nat : n < m /\ k < m /\ lst[n] = lst[k] => n = k
             /\ \A i \in Slot : i >= u => \E n \in Nat : n < m /\ lst[n] = i
<1> DEFINE lst == [n \in Nat |-> IF n < RingSize - u THEN u + n ELSE EndOfList]
           m == RingSize - u
<1>0. RingSize \in Nat /\ u \in Nat /\ u <= RingSize /\ m \in Nat
      /\ \A i \in Int : i \in Slot <=> 0 <= i /\ i < RingSize
  BY Sizes DEF Slot
<1>1. lst \in [Nat -> Slot \cup {EndOfList}]
  BY <1>0
<1>2. lst[0] = u
  BY <1>0 DEF EndOfList
<1>3. \A n \in Nat : n < m => lst[n] \in Slot /\ lst[n] >= u
                                        /\ lst[n] + 1 = lst[n + 1]
  <2> SUFFICES ASSUME NEW n \in Nat, n < m
               PROVE  lst[n] \in Slot /\ lst[n] >= u /\ lst[n] + 1 = lst[n + 1]
    OBVIOUS
  <2>1. lst[n] = u + n
    OBVIOUS
  <2>2. lst[n + 1] = u + n + 1
    BY <1>0 DEF EndOfList
  <2> HIDE DEF lst
  <2> QED BY <1>0, <2>1, <2>2
<1>4. \A n \in Nat : n >= m => lst[n] = EndOfList
  BY <1>0
<1>5. \A n, k \in Nat : n < m /\ k < m /\ lst[n] = lst[k] => n = k
  BY <1>0
<1>6. \A i \in Slot : i >= u => \E n \in Nat : n < m /\ lst[n] = i
  <2> SUFFICES ASSUME NEW i \in Slot, i >= u PROVE \E n \in Nat : n < m /\ lst[n] = i
    OBVIOUS
  <2>1. i \in Int /\ i < RingSize
    BY <1>0, Sizes
  <2>2. i - u \in Nat /\ i - u < m /\ lst[i - u] = i
    BY <1>0, <2>1
  <2> QED BY <2>2
<1> QED BY <1>0, <1>1, <1>2, <1>3, <1>4, <1>5, <1>6

\* The list is kept where neither it nor the shadow table is touched.
LEMMA FreeSame ==
  ASSUME FreeOK, shadow' = shadow, fe'.shadow_free = fe.shadow_free,
         \/ recovery' = "requeue"
         \/ recovery # "requeue" /\ Outstanding' = Outstanding
  PROVE  FreeOK'
<1>1. PICK lst \in [Nat -> Slot \cup {EndOfList}], m \in Nat : FreeList(lst, m)
  BY DEF FreeOK
<1>2. FreeList(lst, m)'
  BY <1>1 DEF FreeList, InUse
<1> QED BY <1>2 DEF FreeOK

\* GET_ID_FROM_FREELIST takes the head, ...
LEMMA FreeTake ==
  ASSUME Typed, RingOrder, FrontOK, FreeOK, NEW r \in Request, QueueRequest(r)
  PROVE  FreeOK' /\ ~InUse(fe.shadow_free)
<1> DEFINE h == fe.shadow_free
<1>0. /\ h \in Slot /\ ~RingFull /\ recovery = "no" /\ recovery' = "no"
      /\ shadow' = [shadow EXCEPT ![h] = [id |-> h, request |-> r]]
      /\ fe'.shadow_free = shadow[h].id
      /\ fe'.req_prod_pvt = Succ(fe.req_prod_pvt) /\ fe'.rsp_cons = fe.rsp_cons
  BY QueueStep
<1>1. PICK lst \in [Nat -> Slot \cup {EndOfList}], m \in Nat : FreeList(lst, m)
  BY DEF FreeOK
<1>2. m > 0 /\ lst[0] = h
  BY <1>0, <1>1, EndNoSlot DEF FreeList
<1>3. ~InUse(h) /\ shadow[h].id = lst[1]
  BY <1>1, <1>2 DEF FreeList
<1>4. \A i \in Slot : InUse(i)' <=> i = h \/ InUse(i)
  BY <1>0, RequestAssumption DEF InUse, Typed
<1>5. \A i \in Slot : i # h => shadow'[i] = shadow[i]
  BY <1>0 DEF Typed
<1>6. Outstanding' = Outstanding + 1
  <2>1. Outstanding < RingSize
    BY <1>0, RingCounts, Positions, Sizes DEF RingOrder
  <2> QED BY <1>0, <2>1, Positions, SubSucc DEF Outstanding
<1> DEFINE new == [n \in Nat |-> lst[n + 1]]
<1>7. new \in [Nat -> Slot \cup {EndOfList}]
  OBVIOUS
<1>8. \A n \in Nat : new[n] = lst[n + 1] /\ n + 1 \in Nat
  OBVIOUS
<1> HIDE DEF new, h
<1>9. \A n \in Nat : n < m - 1 => n + 1 < m
  OBVIOUS
<1>10. \A n \in Nat : n < m - 1 => new[n] # h
  BY <1>1, <1>2, <1>8, <1>9 DEF FreeList
<1>11. \A n \in Nat : n < m - 1 => /\ new[n] \in Slot /\ ~InUse(new[n])'
                                   /\ shadow'[new[n]].id = new[n + 1]
  <2> SUFFICES ASSUME NEW n \in Nat, n < m - 1
               PROVE  /\ new[n] \in Slot /\ ~InUse(new[n])'
                      /\ shadow'[new[n]].id = new[n + 1]
    OBVIOUS
  <2>1. /\ new[n] \in Slot /\ ~InUse(new[n]) /\ new[n] # h
        /\ shadow[new[n]].id = lst[n + 1 + 1]
    BY <1>1, <1>8, <1>9, <1>10 DEF FreeList
  <2>2. new[n + 1] = lst[n + 1 + 1]
    BY <1>8
  <2> QED BY <1>4, <1>5, <2>1, <2>2
<1>12. \A n \in Nat : n >= m - 1 => new[n] = EndOfList
  BY <1>1, <1>8 DEF FreeList
<1>13. \A n, k \in Nat : n < m - 1 /\ k < m - 1 /\ new[n] = new[k] => n = k
  <2> SUFFICES ASSUME NEW n \in Nat, NEW k \in Nat, n < m - 1, k < m - 1,
                      new[n] = new[k]
               PROVE  n = k
    OBVIOUS
  <2>1. n + 1 = k + 1
    BY <1>1, <1>8, <1>9 DEF FreeList
  <2> QED BY <2>1
<1>14. \A i \in Slot : ~InUse(i)' => \E n \in Nat : n < m - 1 /\ new[n] = i
  <2> SUFFICES ASSUME NEW i \in Slot, ~InUse(i)'
               PROVE  \E n \in Nat : n < m - 1 /\ new[n] = i
    OBVIOUS
  <2>1. ~InUse(i) /\ i # h
    BY <1>4
  <2>2. PICK n \in Nat : n < m /\ lst[n] = i
    BY <1>1, <2>1 DEF FreeList
  <2>3. n # 0
    BY <1>2, <2>1, <2>2
  <2>4. n - 1 \in Nat /\ n - 1 < m - 1 /\ new[n - 1] = lst[n]
    BY <1>8, <2>2, <2>3
  <2> QED BY <2>2, <2>4
<1>15. m - 1 \in Nat /\ m - 1 + Outstanding' = RingSize
  <2>1. m + Outstanding = RingSize /\ Outstanding \in Nat
    BY <1>0, <1>1, Positions DEF FreeList
  <2> QED BY <1>2, <1>6, <2>1
<1>16. new[0] = fe'.shadow_free
  BY <1>0, <1>3, <1>8 DEF h
<1>17. FreeList(new, m - 1)'
  BY <1>11, <1>12, <1>13, <1>14, <1>15, <1>16 DEF FreeList
<1> QED BY <1>3, <1>7, <1>15, <1>17 DEF FreeOK, h

\* ... ADD_ID_TO_FREELIST puts a new one in front, ...
LEMMA FreePut ==
  ASSUME Typed, RingOrder, FrontOK, FreeOK, ConsumeResponse
  PROVE  FreeOK'
<1>h. PICK h : h = sring.ring[At(fe.rsp_cons)].id
  OBVIOUS
<1>0. /\ h \in Slot /\ shadow[h].request \in Request
      /\ recovery = "no" /\ recovery' = "no"
      /\ shadow' = [shadow EXCEPT ![h] = [id |-> fe.shadow_free, request |-> NoRequest]]
      /\ fe'.shadow_free = h
      /\ fe'.req_prod_pvt = fe.req_prod_pvt /\ fe'.rsp_cons = Succ(fe.rsp_cons)
      /\ fe.pc = "consume" /\ fe.rsp_cons # fe.rp
  BY <1>h, ConsumeStep DEF Entry
<1>1. h \in Slot
  BY <1>0
<1>2. PICK lst \in [Nat -> Slot \cup {EndOfList}], m \in Nat : FreeList(lst, m)
  BY DEF FreeOK
<1>3. InUse(h)
  BY <1>0, RequestAssumption DEF InUse
<1>4. /\ \A i \in Slot : InUse(i)' <=> i # h /\ InUse(i)
      /\ shadow'[h].id = fe.shadow_free
  BY <1>0, <1>1 DEF InUse, Typed
<1>5. \A i \in Slot : i # h => shadow'[i] = shadow[i]
  BY <1>0 DEF Typed
<1>6. Outstanding' = Outstanding - 1 /\ Outstanding > 0
  <2>1. Sub(fe.rp, fe.rsp_cons) # 0 /\ Sub(fe.rp, fe.rsp_cons) \in Nat
    BY <1>0, Positions, SubZero
  <2>2. /\ Sub(fe.rp, fe.rsp_cons) <= Answered /\ Answered <= Dispatched
        /\ Dispatched <= Published /\ Published <= Outstanding
        /\ Answered \in Nat /\ Dispatched \in Nat /\ Published \in Nat
        /\ Outstanding \in Nat
    BY <1>0, Positions DEF RingOrder
  <2>3. Outstanding > 0
    BY <2>1, <2>2
  <2> QED BY <1>0, <2>3, Positions, SubSucc DEF Outstanding
<1> DEFINE new == [n \in Nat |-> IF n = 0 THEN h ELSE lst[n - 1]]
<1>7. new \in [Nat -> Slot \cup {EndOfList}]
  BY <1>1
<1>8. new[0] = h /\ \A n \in Nat : n # 0 => new[n] = lst[n - 1] /\ n - 1 \in Nat
  OBVIOUS
<1>80. \A n \in Nat : new[n + 1] = lst[n]
  OBVIOUS
<1> HIDE DEF new
<1>9. \A n \in Nat : n < m => lst[n] # h
  BY <1>2, <1>3 DEF FreeList
<1>10. \A n \in Nat : n < m + 1 => /\ new[n] \in Slot /\ ~InUse(new[n])'
                                   /\ shadow'[new[n]].id = new[n + 1]
  <2> SUFFICES ASSUME NEW n \in Nat, n < m + 1
               PROVE  /\ new[n] \in Slot /\ ~InUse(new[n])'
                      /\ shadow'[new[n]].id = new[n + 1]
    OBVIOUS
  <2>1. CASE n = 0
    <3>1. new[0 + 1] = lst[0]
      BY <1>80
    <3>2. lst[0] = fe.shadow_free
      BY <1>2 DEF FreeList
    <3> QED BY <1>1, <1>4, <1>8, <2>1, <3>1, <3>2
  <2>2. CASE n # 0
    <3> DEFINE k == n - 1
    <3>1. k \in Nat /\ k < m /\ new[n] = lst[k] /\ new[n + 1] = lst[k + 1]
      BY <1>8, <1>80, <2>2
    <3> HIDE DEF k
    <3>2. /\ new[n] \in Slot /\ ~InUse(new[n]) /\ new[n] # h
          /\ shadow[new[n]].id = new[n + 1]
      BY <1>2, <1>9, <3>1 DEF FreeList
    <3> QED BY <1>4, <1>5, <3>2
  <2> QED BY <2>1, <2>2
<1>11. \A n \in Nat : n >= m + 1 => new[n] = EndOfList
  <2> SUFFICES ASSUME NEW n \in Nat, n >= m + 1 PROVE new[n] = EndOfList
    OBVIOUS
  <2>1. n # 0 /\ n - 1 >= m
    OBVIOUS
  <2> QED BY <1>2, <1>8, <2>1 DEF FreeList
<1>12. \A n, k \in Nat : n < m + 1 /\ k < m + 1 /\ new[n] = new[k] => n = k
  <2> SUFFICES ASSUME NEW n \in Nat, NEW k \in Nat, n < m + 1, k < m + 1,
                      new[n] = new[k]
               PROVE  n = k
    OBVIOUS
  <2>0. /\ n # 0 => n - 1 < m /\ n - 1 \in Nat /\ new[n] = lst[n - 1]
        /\ k # 0 => k - 1 < m /\ k - 1 \in Nat /\ new[k] = lst[k - 1]
    BY <1>8
  <2>1. n # 0 => new[n] # h
    BY <1>9, <2>0
  <2>2. k # 0 => new[k] # h
    BY <1>9, <2>0
  <2>3. CASE n = 0
    BY <1>8, <2>2, <2>3
  <2>4. CASE n # 0
    <3>1. k # 0
      BY <1>8, <2>1, <2>4
    <3>2. n - 1 = k - 1
      BY <1>2, <2>0, <2>4, <3>1 DEF FreeList
    <3> QED BY <3>2
  <2> QED BY <2>3, <2>4
<1>13. \A i \in Slot : ~InUse(i)' => \E n \in Nat : n < m + 1 /\ new[n] = i
  <2> SUFFICES ASSUME NEW i \in Slot, ~InUse(i)'
               PROVE  \E n \in Nat : n < m + 1 /\ new[n] = i
    OBVIOUS
  <2>1. CASE i = h
    <3>1. 0 \in Nat /\ 0 < m + 1
      OBVIOUS
    <3> QED BY <1>8, <2>1, <3>1
  <2>2. CASE i # h
    <3>1. ~InUse(i)
      BY <1>4, <2>2
    <3>2. PICK n \in Nat : n < m /\ lst[n] = i
      BY <1>2, <3>1 DEF FreeList
    <3>3. n + 1 \in Nat /\ n + 1 < m + 1 /\ new[n + 1] = i
      BY <1>80, <3>2
    <3> QED BY <3>3
  <2> QED BY <2>1, <2>2
<1>14. m + 1 \in Nat /\ m + 1 + Outstanding' = RingSize
  <2>1. m + Outstanding = RingSize /\ Outstanding \in Nat
    BY <1>0, <1>2, Positions DEF FreeList
  <2> QED BY <1>6, <2>1
<1>15. new[0] = fe'.shadow_free
  BY <1>0, <1>8
<1>16. FreeList(new, m + 1)'
  BY <1>10, <1>11, <1>12, <1>13, <1>14, <1>15 DEF FreeList
<1> QED BY <1>7, <1>14, <1>16 DEF FreeOK

\* ... and blkif_recover threads the entries behind the ones it has packed.
LEMMA RecoverUses ==
  ASSUME Typed, Recover
  PROVE  \A k \in Slot :
           /\ InUse(k)' <=> k < Cardinality(Used)
           /\ k < Cardinality(Used) => /\ shadow'[k].request = shadow[Nth(k)].request
                                       /\ Nth(k) \in Used /\ Rank(Nth(k)) = k
           /\ ~ (k < Cardinality(Used)) => shadow'[k] = FreshShadow[k]
<1> TAKE k \in Slot
<1>1. shadow'[k] = IF k < Cardinality(Used)
                   THEN [id |-> k, request |-> shadow[Nth(k)].request]
                   ELSE FreshShadow[k]
  BY RecoverStep
<1>2. CASE k < Cardinality(Used)
  <2>1. k \in 0 .. Cardinality(Used) - 1
    BY <1>2, UsedFinite, Sizes DEF Slot
  <2>2. Nth(k) \in Used /\ Rank(Nth(k)) = k
    BY <2>1, NthFacts
  <2>3. shadow'[k].request = shadow[Nth(k)].request
    BY <1>1, <1>2
  <2>4. shadow[Nth(k)].request # NoRequest
    BY <2>2 DEF Used, InUse
  <2> QED BY <1>2, <2>2, <2>3, <2>4 DEF InUse
<1>3. CASE ~ (k < Cardinality(Used))
  BY <1>1, <1>3 DEF InUse, FreshShadow
<1> QED BY <1>2, <1>3

\* ... and blkif_recover threads what it has not used again.
LEMMA FreeRebuilt ==
  ASSUME Typed, FrontOK, Recover
  PROVE  FreeOK'
<1>u. PICK u : u = Cardinality(Used)
  OBVIOUS
<1> DEFINE m == RingSize - u
           lst == [n \in Nat |-> IF n < RingSize - u THEN u + n ELSE EndOfList]
<1>0. /\ fe'.shadow_free = u /\ fe'.req_prod_pvt = u /\ fe'.rsp_cons = 0
  <2>1. /\ fe' = [fe EXCEPT !.req_prod_pvt = u, !.shadow_free = u]
        /\ recovery = "requeue"
    BY <1>u, RecoverStep
  <2>2. fe.rsp_cons = 0
    BY <2>1 DEF FrontOK
  <2> QED BY <2>1, <2>2 DEF Typed, FeType
<1>1. u \in 0 .. RingSize
  BY <1>u, UsedFinite
<1>2. \A k \in Slot : /\ InUse(k)' <=> k < u
                      /\ ~ (k < u) => shadow'[k] = FreshShadow[k]
  BY <1>u, RecoverUses
<1>3. /\ lst \in [Nat -> Slot \cup {EndOfList}] /\ m \in Nat
      /\ lst[0] = u
      /\ \A n \in Nat : n < m => lst[n] \in Slot /\ lst[n] >= u
                                        /\ lst[n] + 1 = lst[n + 1]
      /\ \A n \in Nat : n >= m => lst[n] = EndOfList
      /\ \A n, k \in Nat : n < m /\ k < m /\ lst[n] = lst[k] => n = k
      /\ \A i \in Slot : i >= u => \E n \in Nat : n < m /\ lst[n] = i
  BY <1>1, FreshFree
<1> HIDE DEF lst, m
<1>4. \A k \in Slot : ~ (k < u) <=> k >= u
  <2>1. u \in Int
    BY <1>1, Sizes
  <2>2. \A k \in Int : ~ (k < u) <=> k >= u
    BY <2>1
  <2> QED BY <2>2, Sizes
<1>5. \A n \in Nat : n < m => /\ lst[n] \in Slot /\ ~InUse(lst[n])'
                              /\ shadow'[lst[n]].id = lst[n + 1]
  <2> SUFFICES ASSUME NEW n \in Nat, n < m
               PROVE  /\ lst[n] \in Slot /\ ~InUse(lst[n])'
                      /\ shadow'[lst[n]].id = lst[n + 1]
    OBVIOUS
  <2>1. lst[n] \in Slot /\ lst[n] >= u /\ lst[n] + 1 = lst[n + 1]
    BY <1>3
  <2>2. FreshShadow[lst[n]].id = lst[n] + 1
    BY <2>1 DEF FreshShadow
  <2> QED BY <1>2, <1>4, <2>1, <2>2
<1>6. \A i \in Slot : ~InUse(i)' => \E n \in Nat : n < m /\ lst[n] = i
  BY <1>2, <1>3, <1>4
<1>7. m + Outstanding' = RingSize
  <2>1. Outstanding' = Sub(u, 0)
    BY <1>0 DEF Outstanding
  <2>2. u \in Index /\ 0 \in Index /\ u \in Nat
    BY <1>1, Sizes
  <2>3. Sub(u, 0) = IF u >= 0 THEN u - 0 ELSE u - 0 + IdxMod
    BY <2>2, SubFacts
  <2> QED BY <1>1, <2>1, <2>2, <2>3, Sizes DEF m
<1>8. FreeList(lst, m)'
  BY <1>0, <1>3, <1>5, <1>6, <1>7 DEF FreeList
<1> QED BY <1>3, <1>8 DEF FreeOK

\* At first all entries are free.
LEMMA FreeInitial == Init => FreeOK
<1> SUFFICES ASSUME Init PROVE FreeOK
  OBVIOUS
<1> DEFINE m == RingSize - 0
           lst == [n \in Nat |-> IF n < RingSize - 0 THEN 0 + n ELSE EndOfList]
<1>1. 0 \in 0 .. RingSize
  BY Sizes
<1>2. /\ lst \in [Nat -> Slot \cup {EndOfList}] /\ m \in Nat
      /\ lst[0] = 0
      /\ \A n \in Nat : n < m => lst[n] \in Slot /\ lst[n] >= 0
                                        /\ lst[n] + 1 = lst[n + 1]
      /\ \A n \in Nat : n >= m => lst[n] = EndOfList
      /\ \A n, k \in Nat : n < m /\ k < m /\ lst[n] = lst[k] => n = k
      /\ \A i \in Slot : i >= 0 => \E n \in Nat : n < m /\ lst[n] = i
  BY <1>1, FreshFree
<1>3. m + Outstanding = RingSize /\ fe.shadow_free = 0
  <2>1. Outstanding = 0
    BY Sizes, SubFacts DEF Init, Outstanding
  <2> QED BY <2>1, Sizes DEF Init
<1> HIDE DEF lst, m
<1>4. shadow = FreshShadow
  BY DEF Init
<1>5. \A i \in Slot : ~InUse(i) /\ shadow[i].id = i + 1 /\ i >= 0
  BY <1>4, Sizes DEF InUse, FreshShadow, Slot
<1>6. FreeList(lst, m)
  BY <1>2, <1>3, <1>5 DEF FreeList
<1> QED BY <1>2, <1>6 DEF FreeOK

\* The back end leaves the front end's tables and indices alone.
LEMMA BackSame ==
  ASSUME Typed, BiosCounted, OwnerOK,
         \/ Waiting
         \/ \E p \in PendingReq : \/ TakeRequest(p) \/ Work(p) \/ PushResponse(p)
                                  \/ Tail(p) \/ Tell(p) \/ FreeReq(p)
  PROVE  /\ UNCHANGED <<shadow, recovery, status, outcome>>
         /\ fe'.shadow_free = fe.shadow_free /\ fe'.rsp_cons = fe.rsp_cons
         /\ fe'.req_prod_pvt = fe.req_prod_pvt
<1>0. fe \in FeType
  BY DEF Typed
<1>1. CASE Waiting
  BY <1>1, WaitingStep
<1>2. ASSUME NEW p \in PendingReq,
             TakeRequest(p) \/ Work(p) \/ PushResponse(p) \/ Tail(p) \/ FreeReq(p)
      PROVE  UNCHANGED <<shadow, recovery, status, outcome, fe>>
  BY <1>2, TakeStep, WorkStep, PushStep, TailStep, FreeStep DEF Work, Tail
<1>3. ASSUME NEW p \in PendingReq, Tell(p)
      PROVE  /\ UNCHANGED <<shadow, recovery, status, outcome>>
             /\ fe'.shadow_free = fe.shadow_free /\ fe'.rsp_cons = fe.rsp_cons
             /\ fe'.req_prod_pvt = fe.req_prod_pvt
  BY <1>0, <1>3, TellStep DEF FeType
<1> QED BY <1>1, <1>2, <1>3

\* All steps keep the free list.
LEMMA FreeNext == RingInv /\ FreeOK /\ [Next]_vars => FreeOK'
<1> SUFFICES ASSUME RingInv, FreeOK, [Next]_vars PROVE FreeOK'
  OBVIOUS
<1>0. /\ Typed /\ BiosCounted /\ OwnerOK /\ RingOrder /\ FrontOK /\ fe \in FeType
      /\ recovery \in {"no", "requeue", "connect"}
  BY DEF RingInv, Typed
<1>1. ASSUME shadow' = shadow, fe'.shadow_free = fe.shadow_free,
             fe'.rsp_cons = fe.rsp_cons, fe'.req_prod_pvt = fe.req_prod_pvt,
             recovery' = recovery \/ recovery # "requeue"
      PROVE  FreeOK'
  <2>1. Outstanding' = Outstanding
    BY <1>1 DEF Outstanding
  <2> QED BY <1>1, <2>1, FreeSame
<1>2. CASE Front
  <2>1. CASE Quiet
    BY <1>0, <1>1, <2>1, QuietStep DEF Rests
  <2>2. CASE Flush
    BY <1>0, <1>1, <2>2, FlushStep
  <2> QED BY <1>0, <1>2, <2>1, <2>2, FrontSteps, FreeTake, FreePut, FreeRebuilt
<1>3. CASE Resume
  <2>1. shadow' = shadow /\ recovery' = "requeue" /\ fe'.shadow_free = fe.shadow_free
    BY <1>0, <1>3 DEF Resume, FeType
  <2> QED BY <2>1, FreeSame
<1> QED BY <1>0, <1>1, <1>2, <1>3, BackSame, Steps

\* A walk through the list, as FreeAt takes it.
FreeWalk(f) ==
    f = [n \in 0 .. RingSize |->
           IF n = 0 THEN fe.shadow_free
           ELSE IF f[n - 1] = EndOfList THEN EndOfList ELSE shadow[f[n - 1]].id]

\* A set of naturals has a least element.
LEMMA LeastNatural ==
  ASSUME NEW U, U \subseteq Nat, U # {}
  PROVE  \E x \in U : \A y \in U : x <= y
<1> DEFINE less == OpToRel(<, Nat)
<1>1. IsWellFoundedOn(less, Nat)
  BY NatLessThanWellFounded
<1>2. \A x, y \in Nat : y < x => <<y, x>> \in less
  BY DEF OpToRel
<1> HIDE DEF less
<1>3. \E x \in U : \A y \in U : ~ (<<y, x>> \in less)
  BY <1>1, WFMin
<1>4. \A x, y \in Nat : ~ (y < x) => x <= y
  OBVIOUS
<1> QED BY <1>2, <1>3, <1>4

\* FreeAt walks through the list and stays at its end.
LEMMA FreeAtList ==
  ASSUME Typed, NEW lst \in [Nat -> Slot \cup {EndOfList}], NEW m \in Nat,
         FreeList(lst, m)
  PROVE  \A n \in 0 .. RingSize : FreeAt[n] = lst[n]
<1> DEFINE w == [n \in 0 .. RingSize |-> lst[n]]
           f == CHOOSE g : FreeWalk(g)
<1>0. RingSize \in Nat /\ \A n \in 0 .. RingSize : n \in Nat /\ w[n] = lst[n]
  BY Sizes
<1>1. FreeWalk(w)
  <2> DEFINE v == [n \in 0 .. RingSize |->
           IF n = 0 THEN fe.shadow_free
           ELSE IF w[n - 1] = EndOfList THEN EndOfList ELSE shadow[w[n - 1]].id]
  <2>1. ASSUME NEW n \in 0 .. RingSize PROVE v[n] = lst[n]
    <3>1. CASE n = 0
      BY <3>1 DEF FreeList
    <3>2. CASE n # 0
      <4> DEFINE k == n - 1
      <4>1. k \in Nat /\ k \in 0 .. RingSize /\ k + 1 = n
        BY <1>0, <3>2
      <4>2. v[n] = IF lst[k] = EndOfList THEN EndOfList ELSE shadow[lst[k]].id
        BY <1>0, <3>2, <4>1
      <4> HIDE DEF k, v, w
      <4>3. CASE k < m
        <5>1. lst[k] \in Slot /\ shadow[lst[k]].id = lst[k + 1]
          BY <4>1, <4>3 DEF FreeList
        <5> QED BY <4>1, <4>2, <5>1, EndNoSlot
      <4>4. CASE ~ (k < m)
        <5>1. k >= m /\ n >= m /\ n \in Nat
          BY <1>0, <4>1, <4>4
        <5>2. lst[k] = EndOfList /\ lst[n] = EndOfList
          BY <4>1, <5>1 DEF FreeList
        <5> QED BY <4>2, <5>2
      <4> QED BY <4>3, <4>4
    <3> QED BY <3>1, <3>2
  <2>2. v = w
    BY <2>1
  <2> QED BY <2>2 DEF FreeWalk
<1>2. FreeAt = f
  BY DEF FreeAt, FreeWalk
<1>3. FreeWalk(f)
  BY <1>1
<1> HIDE DEF f, w
<1> DEFINE U == {n \in 0 .. RingSize : f[n] # w[n]}
<1>4. U = {}
  <2> SUFFICES ASSUME U # {} PROVE FALSE
    OBVIOUS
  <2>1. U \subseteq Nat
    BY <1>0
  <2>2. PICK n \in U : \A k \in U : n <= k
    BY <2>1, LeastNatural
  <2>3. n \in Nat /\ n \in 0 .. RingSize /\ f[n] # w[n]
    BY <2>1, <2>2
  <2>4. n # 0
    BY <1>1, <1>3, <2>3 DEF FreeWalk
  <2>5. n - 1 \in 0 .. RingSize /\ ~ (n <= n - 1)
    BY <1>0, <2>3, <2>4
  <2>6. f[n - 1] = w[n - 1]
    BY <2>2, <2>5
  <2>7. /\ f[n] = IF f[n - 1] = EndOfList THEN EndOfList ELSE shadow[f[n - 1]].id
        /\ w[n] = IF w[n - 1] = EndOfList THEN EndOfList ELSE shadow[w[n - 1]].id
    BY <1>1, <1>3, <2>3, <2>4 DEF FreeWalk
  <2> QED BY <2>3, <2>6, <2>7
<1> QED BY <1>0, <1>2, <1>4

\* FreeOK is what FreeListExact needs.
LEMMA FreeExact ==
  ASSUME RingInv, FreeOK
  PROVE  FreeListExact
<1>0. Typed /\ RingOrder /\ FrontOK /\ recovery \in {"no", "requeue", "connect"}
      /\ RingSize \in Nat
  BY Sizes DEF RingInv, Typed
<1>1. PICK lst \in [Nat -> Slot \cup {EndOfList}], m \in Nat : FreeList(lst, m)
  BY DEF FreeOK
<1> DEFINE unused == {i \in Slot : ~InUse(i)}
           free == {n \in 0 .. RingSize : FreeAt[n] # EndOfList}
           D == 0 .. m - 1
           f == [n \in D |-> lst[n]]
<1>2. \A n \in 0 .. RingSize : FreeAt[n] = lst[n]
  BY <1>0, <1>1, FreeAtList
<1>3. \A n : n \in D <=> n \in Nat /\ n < m
  OBVIOUS
<1>4. /\ \A n \in D : lst[n] \in unused
      /\ \A n, k \in D : lst[n] = lst[k] => n = k
      /\ \A i \in unused : \E n \in D : lst[n] = i
  <2> HIDE DEF D
  <2> QED BY <1>1, <1>3 DEF FreeList
<1>5. f \in Injection(D, unused) /\ f \in Surjection(D, unused)
  <2> HIDE DEF D, unused
  <2> QED BY <1>4 DEF Injection, Surjection, IsInjective
<1>6. IsFiniteSet(unused) /\ Cardinality(unused) <= RingSize
      /\ Cardinality(unused) \in Nat
  <2>1. unused \in SUBSET Slot
    OBVIOUS
  <2> HIDE DEF unused
  <2> QED BY <2>1, SlotFinite, FS_Subset, FS_CardinalityType
<1>7. Cardinality(D) = Cardinality(unused)
  <2> HIDE DEF D, unused, f
  <2> QED BY <1>5, <1>6, FS_Injection
<1>8. Cardinality(D) = m
  <2>1. 0 \in Int /\ m - 1 \in Int /\ m - 1 - 0 + 1 = m /\ (0 > m - 1 => m = 0)
    OBVIOUS
  <2>2. Cardinality(0 .. m - 1) = IF 0 > m - 1 THEN 0 ELSE m - 1 - 0 + 1
    BY <2>1, FS_Interval, Zenon
  <2> QED BY <2>1, <2>2
<1>9. m <= RingSize
  BY <1>6, <1>7, <1>8
<1>10. free = D
  <2>1. \A n \in 0 .. RingSize : lst[n] # EndOfList <=> n < m
    BY <1>0, <1>1, EndNoSlot DEF FreeList
  <2>2. free = {n \in 0 .. RingSize : n < m}
    BY <1>2, <2>1
  <2> QED BY <1>0, <1>9, <2>2
<1>11. {FreeAt[n] : n \in free} = unused
  <2>1. \A n \in D : FreeAt[n] = lst[n]
    BY <1>2, <1>10
  <2> HIDE DEF D, free, unused
  <2> QED BY <1>4, <1>10, <2>1
<1>12. Cardinality(free) = Cardinality(unused) /\ Cardinality(free) = m
  <2> HIDE DEF free, unused, D
  <2> QED BY <1>7, <1>8, <1>10
<1>13. recovery # "requeue" => Cardinality(free) = RingSize - Outstanding
  <2>1. recovery # "requeue" => m + Outstanding = RingSize
    BY <1>1 DEF FreeList
  <2>2. Outstanding \in Nat
    BY <1>0, Positions
  <2> HIDE DEF free, unused, D
  <2> QED BY <1>12, <2>1, <2>2
<1>14. ASSUME fe.connected = "connected", ~RingFull
       PROVE  fe.shadow_free \in Slot
  <2>1. recovery = "no"
    BY <1>0, <1>14 DEF FrontOK
  <2>2. m + Outstanding = RingSize /\ Outstanding # RingSize /\ Outstanding \in Nat
    BY <1>0, <1>1, <1>14, <2>1, RingCounts, Positions DEF FreeList
  <2>3. 0 < m
    BY <1>0, <2>2
  <2> QED BY <1>1, <2>3 DEF FreeList
<1> HIDE DEF free, unused, D
<1>15. /\ {FreeAt[n] : n \in free} = unused
       /\ Cardinality(free) = Cardinality(unused)
       /\ recovery # "requeue" => Cardinality(free) = RingSize - Outstanding
       /\ fe.pc = "request" /\ fe.connected = "connected" /\ ~RingFull =>
            fe.shadow_free \in Slot
  BY <1>11, <1>12, <1>13, <1>14
<1> QED BY <1>15 DEF FreeListExact, free, unused

\* FreeListExact holds of every instance: the free list has exactly the shadow
\* entries that are not in use, and is empty only when the ring is full, so that
\* the BUG_ON of GET_ID_FROM_FREELIST (blkfront.c:451) cannot fire, whatever the
\* order of responses and across blkif_recover.
THEOREM FreeListStaysExact == Spec => []FreeListExact
<1>1. Init => RingInv /\ FreeOK
  BY RingInitial, FreeInitial
<1>2. RingInv /\ FreeOK /\ [Next]_vars => RingInv' /\ FreeOK'
  BY RingNext, FreeNext
<1>3. RingInv /\ FreeOK => FreeListExact
  BY FreeExact
<1> QED BY <1>1, <1>2, <1>3, PTL DEF Spec

-----------------------------------------------------------------------------
(* What is in flight.                                                      *)

\* The ring seen from rsp_cons: responses, a gap for the requests that the back
\* end has, requests.
EntryAt(k) == sring.ring[Place(fe.rsp_cons, k)]
Responded(k) == k < Answered
Requested(k) == Dispatched <= k /\ k < Outstanding
Carried(k) == Responded(k) \/ Requested(k)

ResponsesOK ==
    \A k \in Slot : Responded(k) =>
        /\ InUse(EntryAt(k).id) /\ EntryAt(k).req = NoRequest
        /\ EntryAt(k).ok => shadow[EntryAt(k).id].request \in executed

RequestsOK ==
    \A k \in Slot : Requested(k) =>
        InUse(EntryAt(k).id) /\ EntryAt(k).req = shadow[EntryAt(k).id].request

BusyOK ==
    \A p \in Busy :
        /\ InUse(pend[p].id) /\ pend[p].req = shadow[pend[p].id].request
        /\ pend[p].pc = "respond" /\ pend[p].ok => pend[p].req \in executed

\* No id is in two places, ...
IdsDiffer ==
    /\ \A k, l \in Slot : Carried(k) /\ Carried(l) /\ EntryAt(k).id = EntryAt(l).id => k = l
    /\ \A p, q \in Busy : pend[p].id = pend[q].id => p = q
    /\ \A k \in Slot, p \in Busy : Carried(k) => EntryAt(k).id # pend[p].id

\* ... and each one in use is somewhere, unless it waits for blkif_recover.
IdsThere ==
    recovery # "requeue" =>
        \A i \in Slot : InUse(i) =>
            \/ \E k \in Slot : Carried(k) /\ EntryAt(k).id = i
            \/ \E p \in Busy : pend[p].id = i

\* The requests in the shadow table are the block layer's, once each.
HandedDown ==
    /\ \A i \in Slot : InUse(i) => status[shadow[i].request] = "pending"
    /\ \A i, j \in Slot : InUse(i) /\ shadow[i].request = shadow[j].request => i = j
    /\ executed \subseteq Request

DataOK == /\ ResponsesOK /\ RequestsOK /\ BusyOK
          /\ IdsDiffer /\ IdsThere /\ HandedDown

\* The places in use in the ring.
LEMMA Numbers ==
  ASSUME Typed, RingOrder
  PROVE  /\ Answered \in Nat /\ Dispatched \in Nat /\ Outstanding \in Nat
         /\ Answered <= Dispatched /\ Dispatched <= Outstanding
         /\ Outstanding <= RingSize
         /\ RingSize \in Nat
         /\ \A k \in Int : k \in Slot <=> 0 <= k /\ k < RingSize
         /\ \A k \in Slot : k \in Nat
         /\ \A k \in Slot : Carried(k) => k < Outstanding
<1>1. /\ Answered \in Nat /\ Dispatched \in Nat /\ Outstanding \in Nat
      /\ Published \in Nat /\ RingSize \in Nat
      /\ Answered <= Dispatched /\ Dispatched <= Published
      /\ Published <= Outstanding /\ Outstanding <= RingSize
  BY Positions, Sizes DEF RingOrder
<1>2. /\ \A k \in Int : k \in Slot <=> 0 <= k /\ k < RingSize
      /\ \A k \in Slot : k \in Nat
  BY <1>1 DEF Slot
<1>3. \A k \in Slot : Carried(k) => k < Outstanding
  BY <1>1, <1>2 DEF Carried, Responded, Requested
<1> QED BY <1>1, <1>2, <1>3

\* A place has an entry.
LEMMA EntryType == ASSUME Typed, NEW k \in Nat PROVE EntryAt(k) \in Entry
<1>1. Place(fe.rsp_cons, k) \in Slot
  BY Positions, PlaceType
<1> QED BY <1>1 DEF EntryAt, Typed, SringType

\* One entry is written; the others are what they were.
LEMMA EntryWrite ==
  ASSUME Typed, NEW x \in Slot, NEW e, fe'.rsp_cons = fe.rsp_cons,
         sring'.ring = [sring.ring EXCEPT ![Place(fe.rsp_cons, x)] = e]
  PROVE  /\ EntryAt(x)' = e
         /\ \A k \in Slot : k # x => EntryAt(k)' = EntryAt(k)
<1>0. /\ \A k \in Slot : k \in Nat
      /\ fe.rsp_cons \in Index /\ sring.ring \in [Slot -> Entry]
  BY Positions, Sizes DEF Slot, Typed, SringType
<1>1. \A k \in Slot : Place(fe.rsp_cons, k) \in Slot
  BY <1>0, PlaceType
<1>2. \A k \in Slot : k # x => Place(fe.rsp_cons, k) # Place(fe.rsp_cons, x)
  BY <1>0, PlacesDiffer
<1>3. EntryAt(x)' = e
  BY <1>0, <1>1 DEF EntryAt
<1>4. \A k \in Slot : k # x => EntryAt(k)' = EntryAt(k)
  BY <1>0, <1>1, <1>2 DEF EntryAt
<1> QED BY <1>3, <1>4

\* The place of an index of the ring.
LEMMA IndexAt ==
  ASSUME Typed, NEW x \in Index
  PROVE  At(x) = Place(fe.rsp_cons, Sub(x, fe.rsp_cons))
<1>0. fe.rsp_cons \in Index /\ Sub(x, fe.rsp_cons) \in Index
  BY Positions, SubFacts
<1>1. fe.rsp_cons \in Index /\ 0 \in Nat /\ x \in Int
      /\ Sub(x, fe.rsp_cons) \in Int
  BY <1>0, Sizes DEF Index
<1>2. At(x + 0) = Place(fe.rsp_cons, Sub(x, fe.rsp_cons) + 0)
  BY <1>1, IndexPlace
<1>3. x + 0 = x /\ Sub(x, fe.rsp_cons) + 0 = Sub(x, fe.rsp_cons)
  BY <1>1
<1> QED BY <1>2, <1>3

\* The data is kept where none of it is touched.
LEMMA DataSame ==
  ASSUME DataOK, sring'.ring = sring.ring, fe'.rsp_cons = fe.rsp_cons,
         Answered' = Answered, Dispatched' = Dispatched, Outstanding' = Outstanding,
         shadow' = shadow, executed' = executed,
         recovery' = recovery \/ recovery # "requeue",
         Busy' = Busy, \A p \in Busy : pend'[p] = pend[p],
         \A r \in Request : status[r] = "pending" => status'[r] = "pending",
         Typed
  PROVE  DataOK'
<1>1. \A k \in Slot : /\ EntryAt(k)' = EntryAt(k)
                      /\ Responded(k)' <=> Responded(k)
                      /\ Requested(k)' <=> Requested(k)
                      /\ Carried(k)' <=> Carried(k)
  BY DEF EntryAt, Responded, Requested, Carried
<1>2. \A i \in Slot : /\ InUse(i)' <=> InUse(i)
                      /\ InUse(i) => shadow[i].request \in Request
  BY DEF InUse, Typed, ShadowType
<1>3. \A k \in Slot : EntryAt(k).id \in Slot
  BY EntryType, Sizes DEF Slot, Entry
<1>4. \A p \in Busy : pend[p].id \in Slot
  BY DEF Busy, Typed, PendType
<1>5. ResponsesOK'
  BY <1>1, <1>2, <1>3 DEF DataOK, ResponsesOK
<1>6. RequestsOK'
  BY <1>1, <1>2, <1>3 DEF DataOK, RequestsOK
<1>7. BusyOK'
  BY <1>2, <1>4 DEF DataOK, BusyOK
<1>8. IdsDiffer'
  BY <1>1 DEF DataOK, IdsDiffer
<1>9. IdsThere'
  BY <1>1, <1>2 DEF DataOK, IdsThere
<1>10. HandedDown'
  BY <1>2 DEF DataOK, HandedDown
<1> QED BY <1>5, <1>6, <1>7, <1>8, <1>9, <1>10 DEF DataOK

\* What the parts of the invariant speak of.
LEMMA DataTypes ==
  ASSUME Typed
  PROVE  /\ \A k \in Slot : EntryAt(k).id \in Slot
         /\ \A p \in Busy : pend[p].id \in Slot
         /\ \A i \in Slot : InUse(i) <=> shadow[i].request \in Request
<1>1. \A k \in Slot : EntryAt(k).id \in Slot
  BY EntryType, Sizes DEF Slot, Entry
<1>2. \A p \in Busy : pend[p].id \in Slot
  BY DEF Busy, Typed, PendType
<1>3. \A i \in Slot : InUse(i) <=> shadow[i].request \in Request
  BY RequestAssumption DEF InUse, Typed, ShadowType
<1> QED BY <1>1, <1>2, <1>3

\* blkif_queue_request: one request more, in a slot that nobody uses, with an
\* id that nobody has.
LEMMA DataQueue ==
  ASSUME Typed, Typed', RingOrder, FrontOK, FreeOK, DataOK,
         NEW r \in Request, QueueRequest(r)
  PROVE  DataOK'
<1>h. PICK h : h = fe.shadow_free
  OBVIOUS
<1>x. PICK x : x = Outstanding
  OBVIOUS
<1>0. /\ h \in Slot /\ r \in Queue /\ ~RingFull
      /\ shadow' = [shadow EXCEPT ![h] = [id |-> h, request |-> r]]
      /\ sring' = [sring EXCEPT !.ring[At(fe.req_prod_pvt)] =
                         [id |-> h, req |-> r, ok |-> FALSE]]
      /\ fe'.req_prod_pvt = Succ(fe.req_prod_pvt) /\ fe'.rsp_cons = fe.rsp_cons
      /\ recovery = "no"
      /\ UNCHANGED <<recovery, be, pend, ring_lock, status, executed, outcome>>
  BY <1>h, QueueStep
<1>1. /\ Answered \in Nat /\ Dispatched \in Nat /\ x \in Nat /\ RingSize \in Nat
      /\ Answered <= Dispatched /\ Dispatched <= x /\ x <= RingSize
      /\ \A k \in Int : k \in Slot <=> 0 <= k /\ k < RingSize
      /\ \A k \in Slot : k \in Nat
      /\ \A k \in Slot : Carried(k) => k < x
  BY <1>x, Numbers
<1>2. x < RingSize /\ x \in Slot
  <2>1. x # RingSize
    BY <1>0, <1>x, RingCounts
  <2> QED BY <1>1, <2>1
<1>3. Outstanding' = x + 1
  BY <1>0, <1>2, <1>x, Positions, SubSucc DEF Outstanding
<1> DEFINE e == [id |-> h, req |-> r, ok |-> FALSE]
<1>4. /\ EntryAt(x)' = e
      /\ \A k \in Slot : k # x => EntryAt(k)' = EntryAt(k)
  <2>1. At(fe.req_prod_pvt) = Place(fe.rsp_cons, x)
    BY <1>x, Positions, IndexAt DEF Outstanding
  <2>2. sring'.ring = [sring.ring EXCEPT ![Place(fe.rsp_cons, x)] = e]
    BY <1>0, <2>1 DEF Typed, SringType
  <2> HIDE DEF e
  <2> QED BY <1>0, <1>2, <2>2, EntryWrite
<1>5. /\ Answered' = Answered /\ Dispatched' = Dispatched
  <2>1. sring'.rsp_prod = sring.rsp_prod
    BY <1>0 DEF Typed, SringType
  <2> QED BY <1>0, <2>1 DEF Answered, Dispatched
<1>6. \A k \in Slot : /\ Responded(k)' <=> Responded(k)
                      /\ Requested(k)' <=> k = x \/ Requested(k)
                      /\ Carried(k)' <=> k = x \/ Carried(k)
                      /\ Carried(k) => k # x
  BY <1>1, <1>3, <1>5, <1>x DEF Responded, Requested, Carried
<1>7. ~InUse(h)
  BY <1>h, FreeTake
<1>8. \A i \in Slot : /\ InUse(i)' <=> i = h \/ InUse(i)
                      /\ InUse(i) => shadow'[i] = shadow[i] /\ i # h
                      /\ i # h => shadow'[i] = shadow[i]
  BY <1>0, <1>7, RequestAssumption DEF InUse, Typed
<1>9. shadow'[h].request = r
  BY <1>0 DEF Typed
<1>10. EntryAt(x)'.id = h /\ EntryAt(x)'.req = r
  BY <1>4
<1>11. Busy' = Busy
  BY <1>0 DEF Busy
<1>12. \A i \in Slot : shadow[i].request # r
  BY <1>0 DEF Queue
<1>13. status[r] = "pending"
  BY <1>0 DEF Queue
<1>14. /\ \A k \in Slot : EntryAt(k).id \in Slot
       /\ \A p \in Busy : pend[p].id \in Slot
  BY DataTypes
<1> HIDE DEF e
<1>15. ResponsesOK'
  <2> SUFFICES ASSUME NEW k \in Slot, Responded(k)
               PROVE  /\ InUse(EntryAt(k).id)' /\ EntryAt(k)'.req = NoRequest
                      /\ EntryAt(k)'.ok => shadow'[EntryAt(k)'.id].request \in executed'
    BY <1>6 DEF ResponsesOK
  <2>1. EntryAt(k)' = EntryAt(k)
    BY <1>4, <1>6 DEF Carried
  <2>2. /\ InUse(EntryAt(k).id) /\ EntryAt(k).req = NoRequest
        /\ EntryAt(k).ok => shadow[EntryAt(k).id].request \in executed
    BY DEF DataOK, ResponsesOK
  <2>3. shadow'[EntryAt(k).id] = shadow[EntryAt(k).id]
    BY <1>8, <1>14, <2>2
  <2> QED BY <1>0, <2>1, <2>2, <2>3 DEF InUse
<1>16. RequestsOK'
  <2> SUFFICES ASSUME NEW k \in Slot, k = x \/ Requested(k)
               PROVE  /\ InUse(EntryAt(k).id)'
                      /\ EntryAt(k)'.req = shadow'[EntryAt(k)'.id].request
    BY <1>6 DEF RequestsOK
  <2>1. CASE k = x
    BY <1>9, <1>10, <2>1, RequestAssumption DEF InUse
  <2>2. CASE k # x
    <3>1. EntryAt(k)' = EntryAt(k)
      BY <1>4, <2>2
    <3>2. /\ InUse(EntryAt(k).id)
          /\ EntryAt(k).req = shadow[EntryAt(k).id].request
      BY <2>2 DEF DataOK, RequestsOK
    <3>3. shadow'[EntryAt(k).id] = shadow[EntryAt(k).id]
      BY <1>8, <1>14, <3>2
    <3> QED BY <3>1, <3>2, <3>3 DEF InUse
  <2> QED BY <2>1, <2>2
<1>17. BusyOK'
  BY <1>0, <1>8, <1>11, <1>14 DEF DataOK, BusyOK
<1>18. \A k \in Slot : Carried(k) => InUse(EntryAt(k).id)
  BY DEF DataOK, ResponsesOK, RequestsOK, Carried
<1>19. IdsDiffer'
  <2>1. \A k \in Slot : Carried(k) => EntryAt(k)' = EntryAt(k) /\ EntryAt(k).id # h
    BY <1>4, <1>6, <1>7, <1>18
  <2>2. \A p \in Busy : pend[p].id # h
    BY <1>7 DEF DataOK, BusyOK
  <2>3. ASSUME NEW k \in Slot, NEW l \in Slot, k = x \/ Carried(k), l = x \/ Carried(l),
               EntryAt(k)'.id = EntryAt(l)'.id
        PROVE  k = l
    BY <1>10, <2>1, <2>3 DEF DataOK, IdsDiffer
  <2>4. ASSUME NEW k \in Slot, NEW p \in Busy, k = x \/ Carried(k)
        PROVE  EntryAt(k)'.id # pend[p].id
    BY <1>10, <2>1, <2>2, <2>4 DEF DataOK, IdsDiffer
  <2>5. \A p, q \in Busy : pend[p].id = pend[q].id => p = q
    BY DEF DataOK, IdsDiffer
  <2> QED BY <1>0, <1>6, <1>11, <2>3, <2>4, <2>5 DEF IdsDiffer
<1>20. IdsThere'
  <2> SUFFICES ASSUME NEW i \in Slot, InUse(i)'
               PROVE  \/ \E k \in Slot : Carried(k)' /\ EntryAt(k)'.id = i
                      \/ \E p \in Busy' : pend'[p].id = i
    BY DEF IdsThere
  <2>1. CASE i = h
    BY <1>2, <1>6, <1>10, <2>1
  <2>2. CASE i # h
    <3>1. \/ \E k \in Slot : Carried(k) /\ EntryAt(k).id = i
          \/ \E p \in Busy : pend[p].id = i
      BY <1>0, <1>8, <2>2 DEF DataOK, IdsThere
    <3> QED BY <1>0, <1>4, <1>6, <1>11, <3>1
  <2> QED BY <2>1, <2>2
<1>21. HandedDown'
  <2>1. \A i \in Slot : InUse(i)' => status'[shadow'[i].request] = "pending"
    BY <1>0, <1>8, <1>9, <1>13 DEF DataOK, HandedDown
  <2>2. \A i, j \in Slot : InUse(i)' /\ shadow'[i].request = shadow'[j].request => i = j
    BY <1>8, <1>9, <1>12 DEF DataOK, HandedDown
  <2> QED BY <1>0, <2>1, <2>2 DEF DataOK, HandedDown
<1> QED BY <1>15, <1>16, <1>17, <1>19, <1>20, <1>21 DEF DataOK

\* blkif_int: the response at rsp_cons ends the one request that has its id.
LEMMA DataConsume ==
  ASSUME Typed, Typed', RingOrder, FrontOK, DataOK, ConsumeResponse
  PROVE  /\ DataOK'
         /\ LET e == EntryAt(0)
                r == shadow[e.id].request
            IN  /\ r \in Request /\ status[r] = "pending"
                /\ e.ok => r \in executed
                /\ status' = [status EXCEPT ![r] = "idle"]
                /\ outcome' = (IF e.ok THEN "ok" ELSE "error")
                /\ executed' = executed \ {r}
<1>c. PICK c : c = fe.rsp_cons
  OBVIOUS
<1>e. PICK e : e = EntryAt(0)
  OBVIOUS
<1>r. PICK r : r = shadow[e.id].request
  OBVIOUS
<1> DEFINE h == e.id
<1>1. /\ Answered \in Nat /\ Dispatched \in Nat /\ Outstanding \in Nat
      /\ RingSize \in Nat /\ RingSize > 0
      /\ Answered <= Dispatched /\ Dispatched <= Outstanding
      /\ Outstanding <= RingSize
      /\ \A k \in Int : k \in Slot <=> 0 <= k /\ k < RingSize
      /\ \A k \in Slot : k \in Nat
      /\ \A k \in Slot : Carried(k) => k < Outstanding
      /\ 0 \in Slot
  BY Numbers, Sizes
<1>2. c \in Index /\ At(c) = Place(c, 0)
  <2>1. c \in Index /\ Sub(c, c) = 0
    BY <1>c, Positions, SubZero
  <2> QED BY <1>c, <2>1, IndexAt
<1>3. e = sring.ring[At(c)]
  BY <1>2, <1>c, <1>e DEF EntryAt
<1>4. /\ e \in Entry /\ r \in Request
      /\ fe.pc = "consume" /\ c # fe.rp
      /\ shadow' = [shadow EXCEPT ![h] = [id |-> fe.shadow_free, request |-> NoRequest]]
      /\ sring' = [sring EXCEPT !.ring[At(c)] = NoEntry]
      /\ fe'.rsp_cons = Succ(c) /\ fe'.req_prod_pvt = fe.req_prod_pvt
      /\ status' = [status EXCEPT ![r] = "idle"]
      /\ outcome' = (IF e.ok THEN "ok" ELSE "error")
      /\ executed' = executed \ {r}
      /\ recovery = "no" /\ recovery' = "no"
      /\ UNCHANGED <<be, pend, ring_lock>>
  BY <1>3, <1>c, <1>r, ConsumeStep
<1>5. h \in Slot
  BY <1>4 DEF Entry
<1>6. Answered > 0
  <2>1. Sub(fe.rp, c) # 0 /\ Sub(fe.rp, c) \in Nat
    BY <1>4, <1>c, Positions, SubZero
  <2>2. Sub(fe.rp, c) <= Answered
    BY <1>4, <1>c DEF RingOrder
  <2> QED BY <1>1, <2>1, <2>2
<1>7. /\ Answered' = Answered - 1 /\ Dispatched' = Dispatched - 1
      /\ Outstanding' = Outstanding - 1
  <2>1. sring'.rsp_prod = sring.rsp_prod
    BY <1>4 DEF Typed, SringType
  <2>2. /\ sring.rsp_prod \in Index /\ be.req_cons \in Index
        /\ fe.req_prod_pvt \in Index
    BY Positions
  <2>3. /\ Sub(sring.rsp_prod, c) > 0 /\ Sub(be.req_cons, c) > 0
        /\ Sub(fe.req_prod_pvt, c) > 0
    BY <1>1, <1>6, <1>c DEF Answered, Dispatched, Outstanding
  <2>4. /\ Sub(sring.rsp_prod, Succ(c)) = Sub(sring.rsp_prod, c) - 1
        /\ Sub(be.req_cons, Succ(c)) = Sub(be.req_cons, c) - 1
        /\ Sub(fe.req_prod_pvt, Succ(c)) = Sub(fe.req_prod_pvt, c) - 1
    BY <1>2, <2>2, <2>3, SubSucc
  <2> QED BY <1>4, <1>c, <2>1, <2>4 DEF Answered, Dispatched, Outstanding
<1>8. \A k \in Slot : k + 1 \in Slot => EntryAt(k)' = EntryAt(k + 1)
  <2> SUFFICES ASSUME NEW k \in Slot, k + 1 \in Slot
               PROVE  EntryAt(k)' = EntryAt(k + 1)
    OBVIOUS
  <2>1. k \in Nat /\ k + 1 # 0
    BY <1>1
  <2>2. Place(Succ(c), k) = Place(c, k + 1)
    BY <1>2, <2>1, NextPlace
  <2>3. Place(c, k + 1) # Place(c, 0)
    BY <1>1, <1>2, <2>1, PlacesDiffer
  <2>4. Place(c, k + 1) \in Slot
    BY <1>2, <2>1, PlaceType
  <2>5. sring'.ring = [sring.ring EXCEPT ![Place(c, 0)] = NoEntry]
    BY <1>2, <1>4 DEF Typed, SringType
  <2>6. sring'.ring[Place(c, k + 1)] = sring.ring[Place(c, k + 1)]
    BY <2>3, <2>4, <2>5 DEF Typed, SringType
  <2> QED BY <1>4, <1>c, <2>2, <2>6 DEF EntryAt
<1>9. \A k \in Slot : /\ Responded(k)' => k + 1 \in Slot /\ Responded(k + 1)
                      /\ Requested(k)' => k + 1 \in Slot /\ Requested(k + 1)
                      /\ Carried(k)' => k + 1 \in Slot /\ Carried(k + 1)
  BY <1>1, <1>6, <1>7 DEF Responded, Requested, Carried
<1>10. \A k \in Slot : k # 0 /\ Carried(k) =>
                         k - 1 \in Slot /\ Carried(k - 1)' /\ EntryAt(k - 1)' = EntryAt(k)
  <2> SUFFICES ASSUME NEW k \in Slot, k # 0, Carried(k)
               PROVE  k - 1 \in Slot /\ Carried(k - 1)' /\ EntryAt(k - 1)' = EntryAt(k)
    OBVIOUS
  <2>1. k - 1 \in Slot /\ k - 1 + 1 = k /\ k \in Nat
    BY <1>1
  <2>2. EntryAt(k - 1)' = EntryAt(k)
    BY <1>8, <2>1
  <2>3. Carried(k - 1)'
    BY <1>1, <1>7, <2>1 DEF Carried, Responded, Requested
  <2> QED BY <2>1, <2>2, <2>3
<1>11. Carried(0) /\ Responded(0)
  BY <1>6 DEF Carried, Responded
<1>12. \A k \in Slot : k + 1 \in Slot /\ Carried(k + 1) => EntryAt(k + 1).id # h
  BY <1>1, <1>11, <1>e DEF DataOK, IdsDiffer
<1>13. Busy' = Busy
  BY <1>4 DEF Busy
<1>14. /\ \A k \in Slot : EntryAt(k).id \in Slot
       /\ \A p \in Busy : pend[p].id \in Slot
       /\ \A i \in Slot : InUse(i) <=> shadow[i].request \in Request
  BY DataTypes
<1>15. \A p \in Busy : pend[p].id # h
  BY <1>1, <1>11, <1>e DEF DataOK, IdsDiffer
<1> HIDE DEF h
<1>16. \A i \in Slot : /\ InUse(i)' <=> i # h /\ InUse(i)
                       /\ i # h => shadow'[i] = shadow[i]
  BY <1>4, <1>5 DEF InUse, Typed
<1>17. InUse(h) /\ shadow[h].request = r
  BY <1>4, <1>5, <1>14, <1>r DEF h
<1>18. \A i \in Slot : i # h /\ InUse(i) => shadow[i].request # r
  BY <1>5, <1>17 DEF DataOK, HandedDown
<1>19. ResponsesOK'
  <2> SUFFICES ASSUME NEW k \in Slot, Responded(k)'
               PROVE  /\ InUse(EntryAt(k).id)' /\ EntryAt(k)'.req = NoRequest
                      /\ EntryAt(k)'.ok => shadow'[EntryAt(k)'.id].request \in executed'
    BY DEF ResponsesOK
  <2>1. k + 1 \in Slot /\ Responded(k + 1) /\ Carried(k + 1) /\ EntryAt(k)' = EntryAt(k + 1)
    BY <1>8, <1>9 DEF Carried
  <2> DEFINE d == EntryAt(k + 1)
  <2>2. /\ d.id \in Slot /\ d.id # h /\ InUse(d.id) /\ d.req = NoRequest
        /\ d.ok => shadow[d.id].request \in executed
    BY <1>12, <1>14, <2>1 DEF DataOK, ResponsesOK
  <2>3. shadow[d.id].request # r /\ shadow'[d.id] = shadow[d.id]
    BY <1>16, <1>18, <2>2
  <2> HIDE DEF d
  <2>4. EntryAt(k)' = d
    BY <2>1 DEF d
  <2> QED BY <1>4, <2>2, <2>3, <2>4 DEF InUse
<1>20. RequestsOK'
  <2> SUFFICES ASSUME NEW k \in Slot, Requested(k)'
               PROVE  /\ InUse(EntryAt(k).id)'
                      /\ EntryAt(k)'.req = shadow'[EntryAt(k)'.id].request
    BY DEF RequestsOK
  <2>1. k + 1 \in Slot /\ Requested(k + 1) /\ Carried(k + 1) /\ EntryAt(k)' = EntryAt(k + 1)
    BY <1>8, <1>9 DEF Carried
  <2> DEFINE d == EntryAt(k + 1)
  <2>2. /\ d.id \in Slot /\ d.id # h /\ InUse(d.id)
        /\ d.req = shadow[d.id].request
    BY <1>12, <1>14, <2>1 DEF DataOK, RequestsOK
  <2>3. shadow'[d.id] = shadow[d.id]
    BY <1>16, <2>2
  <2> HIDE DEF d
  <2>4. EntryAt(k)' = d
    BY <2>1 DEF d
  <2> QED BY <2>2, <2>3, <2>4 DEF InUse
<1>21. BusyOK'
  <2> SUFFICES ASSUME NEW p \in Busy
               PROVE  /\ InUse(pend[p].id)'
                      /\ pend[p].req = shadow'[pend[p].id].request
                      /\ pend[p].pc = "respond" /\ pend[p].ok => pend[p].req \in executed'
    BY <1>4, <1>13 DEF BusyOK
  <2>1. /\ InUse(pend[p].id) /\ pend[p].req = shadow[pend[p].id].request
        /\ pend[p].pc = "respond" /\ pend[p].ok => pend[p].req \in executed
        /\ pend[p].id \in Slot /\ pend[p].id # h
    BY <1>14, <1>15 DEF DataOK, BusyOK
  <2>2. shadow'[pend[p].id] = shadow[pend[p].id] /\ pend[p].req # r
    BY <1>16, <1>18, <2>1
  <2> QED BY <1>4, <2>1, <2>2 DEF InUse
<1>22. IdsDiffer'
  <2>1. ASSUME NEW k \in Slot, NEW l \in Slot, Carried(k)', Carried(l)',
               EntryAt(k)'.id = EntryAt(l)'.id
        PROVE  k = l
    <3>1. k + 1 = l + 1
      BY <1>8, <1>9, <2>1 DEF DataOK, IdsDiffer
    <3> QED BY <1>1, <3>1
  <2>2. ASSUME NEW k \in Slot, NEW p \in Busy, Carried(k)'
        PROVE  EntryAt(k)'.id # pend[p].id
    BY <1>8, <1>9, <2>2 DEF DataOK, IdsDiffer
  <2>3. \A p, q \in Busy : pend[p].id = pend[q].id => p = q
    BY DEF DataOK, IdsDiffer
  <2> QED BY <1>4, <1>13, <2>1, <2>2, <2>3 DEF IdsDiffer
<1>23. IdsThere'
  <2> SUFFICES ASSUME NEW i \in Slot, InUse(i)'
               PROVE  \/ \E k \in Slot : Carried(k)' /\ EntryAt(k)'.id = i
                      \/ \E p \in Busy' : pend'[p].id = i
    BY DEF IdsThere
  <2>1. i # h /\ InUse(i)
    BY <1>16
  <2>2. CASE \E p \in Busy : pend[p].id = i
    BY <1>4, <1>13, <2>2
  <2>3. ASSUME NEW k \in Slot, Carried(k), EntryAt(k).id = i
        PROVE  \E l \in Slot : Carried(l)' /\ EntryAt(l)'.id = i
    <3>1. k # 0
      BY <1>e, <2>1, <2>3 DEF h
    <3> QED BY <1>10, <2>3, <3>1
  <2> QED BY <1>4, <2>1, <2>2, <2>3 DEF DataOK, IdsThere
<1>24. HandedDown'
  <2>1. \A i \in Slot : InUse(i)' => status'[shadow'[i].request] = "pending"
    <3> SUFFICES ASSUME NEW i \in Slot, InUse(i)'
                 PROVE  status'[shadow'[i].request] = "pending"
      OBVIOUS
    <3>1. /\ shadow'[i] = shadow[i] /\ shadow[i].request # r
          /\ shadow[i].request \in Request /\ status[shadow[i].request] = "pending"
      BY <1>14, <1>16, <1>18 DEF DataOK, HandedDown
    <3> QED BY <1>4, <3>1 DEF Typed
  <2>2. \A i, j \in Slot : InUse(i)' /\ shadow'[i].request = shadow'[j].request => i = j
    <3> SUFFICES ASSUME NEW i \in Slot, NEW j \in Slot, InUse(i)',
                        shadow'[i].request = shadow'[j].request
                 PROVE  i = j
      OBVIOUS
    <3>1. InUse(j)'
      BY DEF InUse
    <3> QED BY <1>16, <3>1 DEF DataOK, HandedDown
  <2> QED BY <1>4, <2>1, <2>2 DEF DataOK, HandedDown
<1>25. status[r] = "pending" /\ (e.ok => r \in executed)
  BY <1>1, <1>5, <1>11, <1>17, <1>e, <1>r DEF DataOK, HandedDown, ResponsesOK
<1>26. DataOK'
  BY <1>19, <1>20, <1>21, <1>22, <1>23, <1>24 DEF DataOK
<1> QED BY <1>4, <1>25, <1>26, <1>e, <1>r

\* blkif_recover: the k-th entry in use becomes the k-th request of the new ring.
LEMMA DataRecover ==
  ASSUME Typed, Typed', RingOrder, RingOrder', FrontOK, BusyCounted, DataOK, Recover
  PROVE  DataOK'
<1>u. PICK u : u = Cardinality(Used)
  OBVIOUS
<1>0. /\ recovery = "requeue" /\ recovery' = "connect"
      /\ sring' = [sring EXCEPT !.ring = [k \in Slot |->
                     IF k < u THEN [id |-> k, req |-> shadow[Nth(k)].request, ok |-> FALSE]
                     ELSE sring.ring[k]]]
      /\ fe' = [fe EXCEPT !.req_prod_pvt = u, !.shadow_free = u]
      /\ UNCHANGED <<be, pend, ring_lock, status, executed, outcome>>
  BY <1>u, RecoverStep
<1>1. /\ Answered \in Nat /\ Dispatched \in Nat /\ Outstanding \in Nat
      /\ RingSize \in Nat /\ RingSize > 0 /\ u \in Nat /\ u <= RingSize
      /\ Answered <= Dispatched /\ Dispatched <= Outstanding
      /\ \A k \in Int : k \in Slot <=> 0 <= k /\ k < RingSize
      /\ \A k \in Slot : k \in Nat
  BY <1>u, Numbers, Sizes, UsedFinite
<1>2. Outstanding = 0 /\ fe.rsp_cons = 0
  BY <1>0 DEF FrontOK
<1>3. fe'.rsp_cons = 0 /\ fe'.req_prod_pvt = u
  BY <1>0, <1>2 DEF Typed, FeType
<1>4. Answered' = 0 /\ Dispatched' = 0
  <2>1. Answered = 0 /\ Dispatched = 0
    BY <1>1, <1>2
  <2>2. sring'.rsp_prod = sring.rsp_prod
    BY <1>0 DEF Typed, SringType
  <2> QED BY <1>0, <1>2, <1>3, <2>1, <2>2 DEF Answered, Dispatched
<1>5. Outstanding' = u
  <2>1. u \in Index /\ 0 \in Index
    BY <1>1, Sizes
  <2>2. Sub(u, 0) = IF u >= 0 THEN u - 0 ELSE u - 0 + IdxMod
    BY <2>1, SubFacts
  <2>3. Sub(u, 0) = u
    BY <1>1, <2>2
  <2> QED BY <1>3, <2>3 DEF Outstanding
<1>6. \A k \in Slot : /\ ~Responded(k)' /\ (Requested(k)' <=> k < u)
                      /\ Carried(k)' <=> k < u
  BY <1>1, <1>4, <1>5 DEF Responded, Requested, Carried
<1>7. \A k \in Slot : /\ InUse(k)' <=> k < u
                      /\ k < u => /\ shadow'[k].request = shadow[Nth(k)].request
                                  /\ Nth(k) \in Used /\ Rank(Nth(k)) = k
  BY <1>u, RecoverUses
<1>8. \A k \in Slot : k < u => /\ EntryAt(k)'.id = k
                               /\ EntryAt(k)'.req = shadow'[k].request
  <2> SUFFICES ASSUME NEW k \in Slot, k < u
               PROVE  EntryAt(k)'.id = k /\ EntryAt(k)'.req = shadow'[k].request
    OBVIOUS
  <2>1. Place(0, k) = k
    BY <1>1 DEF Place
  <2>2. sring'.ring[k] = [id |-> k, req |-> shadow[Nth(k)].request, ok |-> FALSE]
    BY <1>0 DEF Typed, SringType
  <2>3. EntryAt(k)' = sring'.ring[k]
    BY <1>3, <2>1 DEF EntryAt
  <2> QED BY <1>7, <2>2, <2>3
<1>9. Busy' = {}
  <2>1. Cardinality(Busy) = 0
    BY <1>1, <1>2, RingCounts DEF BusyCounted
  <2>2. Busy = {}
    BY <2>1, FS_EmptySet DEF BusyCounted
  <2> QED BY <1>0, <2>2 DEF Busy
<1>10. ResponsesOK' /\ BusyOK'
  BY <1>6, <1>9 DEF ResponsesOK, BusyOK
<1>11. RequestsOK'
  <2> SUFFICES ASSUME NEW k \in Slot, k < u
               PROVE  /\ InUse(EntryAt(k).id)'
                      /\ EntryAt(k)'.req = shadow'[EntryAt(k)'.id].request
    BY <1>6 DEF RequestsOK
  <2>1. EntryAt(k)'.id = k /\ EntryAt(k)'.req = shadow'[k].request
    BY <1>8
  <2>2. shadow'[k].request # NoRequest
    BY <1>7 DEF InUse
  <2> QED BY <2>1, <2>2 DEF InUse
<1>12. IdsDiffer'
  BY <1>6, <1>8, <1>9 DEF IdsDiffer
<1>13. IdsThere'
  BY <1>6, <1>7, <1>8 DEF IdsThere
<1>14. HandedDown'
  <2>1. \A i \in Slot : InUse(i)' => status'[shadow'[i].request] = "pending"
    BY <1>0, <1>7 DEF DataOK, HandedDown, Used
  <2>2. \A i, j \in Slot : InUse(i)' /\ shadow'[i].request = shadow'[j].request => i = j
    <3> SUFFICES ASSUME NEW i \in Slot, NEW j \in Slot, InUse(i)',
                        shadow'[i].request = shadow'[j].request
                 PROVE  i = j
      OBVIOUS
    <3>1. InUse(j)'
      BY DEF InUse
    <3>2. /\ Nth(i) \in Used /\ Nth(j) \in Used
          /\ shadow[Nth(i)].request = shadow[Nth(j)].request
          /\ Rank(Nth(i)) = i /\ Rank(Nth(j)) = j
      BY <1>7, <3>1
    <3>3. Nth(i) = Nth(j)
      BY <3>2 DEF DataOK, HandedDown, Used
    <3> QED BY <3>2, <3>3
  <2> QED BY <1>0, <2>1, <2>2 DEF DataOK, HandedDown
<1> QED BY <1>10, <1>11, <1>12, <1>13, <1>14 DEF DataOK

\* A restore: the ring is empty, and the shadow table keeps the requests.
LEMMA DataResume ==
  ASSUME Typed, DataOK, Resume
  PROVE  DataOK'
<1>1. /\ fe'.req_prod_pvt = 0 /\ fe'.rsp_cons = 0
  BY DEF Resume, Typed, FeType
<1>2. /\ sring'.rsp_prod = 0 /\ be'.req_cons = 0 /\ recovery' = "requeue"
      /\ UNCHANGED <<shadow, status, executed>>
  BY DEF Resume, SharedRingInit, FreshBackend, done
<1>3. Sub(0, 0) = 0
  BY Sizes, SubFacts
<1>4. Answered' = 0 /\ Outstanding' = 0
  BY <1>1, <1>2, <1>3 DEF Answered, Outstanding
<1>5. \A k \in Slot : ~Carried(k)' /\ ~Responded(k)' /\ ~Requested(k)'
  BY <1>4, Sizes DEF Carried, Responded, Requested, Slot
<1>6. Busy' = {}
  BY DEF Resume, Busy, FreePending
<1>7. ResponsesOK' /\ RequestsOK' /\ BusyOK' /\ IdsDiffer' /\ IdsThere'
  BY <1>2, <1>5, <1>6 DEF ResponsesOK, RequestsOK, BusyOK, IdsDiffer, IdsThere
<1>8. HandedDown'
  BY <1>2 DEF DataOK, HandedDown, InUse
<1> QED BY <1>7, <1>8 DEF DataOK

\* At first nothing is in flight.
LEMMA DataInitial == Init => DataOK
<1> SUFFICES ASSUME Init PROVE DataOK
  OBVIOUS
<1>1. Answered = 0 /\ Outstanding = 0
  <2>1. Sub(0, 0) = 0
    BY Sizes, SubFacts
  <2> QED BY <2>1 DEF Init, SharedRingInit, Answered, Outstanding
<1>2. \A k \in Slot : ~Carried(k) /\ ~Responded(k) /\ ~Requested(k)
  BY <1>1, Sizes DEF Carried, Responded, Requested, Slot
<1>3. Busy = {}
  BY DEF Init, Busy, FreePending
<1>4. \A i \in Slot : ~InUse(i)
  BY DEF Init, InUse, FreshShadow
<1>5. ResponsesOK /\ RequestsOK /\ BusyOK /\ IdsDiffer /\ IdsThere
  BY <1>2, <1>3, <1>4 DEF ResponsesOK, RequestsOK, BusyOK, IdsDiffer, IdsThere
<1>6. HandedDown
  BY <1>4 DEF Init, HandedDown
<1> QED BY <1>5, <1>6 DEF DataOK

\* The thread takes a request out of the ring: it has it now, in the pool.
LEMMA DataTake ==
  ASSUME Typed, Typed', RingOrder, DataOK, NEW p \in PendingReq, TakeRequest(p)
  PROVE  DataOK'
<1>x. PICK x : x = Dispatched
  OBVIOUS
<1>e. PICK e : e = EntryAt(x)
  OBVIOUS
<1>1. /\ Answered \in Nat /\ x \in Nat /\ Outstanding \in Nat /\ RingSize \in Nat
      /\ Answered <= x /\ x <= Outstanding /\ Outstanding <= RingSize
      /\ \A k \in Int : k \in Slot <=> 0 <= k /\ k < RingSize
      /\ \A k \in Slot : k \in Nat
  BY <1>x, Numbers
<1>2. At(be.req_cons) = Place(fe.rsp_cons, x)
  BY <1>x, Positions, IndexAt DEF Dispatched
<1>3. e = sring.ring[At(be.req_cons)]
  BY <1>2, <1>e DEF EntryAt
<1>4. /\ \A q \in PendingReq : q # p => pend'[q] = pend[q]
      /\ pend[p].pc = "free" /\ pend'[p].pc = "submit"
      /\ pend'[p].id = e.id /\ pend'[p].req = e.req
      /\ be.pc = "loop" /\ be.req_cons # be.rp
      /\ be' = [be EXCEPT !.req_cons = Succ(be.req_cons), !.pc = "submit"]
      /\ sring' = [sring EXCEPT !.ring[At(be.req_cons)] = NoEntry]
      /\ UNCHANGED <<fe, shadow, recovery, ring_lock, status, executed, outcome>>
  BY <1>3, TakeStep
<1>5. x < Outstanding /\ x \in Slot
  <2>1. x # Sub(be.rp, fe.rsp_cons)
    BY <1>4, <1>x, Positions, SubZero DEF Dispatched
  <2>2. /\ x <= Sub(be.rp, fe.rsp_cons) /\ Sub(be.rp, fe.rsp_cons) <= Published
        /\ Published <= Outstanding /\ Published \in Nat
        /\ Sub(be.rp, fe.rsp_cons) \in Nat
    BY <1>4, <1>x, Positions DEF RingOrder
  <2>3. x < Outstanding
    BY <1>1, <2>1, <2>2
  <2> QED BY <1>1, <2>3
<1>6. Answered' = Answered /\ Outstanding' = Outstanding /\ Dispatched' = x + 1
  <2>1. sring'.rsp_prod = sring.rsp_prod
    BY <1>4 DEF Typed, SringType
  <2>2. be'.req_cons = Succ(be.req_cons)
    BY <1>4 DEF Typed, BeType
  <2>3. Sub(be.req_cons, fe.rsp_cons) < RingSize
    BY <1>1, <1>5, <1>x DEF Dispatched
  <2>4. Sub(Succ(be.req_cons), fe.rsp_cons) = Sub(be.req_cons, fe.rsp_cons) + 1
    BY <2>3, Positions, SubSucc
  <2> QED BY <1>4, <1>x, <2>1, <2>2, <2>4 DEF Answered, Dispatched, Outstanding
<1>7. \A k \in Slot : /\ Responded(k)' <=> Responded(k)
                      /\ Requested(k)' <=> Requested(k) /\ k # x
                      /\ Carried(k)' <=> Carried(k) /\ k # x
                      /\ Responded(k) => k # x
  BY <1>1, <1>6, <1>x DEF Responded, Requested, Carried
<1>8. \A k \in Slot : k # x => EntryAt(k)' = EntryAt(k)
  <2>1. sring'.ring = [sring.ring EXCEPT ![Place(fe.rsp_cons, x)] = NoEntry]
    BY <1>2, <1>4 DEF Typed, SringType
  <2> QED BY <1>4, <1>5, <2>1, EntryWrite
<1>9. Requested(x) /\ Carried(x)
  BY <1>1, <1>5, <1>x DEF Requested, Carried
<1>10. Busy' = Busy \cup {p} /\ p \notin Busy
  BY <1>4 DEF Busy
<1>11. \A q \in Busy : pend'[q] = pend[q] /\ q # p
  BY <1>4, <1>10 DEF Busy
<1>12. InUse(e.id) /\ e.req = shadow[e.id].request
  BY <1>5, <1>9, <1>e DEF DataOK, RequestsOK
<1>13. ResponsesOK'
  BY <1>4, <1>7, <1>8 DEF DataOK, ResponsesOK, InUse
<1>14. RequestsOK'
  BY <1>4, <1>7, <1>8 DEF DataOK, RequestsOK, InUse
<1>15. BusyOK'
  <2>1. ASSUME NEW q \in Busy
        PROVE  /\ InUse(pend[q].id)' /\ pend'[q].req = shadow'[pend'[q].id].request
               /\ pend'[q].pc = "respond" /\ pend'[q].ok => pend'[q].req \in executed'
    BY <1>4, <1>11 DEF DataOK, BusyOK, InUse
  <2>2. /\ InUse(pend[p].id)' /\ pend'[p].req = shadow'[pend'[p].id].request
        /\ pend'[p].pc # "respond"
    BY <1>4, <1>12 DEF InUse
  <2> QED BY <1>10, <2>1, <2>2 DEF BusyOK
<1>16. IdsDiffer'
  <2>1. \A k \in Slot : Carried(k) /\ k # x => EntryAt(k).id # e.id
    BY <1>5, <1>9, <1>e DEF DataOK, IdsDiffer
  <2>2. \A q \in Busy : pend[q].id # e.id
    BY <1>5, <1>9, <1>e DEF DataOK, IdsDiffer
  <2>3. ASSUME NEW k \in Slot, NEW l \in Slot, Carried(k)', Carried(l)',
               EntryAt(k)'.id = EntryAt(l)'.id
        PROVE  k = l
    BY <1>7, <1>8, <2>3 DEF DataOK, IdsDiffer
  <2>4. \A k \in Slot, q \in Busy' : Carried(k)' => EntryAt(k)'.id # pend'[q].id
    BY <1>4, <1>7, <1>8, <1>10, <1>11, <2>1 DEF DataOK, IdsDiffer
  <2>5. \A q, t \in Busy' : pend'[q].id = pend'[t].id => q = t
    BY <1>4, <1>10, <1>11, <2>2 DEF DataOK, IdsDiffer
  <2> QED BY <2>3, <2>4, <2>5 DEF IdsDiffer
<1>17. IdsThere'
  <2> SUFFICES ASSUME recovery # "requeue", NEW i \in Slot, InUse(i)
               PROVE  \/ \E k \in Slot : Carried(k)' /\ EntryAt(k)'.id = i
                      \/ \E q \in Busy' : pend'[q].id = i
    BY <1>4 DEF IdsThere, InUse
  <2>1. CASE \E q \in Busy : pend[q].id = i
    BY <1>10, <1>11, <2>1
  <2>2. ASSUME NEW k \in Slot, Carried(k), EntryAt(k).id = i
        PROVE  \/ \E l \in Slot : Carried(l)' /\ EntryAt(l)'.id = i
               \/ \E q \in Busy' : pend'[q].id = i
    BY <1>4, <1>7, <1>8, <1>10, <1>e, <2>2
  <2> QED BY <2>1, <2>2 DEF DataOK, IdsThere
<1>18. HandedDown'
  BY <1>4 DEF DataOK, HandedDown, InUse
<1> QED BY <1>13, <1>14, <1>15, <1>16, <1>17, <1>18 DEF DataOK

\* Work on a request the back end has: it is executed, or stays as it is.
LEMMA DataWork ==
  ASSUME Typed, BiosCounted, OwnerOK, DataOK, NEW p \in PendingReq, Work(p)
  PROVE  /\ DataOK'
         /\ pend[p].req \in Request /\ status[pend[p].req] = "pending"
         /\ executed' \in {executed, executed \union {pend[p].req}}
         /\ UNCHANGED <<status, outcome>>
<1>1. /\ \A q \in PendingReq : q # p => pend'[q] = pend[q]
      /\ pend[p].pc \in {"submit", "io"}
      /\ pend'[p].pc \in {"submit", "io", "respond"}
      /\ pend'[p].id = pend[p].id /\ pend'[p].req = pend[p].req
      /\ pend'[p].pc = "respond" /\ pend'[p].ok => pend[p].req \in executed'
      /\ executed' \in {executed, executed \union {pend[p].req}}
      /\ UNCHANGED <<sring, fe, shadow, recovery, status, outcome>>
  BY WorkStep DEF Work
<1>2. be'.req_cons = be.req_cons
  <2>1. be \in BeType
    BY DEF Typed
  <2>2. \/ be' = be \/ be' = [be EXCEPT !.pc = "loop"]
        \/ be' = [be EXCEPT !.pc = "respond"]
    BY WorkStep DEF Work
  <2> QED BY <2>1, <2>2 DEF BeType
<1>3. Busy' = Busy /\ p \in Busy
  BY <1>1 DEF Busy
<1>4. \A q \in Busy : q \in PendingReq
  BY DEF Busy
<1>5. \A k \in Slot : /\ EntryAt(k)' = EntryAt(k)
                      /\ Responded(k)' <=> Responded(k)
                      /\ Requested(k)' <=> Requested(k)
                      /\ Carried(k)' <=> Carried(k)
  BY <1>1, <1>2 DEF EntryAt, Responded, Requested, Carried, Answered, Dispatched,
                    Outstanding
<1>6. \A i : InUse(i)' <=> InUse(i)
  BY <1>1 DEF InUse
<1>7. /\ InUse(pend[p].id) /\ pend[p].id \in Slot
      /\ pend[p].req = shadow[pend[p].id].request /\ pend[p].req \in Request
  BY <1>3, DataTypes DEF DataOK, BusyOK
<1>8. status[pend[p].req] = "pending"
  BY <1>7 DEF DataOK, HandedDown
<1>9. executed \subseteq executed'
  BY <1>1
<1>10. ResponsesOK'
  BY <1>1, <1>5, <1>9 DEF DataOK, ResponsesOK, InUse
<1>11. RequestsOK'
  BY <1>1, <1>5 DEF DataOK, RequestsOK, InUse
<1>12. BusyOK'
  <2> SUFFICES ASSUME NEW q \in Busy
               PROVE  /\ InUse(pend[q].id)'
                      /\ pend'[q].req = shadow'[pend'[q].id].request
                      /\ pend'[q].pc = "respond" /\ pend'[q].ok => pend'[q].req \in executed'
    BY <1>3 DEF BusyOK
  <2>1. CASE q = p
    BY <1>1, <1>7, <2>1 DEF InUse
  <2>2. CASE q # p
    <3>1. pend'[q] = pend[q]
      BY <1>1, <1>4, <2>2
    <3> QED BY <1>1, <1>9, <3>1 DEF DataOK, BusyOK, InUse
  <2> QED BY <2>1, <2>2
<1>13. \A q \in Busy : pend'[q].id = pend[q].id
  BY <1>1, <1>4
<1>14. IdsDiffer'
  BY <1>3, <1>5, <1>13 DEF DataOK, IdsDiffer
<1>15. IdsThere'
  BY <1>1, <1>3, <1>5, <1>6, <1>13 DEF DataOK, IdsThere
<1>16. HandedDown'
  BY <1>1, <1>7 DEF DataOK, HandedDown, InUse
<1>17. DataOK'
  BY <1>10, <1>11, <1>12, <1>14, <1>15, <1>16 DEF DataOK
<1> QED BY <1>1, <1>7, <1>8, <1>17

\* make_response: the request leaves the back end and is answered in the ring.
LEMMA DataPush ==
  ASSUME Typed, Typed', RingOrder, BusyCounted, DataOK,
         NEW p \in PendingReq, PushResponse(p)
  PROVE  DataOK'
<1>x. PICK x : x = Answered
  OBVIOUS
<1>h. PICK h : h = pend[p].id
  OBVIOUS
<1>b. PICK b : b = pend[p].ok
  OBVIOUS
<1> DEFINE e == [id |-> h, req |-> NoRequest, ok |-> b]
<1>1. /\ x \in Nat /\ Dispatched \in Nat /\ Outstanding \in Nat /\ RingSize \in Nat
      /\ x <= Dispatched /\ Dispatched <= Outstanding /\ Outstanding <= RingSize
      /\ \A k \in Int : k \in Slot <=> 0 <= k /\ k < RingSize
      /\ \A k \in Slot : k \in Nat
  BY <1>x, Numbers
<1>2. /\ \A q \in PendingReq : q # p => pend'[q] = pend[q]
      /\ pend[p].pc = "respond" /\ pend'[p].pc = "notify"
      /\ be' = [be EXCEPT !.rsp_prod_pvt = Succ(be.rsp_prod_pvt)]
      /\ sring'.rsp_prod = Succ(be.rsp_prod_pvt)
      /\ sring'.ring = [sring.ring EXCEPT ![At(be.rsp_prod_pvt)] = e]
      /\ UNCHANGED <<fe, shadow, recovery, status, executed, outcome>>
  BY <1>b, <1>h, PushStep
<1>3. p \in Busy /\ Busy' = Busy \ {p}
  BY <1>2 DEF Busy
<1>4. x < Dispatched /\ x \in Slot
  <2>1. Cardinality(Busy) = Dispatched - x
    BY <1>x, RingCounts DEF BusyCounted
  <2>2. Cardinality(Busy) # 0
    BY <1>3, FS_EmptySet DEF BusyCounted
  <2>3. x < Dispatched
    BY <1>1, <2>1, <2>2
  <2> QED BY <1>1, <2>3
<1>5. be.rsp_prod_pvt = sring.rsp_prod /\ At(be.rsp_prod_pvt) = Place(fe.rsp_cons, x)
  BY <1>x, Positions, IndexAt DEF Answered, RingOrder
<1>6. Answered' = x + 1 /\ Outstanding' = Outstanding /\ Dispatched' = Dispatched
  <2>1. be'.req_cons = be.req_cons
    BY <1>2 DEF Typed, BeType
  <2>2. Sub(sring.rsp_prod, fe.rsp_cons) < RingSize
    BY <1>1, <1>4, <1>x DEF Answered
  <2>3. Sub(Succ(sring.rsp_prod), fe.rsp_cons) = Sub(sring.rsp_prod, fe.rsp_cons) + 1
    BY <2>2, Positions, SubSucc
  <2> QED BY <1>2, <1>5, <1>x, <2>1, <2>3 DEF Answered, Dispatched, Outstanding
<1>7. \A k \in Slot : /\ Responded(k)' <=> Responded(k) \/ k = x
                      /\ Requested(k)' <=> Requested(k)
                      /\ Carried(k)' <=> Carried(k) \/ k = x
                      /\ Carried(k) => k # x
                      /\ Requested(k) \/ Responded(k) => Carried(k)
  BY <1>1, <1>4, <1>6, <1>x DEF Responded, Requested, Carried
<1>8. /\ EntryAt(x)' = e
      /\ \A k \in Slot : k # x => EntryAt(k)' = EntryAt(k)
  BY <1>2, <1>4, <1>5, EntryWrite
<1>9. EntryAt(x)'.id = h /\ EntryAt(x)'.req = NoRequest /\ EntryAt(x)'.ok = b
  BY <1>8
<1> HIDE DEF e
<1>10. /\ InUse(h)
       /\ b => shadow[h].request \in executed
  BY <1>2, <1>3, <1>b, <1>h DEF DataOK, BusyOK
<1>11. \A q \in Busy' : q \in Busy /\ q # p /\ pend'[q] = pend[q] /\ q \in PendingReq
  BY <1>2, <1>3 DEF Busy
<1>12. ResponsesOK'
  <2> SUFFICES ASSUME NEW k \in Slot, Responded(k)'
               PROVE  /\ InUse(EntryAt(k).id)' /\ EntryAt(k)'.req = NoRequest
                      /\ EntryAt(k)'.ok => shadow'[EntryAt(k)'.id].request \in executed'
    BY DEF ResponsesOK
  <2>1. CASE k = x
    BY <1>2, <1>9, <1>10, <2>1 DEF InUse
  <2>2. CASE k # x
    BY <1>2, <1>7, <1>8, <2>2 DEF DataOK, ResponsesOK, InUse
  <2> QED BY <2>1, <2>2
<1>13. RequestsOK'
  BY <1>2, <1>7, <1>8 DEF DataOK, RequestsOK, InUse
<1>14. BusyOK'
  BY <1>2, <1>11 DEF DataOK, BusyOK, InUse
<1>15. IdsDiffer'
  <2>1. \A k \in Slot : Carried(k) => EntryAt(k).id # h
    BY <1>3, <1>h DEF DataOK, IdsDiffer
  <2>2. \A q \in Busy : q # p => pend[q].id # h
    BY <1>3, <1>h DEF DataOK, IdsDiffer
  <2>3. ASSUME NEW k \in Slot, NEW l \in Slot, Carried(k)', Carried(l)',
               EntryAt(k)'.id = EntryAt(l)'.id
        PROVE  k = l
    BY <1>7, <1>8, <1>9, <2>1, <2>3 DEF DataOK, IdsDiffer
  <2>4. \A k \in Slot, q \in Busy' : Carried(k)' => EntryAt(k)'.id # pend'[q].id
    BY <1>7, <1>8, <1>9, <1>11, <2>2 DEF DataOK, IdsDiffer
  <2>5. \A q, t \in Busy' : pend'[q].id = pend'[t].id => q = t
    BY <1>11 DEF DataOK, IdsDiffer
  <2> QED BY <2>3, <2>4, <2>5 DEF IdsDiffer
<1>16. IdsThere'
  <2> SUFFICES ASSUME recovery # "requeue", NEW i \in Slot, InUse(i)
               PROVE  \/ \E k \in Slot : Carried(k)' /\ EntryAt(k)'.id = i
                      \/ \E q \in Busy' : pend'[q].id = i
    BY <1>2 DEF IdsThere, InUse
  <2>1. CASE i = h
    BY <1>4, <1>7, <1>9, <2>1
  <2>2. ASSUME NEW q \in Busy, pend[q].id = i, i # h
        PROVE  \E t \in Busy' : pend'[t].id = i
    BY <1>3, <1>11, <1>h, <2>2
  <2>3. ASSUME NEW k \in Slot, Carried(k), EntryAt(k).id = i
        PROVE  \E l \in Slot : Carried(l)' /\ EntryAt(l)'.id = i
    BY <1>7, <1>8, <2>3
  <2> QED BY <2>1, <2>2, <2>3 DEF DataOK, IdsThere
<1>17. HandedDown'
  BY <1>2 DEF DataOK, HandedDown, InUse
<1> QED BY <1>12, <1>13, <1>14, <1>15, <1>16, <1>17 DEF DataOK

\* All steps keep DataOK.
LEMMA DataNext == RingInv /\ FreeOK /\ DataOK /\ [Next]_vars => DataOK'
<1> SUFFICES ASSUME RingInv, FreeOK, DataOK, [Next]_vars PROVE DataOK'
  OBVIOUS
<1>0. /\ Typed /\ BiosCounted /\ OwnerOK /\ RingOrder /\ FrontOK /\ BusyCounted
      /\ Typed' /\ RingOrder'
      /\ sring \in SringType /\ fe \in FeType /\ be \in BeType
      /\ pend \in [PendingReq -> PendType] /\ status \in [Request -> {"idle", "pending"}]
  BY RingNext DEF RingInv, Typed
<1>1. ASSUME sring'.ring = sring.ring, sring'.rsp_prod = sring.rsp_prod,
             fe'.rsp_cons = fe.rsp_cons, fe'.req_prod_pvt = fe.req_prod_pvt,
             be'.req_cons = be.req_cons, shadow' = shadow, executed' = executed,
             recovery' = recovery \/ recovery # "requeue",
             Busy' = Busy, \A p \in Busy : pend'[p] = pend[p],
             \A r \in Request : status[r] = "pending" => status'[r] = "pending"
      PROVE  DataOK'
  <2>1. Answered' = Answered /\ Dispatched' = Dispatched /\ Outstanding' = Outstanding
    BY <1>1 DEF Answered, Dispatched, Outstanding
  <2> QED BY <1>0, <1>1, <2>1, DataSame
<1>2. CASE Front
  <2>0. /\ pend' = pend /\ Busy' = Busy /\ be'.req_cons = be.req_cons
    BY <1>0, <1>2, FrontStep DEF BeType, Busy
  <2>1. CASE Quiet
    <3>1. /\ Rests(fe, fe')
          /\ UNCHANGED <<sring.rsp_prod, sring.ring, shadow, recovery, executed>>
          /\ \/ status' = status
             \/ \E r \in Request : status[r] = "idle"
                                   /\ status' = [status EXCEPT ![r] = "pending"]
      BY <1>0, <2>1, QuietStep
    <3>2. \A r \in Request : status[r] = "pending" => status'[r] = "pending"
      BY <1>0, <3>1
    <3>3. fe'.rsp_cons = fe.rsp_cons /\ fe'.req_prod_pvt = fe.req_prod_pvt
      BY <3>1 DEF Rests
    <3> QED BY <1>1, <2>0, <3>1, <3>2, <3>3
  <2>2. CASE Flush
    <3>1. /\ sring' = [sring EXCEPT !.req_prod = fe.req_prod_pvt]
          /\ fe'.req_prod_pvt = fe.req_prod_pvt /\ fe'.rsp_cons = fe.rsp_cons
          /\ recovery # "requeue"
          /\ UNCHANGED <<shadow, status, executed>>
      BY <1>0, <2>2, FlushStep
    <3>2. sring'.ring = sring.ring /\ sring'.rsp_prod = sring.rsp_prod
      BY <1>0, <3>1 DEF SringType
    <3> QED BY <1>1, <2>0, <3>1, <3>2
  <2> QED BY <1>0, <1>2, <2>1, <2>2, FrontSteps, DataQueue, DataConsume, DataRecover
<1>3. CASE Waiting
  <2>1. /\ be'.req_cons = be.req_cons
        /\ UNCHANGED <<sring, fe, shadow, recovery, pend, status, executed>>
    BY <1>0, <1>3, WaitingStep
  <2> QED BY <1>1, <2>1 DEF Busy
<1>4. ASSUME NEW p \in PendingReq, Tail(p) \/ Tell(p) \/ FreeReq(p)
      PROVE  DataOK'
  <2>1. /\ \A q \in PendingReq : q # p => pend'[q] = pend[q]
        /\ pend[p].pc \notin {"submit", "io", "respond"}
        /\ pend'[p].pc \notin {"submit", "io", "respond"}
        /\ executed' = executed
    <3>1. CASE Tail(p)
      BY <1>0, <3>1, TailStep DEF Tail, Locking
    <3>2. CASE Tell(p)
      BY <1>0, <3>2, TellStep
    <3>3. CASE FreeReq(p)
      <4>1. FreePending.pc = "free"
        BY DEF FreePending
      <4> QED BY <1>0, <3>3, <4>1, FreeStep
    <3> QED BY <1>4, <3>1, <3>2, <3>3
  <2>2. Busy' = Busy /\ \A q \in Busy : pend'[q] = pend[q]
    BY <2>1 DEF Busy
  <2>3. sring'.ring = sring.ring /\ sring'.rsp_prod = sring.rsp_prod
    <3>1. sring' = sring \/ sring' = [sring EXCEPT !.req_event = Succ(be.req_cons)]
      BY <1>0, <1>4, TailStep, TellStep, FreeStep DEF Tail
    <3> QED BY <1>0, <3>1 DEF SringType
  <2>4. be'.req_cons = be.req_cons
    <3>1. \/ be' = be \/ be' = [be EXCEPT !.pc = "wait"] \/ be' = [be EXCEPT !.pc = "loop"]
          \/ be' = [be EXCEPT !.waiting_reqs = be.waiting_reqs \/ pend[p].more]
      BY <1>0, <1>4, TailStep, TellStep, FreeStep DEF Tail
    <3> QED BY <1>0, <3>1 DEF BeType
  <2>5. /\ UNCHANGED <<shadow, recovery, status>>
        /\ fe'.rsp_cons = fe.rsp_cons /\ fe'.req_prod_pvt = fe.req_prod_pvt
    BY <1>0, <1>4, BackSame
  <2> QED BY <1>1, <2>1, <2>2, <2>3, <2>4, <2>5
<1>5. ASSUME NEW p \in PendingReq, TakeRequest(p) \/ Work(p) \/ PushResponse(p)
      PROVE  DataOK'
  BY <1>0, <1>5, DataTake, DataWork, DataPush
<1>6. CASE Resume
  BY <1>0, <1>6, DataResume
<1> QED BY <1>2, <1>3, <1>4, <1>5, <1>6, Steps

\* The inductive invariant.
LEMMA DataInvariant == Spec => [](RingInv /\ FreeOK /\ DataOK)
BY RingInitial, FreeInitial, DataInitial, RingNext, FreeNext, DataNext, PTL DEF Spec

\* TypeOK holds of every instance: what blkback carries out are requests that
\* blkfront was given, since an entry it takes from the ring is one that
\* blkif_queue_request or blkif_recover has written and nobody overwritten.
THEOREM BlkRingTyped == Spec => []TypeOK
<1>1. RingInv /\ FreeOK /\ DataOK => TypeOK
  BY TypeParts DEF RingInv, DataOK, HandedDown
<1> QED BY <1>1, DataInvariant, PTL

\* The places of InFlightOnce, counted from rsp_cons.
LEMMA ThreePlaces ==
  ASSUME Typed, RingOrder, DataOK, NEW i \in Slot, InUse(i)
  PROVE  /\ \A k : k \in AsRequest(i, shadow[i].request) <=>
                     /\ k \in Slot /\ Dispatched + k \in Slot
                     /\ Requested(Dispatched + k) /\ EntryAt(Dispatched + k).id = i
         /\ \A p : p \in InBackend(i, shadow[i].request) <=> p \in Busy /\ pend[p].id = i
         /\ \A k : k \in AsResponse(i) <=>
                     k \in Slot /\ Responded(k) /\ EntryAt(k).id = i
<1> DEFINE c == fe.rsp_cons
           r == shadow[i].request
<1>1. /\ Answered \in Nat /\ Dispatched \in Nat /\ Outstanding \in Nat
      /\ Dispatched <= Outstanding /\ Outstanding <= RingSize /\ RingSize \in Nat
      /\ Answered <= Dispatched
      /\ \A k \in Int : k \in Slot <=> 0 <= k /\ k < RingSize
      /\ \A k \in Slot : k \in Nat
  BY Numbers
<1>2. c \in Index /\ be.req_cons \in Index /\ fe.req_prod_pvt \in Index
  BY Positions
<1>3. Sub(fe.req_prod_pvt, be.req_cons) = Outstanding - Dispatched
  BY <1>1, <1>2, SubZero DEF Outstanding, Dispatched
<1>4. \A k \in Nat : At(be.req_cons + k) = Place(c, Dispatched + k)
  BY <1>2, IndexPlace DEF Dispatched
<1>5. \A k \in Nat : At(c + k) = Place(c, k)
  <2> TAKE k \in Nat
  <2>1. Sub(c, c) = 0
    BY <1>2, SubZero
  <2>2. At(c + k) = Place(c, 0 + k)
    BY <1>2, <2>1, IndexPlace
  <2> QED BY <2>2
<1>6. ASSUME NEW k \in Slot
      PROVE  k \in AsRequest(i, r) <=>
               /\ Dispatched + k \in Slot /\ Requested(Dispatched + k)
               /\ EntryAt(Dispatched + k).id = i
  <2>1. sring.ring[At(be.req_cons + k)] = EntryAt(Dispatched + k)
    BY <1>1, <1>4 DEF EntryAt
  <2>2. k < Outstanding - Dispatched <=>
          Dispatched + k \in Slot /\ Requested(Dispatched + k)
    BY <1>1 DEF Requested
  <2>3. Dispatched + k \in Slot /\ Requested(Dispatched + k)
        /\ EntryAt(Dispatched + k).id = i => EntryAt(Dispatched + k).req = r
    BY DEF DataOK, RequestsOK
  <2> QED BY <1>3, <2>1, <2>2, <2>3 DEF AsRequest
<1>7. \A p : p \in InBackend(i, r) <=> p \in Busy /\ pend[p].id = i
  BY DEF InBackend, Busy, DataOK, BusyOK
<1>8. \A k : k \in AsResponse(i) <=> k \in Slot /\ Responded(k) /\ EntryAt(k).id = i
  <2>1. \A k \in Slot : /\ sring.ring[At(c + k)] = EntryAt(k)
                        /\ k < Sub(sring.rsp_prod, c) <=> Responded(k)
                        /\ Responded(k) => EntryAt(k).req = NoRequest
    BY <1>1, <1>5 DEF EntryAt, Responded, Answered, DataOK, ResponsesOK
  <2> QED BY <1>1, <2>1 DEF AsResponse
<1>9. \A k : k \in AsRequest(i, r) => k \in Slot
  BY DEF AsRequest
<1> QED BY <1>6, <1>7, <1>8, <1>9

\* One element in one of three sets, and none in the others.
LEMMA OneOfThree ==
  ASSUME NEW A, NEW B, NEW C, A \cup B \cup C # {},
         \A x, y \in A : x = y, \A x, y \in B : x = y, \A x, y \in C : x = y,
         A = {} \/ B = {}, A = {} \/ C = {}, B = {} \/ C = {}
  PROVE  Cardinality(Together(A, B, C)) = 1
<1> DEFINE all == Together(A, B, C)
<1>1. PICK z : all = {z}
  <2>1. CASE A # {}
    <3>1. PICK x : A = {x}
      BY <2>1
    <3>2. B = {} /\ C = {}
      BY <2>1
    <3>3. all = {<<"request", x>>}
      BY <3>1, <3>2 DEF Together
    <3> QED BY <3>3
  <2>2. CASE B # {}
    <3>1. PICK x : B = {x}
      BY <2>2
    <3>2. A = {} /\ C = {}
      BY <2>2
    <3>3. all = {<<"back end", x>>}
      BY <3>1, <3>2 DEF Together
    <3> QED BY <3>3
  <2>3. CASE C # {}
    <3>1. PICK x : C = {x}
      BY <2>3
    <3>2. A = {} /\ B = {}
      BY <2>3
    <3>3. all = {<<"response", x>>}
      BY <3>1, <3>2 DEF Together
    <3> QED BY <3>3
  <2> QED BY <2>1, <2>2, <2>3
<1> HIDE DEF all
<1>2. Cardinality(all) = 1
  BY <1>1, FS_Singleton
<1> QED BY <1>2 DEF all

\* DataOK is what InFlightOnce needs.
LEMMA OncePlaced ==
  ASSUME RingInv, DataOK
  PROVE  InFlightOnce
<1> SUFFICES ASSUME recovery # "requeue", NEW i \in Slot, InUse(i)
             PROVE  Cardinality(Places(i, shadow[i].request)) = 1
  BY DEF InFlightOnce
<1> DEFINE r == shadow[i].request
           A == AsRequest(i, r)
           B == InBackend(i, r)
           C == AsResponse(i)
<1>1. Typed /\ RingOrder
  BY DEF RingInv
<1>2. /\ \A k : k \in A <=> /\ k \in Slot /\ Dispatched + k \in Slot
                           /\ Requested(Dispatched + k) /\ EntryAt(Dispatched + k).id = i
      /\ \A p : p \in B <=> p \in Busy /\ pend[p].id = i
      /\ \A k : k \in C <=> k \in Slot /\ Responded(k) /\ EntryAt(k).id = i
  BY <1>1, ThreePlaces
<1>3. /\ Answered \in Nat /\ Dispatched \in Nat /\ Answered <= Dispatched
      /\ RingSize \in Nat
      /\ \A k \in Int : k \in Slot <=> 0 <= k /\ k < RingSize
      /\ \A k \in Slot : k \in Nat
  BY <1>1, Numbers
<1> HIDE DEF A, B, C
<1>4. A \cup B \cup C # {}
  <2>1. CASE \E p \in Busy : pend[p].id = i
    BY <1>2, <2>1
  <2>2. CASE \E k \in Slot : Responded(k) /\ EntryAt(k).id = i
    BY <1>2, <2>2
  <2>3. ASSUME NEW k \in Slot, Requested(k), EntryAt(k).id = i
        PROVE  A # {}
    <3>1. PICK l \in Int : l = k - Dispatched
      BY <1>3
    <3>2. l \in Slot /\ Dispatched + l = k
      BY <1>3, <2>3, <3>1 DEF Requested
    <3> QED BY <1>2, <2>3, <3>2
  <2> QED BY <2>1, <2>2, <2>3 DEF DataOK, IdsThere, Carried
<1>5. \A x, y \in A : x = y
  <2> TAKE x, y \in A
  <2>1. Dispatched + x = Dispatched + y
    BY <1>2 DEF DataOK, IdsDiffer, Carried
  <2>2. x \in Nat /\ y \in Nat
    BY <1>2, <1>3
  <2> QED BY <1>3, <2>1, <2>2
<1>6. \A x, y \in B : x = y
  BY <1>2 DEF DataOK, IdsDiffer
<1>7. \A x, y \in C : x = y
  BY <1>2 DEF DataOK, IdsDiffer, Carried
<1>8. A = {} \/ B = {}
  BY <1>2 DEF DataOK, IdsDiffer, Carried
<1>9. B = {} \/ C = {}
  BY <1>2 DEF DataOK, IdsDiffer, Carried
<1>10. A = {} \/ C = {}
  <2> SUFFICES ASSUME NEW x \in A, NEW y \in C PROVE FALSE
    OBVIOUS
  <2>1. Dispatched + x = y
    BY <1>2 DEF DataOK, IdsDiffer, Carried
  <2>2. x \in Nat /\ y < Answered
    BY <1>2, <1>3 DEF Responded
  <2> QED BY <1>3, <2>1, <2>2
<1>11. Cardinality(Together(A, B, C)) = 1
  BY <1>4, <1>5, <1>6, <1>7, <1>8, <1>9, <1>10, OneOfThree, ZenonT(30)
<1> QED BY <1>11 DEF Places, A, B, C

\* InFlightOnce holds of every instance: each shadow entry in use is in exactly
\* one place, a request in the ring, in the back end, or a response in the ring,
\* although both kinds share the slots without a lock (ring.h:150).
THEOREM RequestsInFlightOnce == Spec => []InFlightOnce
<1>1. RingInv /\ FreeOK /\ DataOK => InFlightOnce
  BY OncePlaced
<1> QED BY <1>1, DataInvariant, PTL

\* Each step is one of the device, or changes nothing that the block layer sees.
LEMMA DeviceStep ==
  RingInv /\ DataOK /\ [Next]_vars =>
    [Device!DeviceNext]_<<status, executed, outcome>>
<1> SUFFICES ASSUME RingInv, DataOK, [Next]_vars
             PROVE  Device!DeviceNext \/ UNCHANGED <<status, executed, outcome>>
  OBVIOUS
<1> DEFINE Goal == Device!DeviceNext \/ UNCHANGED <<status, executed, outcome>>
<1>0. /\ Typed /\ BiosCounted /\ OwnerOK /\ RingOrder /\ FrontOK
      /\ Typed'
  BY RingNext DEF RingInv
<1>1. CASE Quiet
  <2>1. /\ UNCHANGED <<executed, outcome>>
        /\ \/ status' = status
           \/ \E r \in Request : status[r] = "idle"
                                 /\ status' = [status EXCEPT ![r] = "pending"]
    BY <1>0, <1>1, QuietStep
  <2> QED BY <2>1 DEF Device!DeviceNext, Device!Give
<1>2. CASE Flush \/ Recover \/ \E r \in Request : QueueRequest(r)
  BY <1>0, <1>2, FlushStep, RecoverStep, QueueStep
<1>3. CASE ConsumeResponse
  <2>1. PICK e, r : /\ r \in Request /\ status[r] = "pending"
                    /\ e.ok => r \in executed
                    /\ status' = [status EXCEPT ![r] = "idle"]
                    /\ outcome' = (IF e.ok THEN "ok" ELSE "error")
                    /\ executed' = executed \ {r}
    BY <1>0, <1>3, DataConsume
  <2>2. outcome' \in {"ok", "error"} /\ (outcome' = "ok" => r \in executed)
    BY <2>1
  <2>3. Device!Finish(r, outcome')
    BY <2>1, <2>2 DEF Device!Finish
  <2> QED BY <2>1, <2>2, <2>3 DEF Device!DeviceNext
<1>4. CASE Front
  BY <1>1, <1>2, <1>3, <1>4, FrontSteps
<1>5. CASE Resume \/ Waiting
  BY <1>0, <1>5, WaitingStep DEF Resume, done
<1>6. ASSUME NEW p \in PendingReq, Work(p)
      PROVE  Goal
  <2>1. /\ pend[p].req \in Request /\ status[pend[p].req] = "pending"
        /\ executed' \in {executed, executed \union {pend[p].req}}
        /\ UNCHANGED <<status, outcome>>
    BY <1>0, <1>6, DataWork
  <2> QED BY <2>1 DEF Device!DeviceNext, Device!CarryOut
<1>7. ASSUME NEW p \in PendingReq,
             TakeRequest(p) \/ PushResponse(p) \/ Tail(p) \/ Tell(p) \/ FreeReq(p)
      PROVE  Goal
  BY <1>0, <1>7, TakeStep, PushStep, TailStep, TellStep, FreeStep DEF Tail
<1> QED BY <1>4, <1>5, <1>6, <1>7, Steps

\* ImplementsDevice holds of every instance: blkfront, the ring and blkback
\* together implement the block device of BlockDevice.  A request that ends well
\* in blkif_int has been carried out since it was given, and nothing is carried
\* out for a request that has ended, also across re-used ids and restores.
THEOREM RingImplementsDevice == Spec => ImplementsDevice
<1>1. Init => Device!DeviceInit
  BY DEF Init, Device!DeviceInit
<1> QED BY <1>1, DeviceStep, DataInvariant, PTL DEF Spec, ImplementsDevice, Device!DeviceSpec
=============================================================================
