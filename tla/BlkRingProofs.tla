--------------------------- MODULE BlkRingProofs ---------------------------
(***************************************************************************)
(* The split block driver, for every size of the ring and of the pool,     *)
(* every number of bios and every fault: no request is answered over its   *)
(* own I/O, and neither end is left asleep over work in the ring.          *)
(*                                                                         *)
(* The argument in short.  The indices of both ends, counted from the      *)
(* front end's rsp_cons modulo 2^32, are in order and within the ring; the *)
(* entries of the pool in progress are as many as the requests taken and   *)
(* not answered.  So who answers the last request taken finds it out, sets *)
(* req_event and tests once more: req_event is one past req_cons (the next *)
(* request raises an event), or somebody has yet to look, or has seen      *)
(* requests and will say so.  For responses the front end does the same    *)
(* with rsp_event before it rests.                                         *)
(*                                                                         *)
(* BiosCounted counts bios; RingInv has the types, the pool and the        *)
(* indices; BackWoken and FrontWoken are inductive relative to RingInv.    *)
(***************************************************************************)
EXTENDS BlkRing, FiniteSetTheorems, TLAPS

\* An entry of the pool, in as much as counting its bios is concerned.  While
\* the thread submits, pendcnt is one more than the bios in flight (its own
\* count), and the bios submitted and left are within the bound; later it is
\* the number of bios in flight; elsewhere nothing is in flight.
InOrder(q) ==
    /\ {"pc", "left", "pendcnt", "bios"} \subseteq DOMAIN q
    /\ q.left \in Int /\ q.pendcnt \in Int /\ q.bios \in Nat
    /\ q.pc = "submit" => q.pendcnt = q.bios + 1 /\ q.bios + q.left < MaxBios
    /\ q.pc = "io" => q.pendcnt = q.bios /\ q.bios > 0
    /\ q.pc \notin {"submit", "io"} => q.bios = 0

BiosCounted ==
    /\ pend = [p \in PendingReq |-> pend[p]]
    /\ \A p \in PendingReq : InOrder(pend[p])

-----------------------------------------------------------------------------
\* FreePending is in order: what Init, Resume and free_req leave.
LEMMA FreeInOrder == InOrder(FreePending)
  BY DEF InOrder, FreePending

\* Changing one entry into one that is in order keeps the invariant.
LEMMA ChangeOne ==
    ASSUME BiosCounted, NEW p \in PendingReq, NEW q,
           InOrder(q), pend' = [pend EXCEPT ![p] = q]
    PROVE  BiosCounted'
  BY DEF BiosCounted

\* The steps of dispatch_rw_block_io: the count keeps up with the bios,
\* whichever of them have already ended.
LEMMA DispatchCounts ==
    ASSUME BiosCounted, NEW p \in PendingReq,
           \/ TakeRequest(p) \/ DispatchFails(p) \/ SubmitBio(p)
           \/ SubmitLastBio(p) \/ SubmitFails(p)
    PROVE  BiosCounted'
<1> DEFINE q == pend[p]
<1>1. InOrder(q) /\ MaxBios \in Nat \ {0}
  BY BiosAssumption DEF BiosCounted
<1>2. CASE TakeRequest(p)
  <2> DEFINE e == sring.ring[At(be.req_cons)]
             n == [FreePending EXCEPT !.pc = "submit", !.id = e.id, !.req = e.req,
                                      !.left = MaxBios - 1, !.pendcnt = 1]
  <2>1. InOrder(n)
    BY <1>1 DEF InOrder, FreePending
  <2>2. pend' = [pend EXCEPT ![p] = n]
    BY <1>2 DEF TakeRequest
  <2> QED BY <2>1, <2>2, ChangeOne
<1>3. CASE DispatchFails(p)
  <2> DEFINE n == [q EXCEPT !.pc = "respond", !.left = 0, !.ok = FALSE,
                            !.pendcnt = 0, !.own = TRUE]
  <2>1. q.pc = "submit" /\ q.left = MaxBios - 1
    BY <1>3 DEF DispatchFails
  <2>2. InOrder(n)
    BY <1>1, <2>1 DEF InOrder
  <2>3. pend' = [pend EXCEPT ![p] = n]
    BY <1>3 DEF DispatchFails
  <2> QED BY <2>2, <2>3, ChangeOne
<1>4. CASE SubmitBio(p)
  <2> DEFINE n == [q EXCEPT !.left = q.left - 1, !.pendcnt = q.pendcnt + 1,
                            !.bios = q.bios + 1]
  <2>1. q.pc = "submit"
    BY <1>4 DEF SubmitBio
  <2>2. InOrder(n)
    BY <1>1, <2>1 DEF InOrder
  <2>3. pend' = [pend EXCEPT ![p] = n]
    BY <1>4 DEF SubmitBio
  <2> QED BY <2>2, <2>3, ChangeOne
<1>5. CASE SubmitLastBio(p)
  <2> DEFINE n == [q EXCEPT !.pc = "io", !.left = 0, !.bios = q.bios + 1]
  <2>1. q.pc = "submit"
    BY <1>5 DEF SubmitLastBio
  <2>2. InOrder(n)
    BY <1>1, <2>1 DEF InOrder
  <2>3. pend' = [pend EXCEPT ![p] = n]
    BY <1>5 DEF SubmitLastBio
  <2> QED BY <2>2, <2>3, ChangeOne
<1>6. CASE SubmitFails(p)
  <2> DEFINE f == [q EXCEPT !.left = 0, !.own = q.pendcnt = 1]
             n == [f EXCEPT !.ok = f.ok /\ ~TRUE, !.pendcnt = f.pendcnt - 1,
                            !.pc = IF f.pendcnt - 1 = 0 THEN "respond" ELSE "io"]
  <2>1. q.pc = "submit"
    BY <1>6 DEF SubmitFails
  <2>2. InOrder(n)
    BY <1>1, <2>1 DEF InOrder
  <2>3. pend' = [pend EXCEPT ![p] = n]
    BY <1>6 DEF SubmitFails, EndBlockIo
  <2> QED BY <2>2, <2>3, ChangeOne
<1> QED BY <1>2, <1>3, <1>4, <1>5, <1>6

\* end_block_io_op: the bio that drops the last count is the last one.
LEMMA EndCounts ==
    ASSUME BiosCounted, NEW p \in PendingReq, NEW error \in BOOLEAN,
           BioDone(p, error)
    PROVE  BiosCounted'
<1> DEFINE q == pend[p]
           f == [q EXCEPT !.bios = q.bios - 1]
           n == [f EXCEPT !.ok = f.ok /\ ~error, !.pendcnt = f.pendcnt - 1,
                          !.pc = IF f.pendcnt - 1 = 0 THEN "respond" ELSE q.pc]
<1>1. InOrder(q) /\ MaxBios \in Nat \ {0} /\ q.bios > 0
  BY BiosAssumption DEF BiosCounted, BioDone
<1>2. InOrder(n)
  BY <1>1 DEF InOrder
<1>3. pend' = [pend EXCEPT ![p] = n]
  BY DEF BioDone, EndBlockIo
<1> QED BY <1>2, <1>3, ChangeOne

\* make_response and free_req: nothing is in flight, and nothing is submitted.
LEMMA ResponseCounts ==
    ASSUME BiosCounted, NEW p \in PendingReq, MakeResponse(p)
    PROVE  BiosCounted'
<1> DEFINE q == pend[p]
           Fresh(pc) == [FreePending EXCEPT !.pc = pc, !.own = q.own]
           Found(pc, v) == [q EXCEPT !.pc = pc, !.more = v]
           Told(v) == [q EXCEPT !.pc = "tail", !.notify = v]
           At1(pc) == [q EXCEPT !.pc = pc]
<1>1. InOrder(q)
  BY DEF BiosCounted
<1>2. InOrder(Fresh("notify")) /\ InOrder(Fresh("release"))
  BY DEF InOrder, FreePending
<1>3. ASSUME q.pc \notin {"submit", "io"}, NEW v, NEW x,
             x \notin {"submit", "io"}
      PROVE  InOrder(Found(x, v)) /\ InOrder(Told(v)) /\ InOrder(At1(x))
  BY <1>1, <1>3 DEF InOrder
<1>4. CASE PushResponse(p)
  <2>1. pend' = [pend EXCEPT ![p] = Fresh("notify")]
    BY <1>4 DEF PushResponse, RespStep
  <2> QED BY <1>2, <2>1, ChangeOne
<1>5. CASE CheckRspEvent(p)
  <2> DEFINE v == CheckNotify(Sub(sring.rsp_prod, 1), sring.rsp_prod,
                              sring.rsp_event)
  <2>1. q.pc = "notify" /\ pend' = [pend EXCEPT ![p] = Told(v)]
    BY <1>5 DEF CheckRspEvent, RespStep
  <2>2. InOrder(Told(v))
    BY <1>1, <2>1 DEF InOrder
  <2> HIDE DEF v
  <2> QED BY <2>1, <2>2, ChangeOne
<1>6. CASE TailCheck(p)
  <2>1. /\ q.pc = "tail"
        /\ \/ pend' = [pend EXCEPT ![p] = At1("final")]
           \/ pend' = [pend EXCEPT ![p] = At1("plain")]
    BY <1>6 DEF TailCheck, RespStep
  <2> QED BY <1>3, <2>1, ChangeOne
<1>7. ASSUME NEW from \in {"final", "retest", "plain"}, LastTest(p, from)
      PROVE  BiosCounted'
  <2>1. /\ q.pc = from
        /\ pend' = [pend EXCEPT ![p] = Found("tell", UnconsumedRequests > 0)]
    BY <1>7 DEF LastTest, RespStep
  <2>2. InOrder(Found("tell", UnconsumedRequests > 0))
    BY <1>3, <1>7, <2>1
  <2> QED BY <2>1, <2>2, ChangeOne
<1>8. CASE FinalTest(p)
  <2>1. CASE LastTest(p, "final")
    BY <1>7, <2>1
  <2>2. CASE ~LastTest(p, "final")
    <3>1. q.pc = "final" /\ pend' = [pend EXCEPT ![p] = At1("event")]
      BY <1>8, <2>2 DEF FinalTest, RespStep
    <3> QED BY <1>3, <3>1, ChangeOne
  <2> QED BY <2>1, <2>2
<1>9. CASE SetReqEvent(p)
  <2>1. q.pc = "event" /\ pend' = [pend EXCEPT ![p] = At1("retest")]
    BY <1>9 DEF SetReqEvent, RespStep
  <2> QED BY <1>3, <2>1, ChangeOne
<1>10. CASE FinalRetest(p) \/ PlainTest(p)
  BY <1>7, <1>10 DEF FinalRetest, PlainTest
<1>11. CASE Tell(p)
  <2>1. pend' = [pend EXCEPT ![p] = Fresh("release")]
    BY <1>11 DEF Tell
  <2> QED BY <1>2, <2>1, ChangeOne
<1>12. CASE FreeReq(p)
  <2>1. pend' = [pend EXCEPT ![p] = FreePending]
    BY <1>12 DEF FreeReq
  <2> QED BY <2>1, FreeInOrder, ChangeOne
<1> QED
  BY <1>4, <1>5, <1>6, <1>8, <1>9, <1>10, <1>11, <1>12 DEF MakeResponse

\* The other steps leave the pool alone, or (a restore) start with a new one.
LEMMA OthersCount ==
    ASSUME BiosCounted,
           \/ BlockLayer \/ Frontend \/ GrantsFreed \/ RestartQueue \/ Interrupt
           \/ Connect \/ Resume \/ Recovery \/ BackendConnect
           \/ BackendInterrupt \/ WaitEvents \/ ReadRequests \/ PoolEmpty
           \/ LoopDone \/ UNCHANGED vars
    PROVE  BiosCounted'
<1>1. CASE Resume
  <2>1. pend' = [p \in PendingReq |-> FreePending]
    BY <1>1 DEF Resume
  <2> QED BY <2>1, FreeInOrder DEF BiosCounted, InOrder
<1>2. CASE pend' = pend
  BY <1>2 DEF BiosCounted, InOrder
<1>3. CASE ~Resume
  <2>1. BlockLayer => pend' = pend
    BY DEF BlockLayer, RunQueue, Submit, SubmitAtBack, Queued, beVars
  <2>2. Frontend => pend' = pend
    BY DEF Frontend, QueueRequest, GrantShortage, RequestsDone, NotifyBackend,
           ConsumeResponse, ConsumedAll, SetRspEvent, Retest, beVars
  <2>3. GrantsFreed \/ RestartQueue \/ Interrupt \/ Connect => pend' = pend
    BY DEF GrantsFreed, RestartQueue, Interrupt, Connect, beVars
  <2>4. Recovery => pend' = pend
    BY DEF Recovery, Recover, RecoverConnect, beVars
  <2>5. BackendConnect \/ BackendInterrupt \/ WaitEvents \/ ReadRequests
        \/ PoolEmpty \/ LoopDone \/ UNCHANGED vars => pend' = pend
    BY DEF BackendConnect, BackendInterrupt, WaitEvents, ReadRequests, PoolEmpty,
           LoopDone, vars
  <2> QED BY <1>2, <1>3, <2>1, <2>2, <2>3, <2>4, <2>5
<1> QED BY <1>1, <1>3

-----------------------------------------------------------------------------
\* All steps keep the count.
LEMMA BiosKept ==
  ASSUME BiosCounted, [Next]_vars
  PROVE  BiosCounted'
BY DispatchCounts, EndCounts, ResponseCounts, OthersCount DEF Next, Thread

\* NoIoBehindResponse holds of every instance: blkback answers a request, and
\* unmaps its pages, only when none of its bios is in flight, however bios
\* end while others are submitted or fail to be (blkback.c:511,557).
THEOREM ResponseAfterIo == Spec => []NoIoBehindResponse
<1>1. Init => BiosCounted
  BY FreeInOrder DEF Init, BiosCounted, InOrder
<1>2. BiosCounted /\ [Next]_vars => BiosCounted'
  BY BiosKept
<1>3. BiosCounted => NoIoBehindResponse
  BY DEF BiosCounted, InOrder, NoIoBehindResponse
<1> QED BY <1>1, <1>2, <1>3, PTL DEF Spec

-----------------------------------------------------------------------------
(* Types.                                                                  *)

SringType == [req_prod : Index, req_event : Index, rsp_prod : Index,
              rsp_event : Index, ring : [Slot -> Entry]]

FeType == [connected : {"disconnected", "connected", "suspended"},
           req_prod_pvt : Index, rsp_cons : Index,
           shadow_free : Slot \union {EndOfList},
           stopped : BOOLEAN, callback : BOOLEAN, work : BOOLEAN,
           irq : BOOLEAN, queued : BOOLEAN, rp : Index, old : Index,
           after : {"idle", "kick"},
           pc : {"idle", "request", "notify", "consume", "event", "retest"}]

ShadowType == [id : Slot \union {EndOfList}, request : Request \union {NoRequest}]

BeType == [bound : BOOLEAN, irq : BOOLEAN, waiting_reqs : BOOLEAN,
           rsp_prod_pvt : Index, req_cons : Index, rp : Index,
           pc : {"wait", "pool", "read", "loop", "submit", "respond"}]

PendType == [pc : {"free", "submit", "io", "respond", "notify", "tail", "final",
                   "plain", "event", "retest", "tell", "release"},
             id : Slot, req : Request \union {NoRequest},
             left : 0 .. MaxBios - 1, pendcnt : 0 .. MaxBios,
             bios : 0 .. MaxBios, ok : BOOLEAN, own : BOOLEAN,
             more : BOOLEAN, notify : BOOLEAN]

\* The type invariant but for the history: that what the disk carries out is a
\* request rests on what is in the ring.
Typed ==
    /\ sring \in SringType /\ fe \in FeType
    /\ shadow \in [Slot -> ShadowType]
    /\ recovery \in {"no", "requeue", "connect"}
    /\ be \in BeType
    /\ pend \in [PendingReq -> PendType]
    /\ ring_lock \in SUBSET PendingReq
    /\ status \in [Request -> {"idle", "pending"}]
    /\ outcome \in {"ok", "error"}

\* Typed is TypeOK without the history variable.
LEMMA TypeParts == Typed /\ executed \in SUBSET Request <=> TypeOK
BY DEF Typed, TypeOK, SringType, FeType, ShadowType, BeType, PendType

\* The constants, and what is in the types because of them.
LEMMA Sizes ==
  /\ RingSize \in Nat /\ RingSize > 0 /\ IdxMod \in Nat
  /\ IdxMod >= 2 * RingSize /\ IdxMod > 1
  /\ 0 \in Slot /\ 0 \in Index /\ 1 \in Index
  /\ MaxBios \in Nat /\ MaxBios > 0
  /\ \A n \in 0 .. RingSize : n \in Index
  /\ \A i \in Slot : i \in Int /\ i + 1 \in Slot \union {EndOfList}
BY RingAssumption, BiosAssumption DEF Slot, Index, EndOfList

\* The counters of an entry of the pool are integers.
LEMMA Counts ==
  /\ 0 \in 0 .. MaxBios - 1 /\ MaxBios - 1 \in 0 .. MaxBios - 1
  /\ 0 \in 0 .. MaxBios /\ 1 \in 0 .. MaxBios
BY BiosAssumption

\* Index arithmetic: a successor, a difference and a slot are in range.
LEMMA SuccFacts ==
  \A i \in Index : Succ(i) \in Index /\ Succ(i) = IF i = IdxMod - 1 THEN 0 ELSE i + 1
BY Sizes DEF Succ, Index

LEMMA SubFacts ==
  \A i, j \in Index :
    /\ Sub(i, j) \in Index
    /\ Sub(i, j) = IF i >= j THEN i - j ELSE i - j + IdxMod
BY Sizes DEF Sub, Index

LEMMA AtFacts == \A i \in Index : At(i) \in Slot
BY Sizes DEF At, Slot, Index

LEMMA NoEntryType == NoEntry \in Entry
BY Sizes DEF NoEntry, Entry

\* What a fresh ring, back end and pool are made of.
LEMMA FreshTypes ==
  /\ SharedRingInit \in SringType /\ FreshBackend \in BeType
  /\ FreePending \in PendType
  /\ FreshShadow \in [Slot -> ShadowType]
<1>1. SharedRingInit \in SringType
  BY Sizes, NoEntryType DEF SharedRingInit, SringType
<1>2. FreshBackend \in BeType
  BY Sizes DEF FreshBackend, BeType
<1>3. FreePending \in PendType
  BY Sizes DEF FreePending, PendType
<1>4. FreshShadow \in [Slot -> ShadowType]
  BY Sizes DEF FreshShadow, ShadowType
<1> QED BY <1>1, <1>2, <1>3, <1>4

\* kick_pending_request_queues, flush_requests and `again' keep the type.
LEMMA KickedType ==
  ASSUME NEW f \in FeType
  PROVE  Kicked(f) \in FeType
BY DEF Kicked, FeType

-----------------------------------------------------------------------------
\* blkif_recover's order: the n entries in use have the ranks 0 .. n - 1.
Used == {i \in Slot : InUse(i)}
Rank(i) == Cardinality({j \in Used : j < i})
Nth(k) == CHOOSE i \in Used : Rank(i) = k

\* The slots of the ring, and the shadow entries in use.
LEMMA SlotFinite == IsFiniteSet(Slot) /\ Cardinality(Slot) = RingSize
<1>1. /\ 0 \in Int /\ RingSize - 1 \in Int /\ ~ (0 > RingSize - 1)
      /\ RingSize - 1 - 0 + 1 = RingSize
  BY Sizes
<1>2. /\ IsFiniteSet(0 .. RingSize - 1)
      /\ Cardinality(0 .. RingSize - 1) =
           IF 0 > RingSize - 1 THEN 0 ELSE RingSize - 1 - 0 + 1
  BY <1>1, FS_Interval, Zenon
<1> QED BY <1>1, <1>2 DEF Slot

LEMMA UsedFinite ==
  /\ Used \subseteq Slot /\ IsFiniteSet(Used)
  /\ Cardinality(Used) \in 0 .. RingSize
<1>1. Used \in SUBSET Slot
  BY DEF Used
<1>2. IsFiniteSet(Used) /\ Cardinality(Used) <= Cardinality(Slot)
  BY <1>1, SlotFinite, FS_Subset
<1>3. Cardinality(Used) \in Nat
  BY <1>2, FS_CardinalityType
<1> QED BY <1>1, <1>2, <1>3, SlotFinite, Sizes

\* Rank numbers the entries in use in the order of the shadow table, ...
LEMMA RankOrder ==
  /\ \A i \in Used : Rank(i) \in 0 .. Cardinality(Used) - 1
  /\ \A i, j \in Used : i < j => Rank(i) < Rank(j)
<1> DEFINE S(i) == {j \in Used : j < i}
<1>0. Used \subseteq Int
  BY UsedFinite, Sizes
<1>1. \A i \in Used : IsFiniteSet(S(i)) /\ Cardinality(S(i)) \in Nat
  <2> TAKE i \in Used
  <2>1. S(i) \in SUBSET Used
    OBVIOUS
  <2> HIDE DEF S
  <2> QED BY <2>1, UsedFinite, FS_Subset, FS_CardinalityType
<1>2. ASSUME NEW T, IsFiniteSet(T), NEW U \in SUBSET T, NEW x \in T, x \notin U
      PROVE  Cardinality(U) < Cardinality(T)
  <2>1. /\ IsFiniteSet(U) /\ Cardinality(U) <= Cardinality(T)
        /\ Cardinality(T) = Cardinality(U) => T = U
    BY <1>2, FS_Subset
  <2>2. Cardinality(U) \in Nat /\ Cardinality(T) \in Nat
    BY <1>2, <2>1, FS_CardinalityType
  <2>3. T # U
    BY <1>2
  <2> QED BY <2>1, <2>2, <2>3
<1>3. \A i \in Used : Cardinality(S(i)) < Cardinality(Used)
  <2> TAKE i \in Used
  <2>1. S(i) \in SUBSET Used /\ i \notin S(i) /\ IsFiniteSet(Used)
    BY <1>0, UsedFinite
  <2> HIDE DEF S
  <2> QED BY <1>2, <2>1
<1>4. ASSUME NEW i \in Used, NEW j \in Used, i < j
      PROVE  Cardinality(S(i)) < Cardinality(S(j))
  <2>0. ~ (i < i) /\ \A x \in Used : x < i => x < j
    BY <1>0, <1>4
  <2>1. S(i) \in SUBSET S(j) /\ i \in S(j) /\ i \notin S(i)
    BY <1>4, <2>0
  <2> HIDE DEF S
  <2> QED BY <1>1, <1>2, <2>1
<1>5. \A i : Rank(i) = Cardinality(S(i))
  BY DEF Rank
<1> HIDE DEF S
<1>6. \A i \in Used : Rank(i) \in 0 .. Cardinality(Used) - 1
  BY <1>1, <1>3, <1>5, UsedFinite, Sizes
<1>7. \A i, j \in Used : i < j => Rank(i) < Rank(j)
  BY <1>4, <1>5
<1> QED BY <1>6, <1>7

\* ... and Nth is its inverse.
LEMMA NthFacts ==
  ASSUME NEW k \in 0 .. Cardinality(Used) - 1
  PROVE  Nth(k) \in Used /\ Rank(Nth(k)) = k
<1> DEFINE n == Cardinality(Used)
           f == [i \in Used |-> Rank(i)]
           T == 0 .. n - 1
<1>1. n \in Nat /\ Used \subseteq Int
  BY UsedFinite, Sizes
<1>2. f \in [Used -> T]
  BY RankOrder
<1>3. \A i, j \in Used : f[i] = f[j] => i = j
  <2> SUFFICES ASSUME NEW i \in Used, NEW j \in Used, Rank(i) = Rank(j), i # j
               PROVE  FALSE
    OBVIOUS
  <2>1. i < j \/ j < i
    BY <1>1
  <2>2. Rank(i) < Rank(j) \/ Rank(j) < Rank(i)
    BY <2>1, RankOrder
  <2>3. Rank(i) \in Int /\ Rank(j) \in Int
    BY RankOrder
  <2> QED BY <2>2, <2>3
<1>4. IsFiniteSet(T) /\ Cardinality(T) = n
  <2> HIDE DEF f
  <2>1. /\ 0 \in Int /\ n - 1 \in Int /\ n - 1 - 0 + 1 = n
        /\ 0 > n - 1 => n = 0
    BY <1>1
  <2> HIDE DEF n
  <2>2. /\ IsFiniteSet(0 .. n - 1)
        /\ Cardinality(0 .. n - 1) = IF 0 > n - 1 THEN 0 ELSE n - 1 - 0 + 1
    BY <2>1, FS_Interval, Zenon
  <2> QED BY <2>1, <2>2
<1>5. f \in Injection(Used, T)
  BY <1>2, <1>3 DEF Injection, IsInjective
<1>6. f \in Surjection(Used, T)
  <2>1. IsFiniteSet(T) /\ Cardinality(Used) = Cardinality(T)
    BY <1>4
  <2> HIDE DEF f, T, n
  <2> QED BY <1>5, <2>1, FS_Injection
<1>7. k \in T
  OBVIOUS
<1>8. PICK i \in Used : f[i] = k
  BY <1>6, <1>7 DEF Surjection
<1>9. Rank(i) = k
  BY <1>8
<1> QED BY <1>9 DEF Nth

\* blkif_recover in these terms.
LEMMA RecoverStep ==
  Recover =>
    /\ recovery = "requeue" /\ recovery' = "connect"
    /\ shadow' = [k \in Slot |->
                     IF k < Cardinality(Used)
                     THEN [id |-> k, request |-> shadow[Nth(k)].request]
                     ELSE FreshShadow[k]]
    /\ sring' = [sring EXCEPT !.ring = [k \in Slot |->
                     IF k < Cardinality(Used)
                     THEN [id |-> k, req |-> shadow[Nth(k)].request, ok |-> FALSE]
                     ELSE sring.ring[k]]]
    /\ fe' = [fe EXCEPT !.req_prod_pvt = Cardinality(Used),
                        !.shadow_free = Cardinality(Used)]
    /\ UNCHANGED <<be, pend, ring_lock, status, executed, outcome>>
BY DEF Recover, Used, Rank, Nth, beVars, done

\* The entries of the ring, one of which is written.
LEMMA RingWrite ==
  ASSUME sring \in SringType, NEW i \in Index, NEW e \in Entry
  PROVE  [sring EXCEPT !.ring[At(i)] = e] \in SringType
<1>1. At(i) \in Slot
  BY AtFacts
<1>2. [sring.ring EXCEPT ![At(i)] = e] \in [Slot -> Entry]
  BY <1>1 DEF SringType
<1> QED BY <1>2 DEF SringType

\* A step of one entry of the pool.
LEMMA PendOne ==
  ASSUME pend \in [PendingReq -> PendType], NEW p \in PendingReq,
         NEW q \in PendType, pend' = [pend EXCEPT ![p] = q]
  PROVE  pend' \in [PendingReq -> PendType]
OBVIOUS

\* The block layer and blkfront up to the notification.
LEMMA TypeRequest ==
  ASSUME Typed,
         \/ BlockLayer \/ (\E r \in Request : QueueRequest(r))
         \/ GrantShortage \/ RequestsDone \/ NotifyBackend
         \/ GrantsFreed \/ RestartQueue
  PROVE  Typed'
<1> USE DEF feVars, beVars, done
<1> USE DEF Typed
<1>1. ASSUME NEW f \in FeType, NEW after \in {"idle", "kick"}, PushRequests(f, after)
      PROVE  sring' \in SringType /\ fe' \in FeType
  BY <1>1 DEF PushRequests, SringType, FeType
<1>2. ASSUME NEW f \in FeType, EndRequest(f)
      PROVE  sring' \in SringType /\ fe' \in FeType
  <2>1. [f EXCEPT !.pc = "idle"] \in FeType
    BY DEF FeType
  <2> QED BY <1>1, <1>2, <2>1 DEF EndRequest
<1>3. CASE BlockLayer
  <2>1. [fe EXCEPT !.pc = "request", !.queued = FALSE] \in FeType
    BY DEF FeType
  <2> QED BY <1>3, <2>1 DEF BlockLayer, RunQueue, Submit, SubmitAtBack, Queued
<1>4. ASSUME NEW r \in Request, QueueRequest(r)
      PROVE  Typed'
  <2> DEFINE id == fe.shadow_free
             e == [id |-> id, req |-> r, ok |-> FALSE]
             f == [fe EXCEPT !.shadow_free = shadow[id].id,
                        !.req_prod_pvt = Succ(fe.req_prod_pvt),
                        !.queued = TRUE]
  <2>1. /\ id \in Slot /\ shadow' = [shadow EXCEPT ![id] = [id |-> id, request |-> r]]
        /\ sring' = [sring EXCEPT !.ring[At(fe.req_prod_pvt)] = e]
        /\ fe' = f
        /\ UNCHANGED <<recovery, be, pend, ring_lock, status, executed, outcome>>
    BY <1>4 DEF QueueRequest
  <2>2. e \in Entry /\ fe.req_prod_pvt \in Index
    BY <2>1 DEF Entry, FeType
  <2>3. sring' \in SringType
    <3> HIDE DEF e, id
    <3>1. [sring EXCEPT !.ring[At(fe.req_prod_pvt)] = e] \in SringType
      BY <2>2, RingWrite
    <3> QED BY <2>1, <3>1
  <2>4. shadow[id].id \in Slot \union {EndOfList} /\ Succ(fe.req_prod_pvt) \in Index
    BY <2>1, <2>2, SuccFacts DEF ShadowType
  <2>5. f \in FeType
    BY <2>4 DEF FeType
  <2>6. [id |-> id, request |-> r] \in ShadowType
    BY <2>1 DEF ShadowType
  <2> HIDE DEF f, e, id
  <2>7. shadow' \in [Slot -> ShadowType]
    BY <2>1, <2>6
  <2> QED BY <2>1, <2>3, <2>5, <2>7
<1>5. CASE GrantShortage
  <2>1. [fe EXCEPT !.callback = TRUE, !.stopped = TRUE] \in FeType
    BY DEF FeType
  <2> QED BY <1>2, <1>5, <2>1 DEF GrantShortage
<1>6. CASE RequestsDone
  <2>1. [fe EXCEPT !.stopped = fe.stopped \/ Queue # {}] \in FeType
    BY DEF FeType
  <2> QED BY <1>2, <1>6, <2>1 DEF RequestsDone
<1>7. CASE NotifyBackend
  <2> DEFINE f == [fe EXCEPT !.pc = "idle", !.after = "idle", !.old = 0]
             b == [be EXCEPT !.irq = be.irq \/
                 (be.bound /\ CheckNotify(fe.old, sring.req_prod,
                                          sring.req_event))]
  <2>1. f \in FeType
    BY Sizes DEF FeType
  <2>2. b \in BeType
    BY DEF BeType
  <2>3. fe' \in FeType
    BY <1>7, <2>1, KickedType DEF NotifyBackend
  <2>4. be' = b /\ UNCHANGED <<sring, shadow, recovery, pend, ring_lock, status, executed, outcome>>
    BY <1>7 DEF NotifyBackend
  <2> HIDE DEF b
  <2> QED BY <2>2, <2>3, <2>4
<1>8. CASE GrantsFreed
  <2>1. [fe EXCEPT !.callback = FALSE, !.work = TRUE] \in FeType
    BY DEF FeType
  <2> QED BY <1>8, <2>1 DEF GrantsFreed
<1>9. CASE RestartQueue
  <2> DEFINE f == [fe EXCEPT !.work = FALSE]
  <2>1. f \in FeType
    BY DEF FeType
  <2>2. fe' \in FeType
    BY <1>9, <2>1, KickedType DEF RestartQueue
  <2>3. UNCHANGED <<sring, shadow, recovery, be, pend, ring_lock, status, executed, outcome>>
    BY <1>9 DEF RestartQueue
  <2> QED BY <2>2, <2>3
<1> QED BY <1>3, <1>4, <1>5, <1>6, <1>7, <1>8, <1>9

\* blkif_int, and blkfront's connection and recovery.
LEMMA TypeResponse ==
  ASSUME Typed,
         \/ Interrupt \/ ConsumeResponse \/ ConsumedAll \/ SetRspEvent \/ Retest
         \/ Connect \/ Resume \/ Recovery
  PROVE  Typed'
<1> USE DEF feVars, beVars, done
<1>0. /\ sring \in SringType /\ fe \in FeType
      /\ fe.rsp_cons \in Index /\ sring.rsp_prod \in Index
      /\ Succ(fe.rsp_cons) \in Index
  BY SuccFacts DEF Typed, FeType, SringType
<1>1. ASSUME NEW f \in FeType PROVE Again(f) \in FeType
  BY <1>0 DEF Again, FeType
<1>2. [sring EXCEPT !.rsp_event = Succ(fe.rsp_cons)] \in SringType
  BY <1>0 DEF SringType
<1>3. ASSUME sring' \in SringType, fe' \in FeType,
             UNCHANGED <<shadow, recovery, be, pend, ring_lock, status, executed,
                         outcome>>
      PROVE  Typed'
  BY <1>3 DEF Typed
<1>4. CASE Interrupt
  <2>1. [fe EXCEPT !.irq = FALSE] \in FeType
    BY <1>0 DEF FeType
  <2>2. fe' \in FeType
    BY <1>1, <1>4, <2>1 DEF Interrupt
  <2> QED BY <1>0, <1>3, <1>4, <2>2 DEF Interrupt
<1>5. CASE ConsumeResponse
  <2> DEFINE rsp == sring.ring[At(fe.rsp_cons)]
             r == shadow[rsp.id].request
             f == [fe EXCEPT !.shadow_free = rsp.id,
                             !.rsp_cons = Succ(fe.rsp_cons)]
             s == [id |-> fe.shadow_free, request |-> NoRequest]
  <2>1. rsp.id \in Slot
    BY <1>0, AtFacts DEF SringType, Entry
  <2>2. f \in FeType
    BY <1>0, <2>1 DEF FeType
  <2>3. s \in ShadowType
    BY <1>0 DEF FeType, ShadowType
  <2>4. /\ fe' = f /\ sring' = [sring EXCEPT !.ring[At(fe.rsp_cons)] = NoEntry]
        /\ shadow' = [shadow EXCEPT ![rsp.id] = s]
        /\ r \in Request /\ status' = [status EXCEPT ![r] = "idle"]
        /\ outcome' \in {"ok", "error"} /\ executed' = executed \ {r}
        /\ UNCHANGED <<recovery, be, pend, ring_lock>>
    BY <1>5 DEF ConsumeResponse, Freed, Taken
  <2>5. sring' \in SringType
    BY <1>0, <2>4, NoEntryType, RingWrite
  <2> HIDE DEF f, s, r, rsp
  <2>6. shadow' \in [Slot -> ShadowType] /\ status' \in [Request -> {"idle", "pending"}]
    BY <2>1, <2>3, <2>4 DEF Typed
  <2> QED BY <2>2, <2>4, <2>5, <2>6 DEF Typed
<1>6. CASE ConsumedAll
  <2> DEFINE f == [fe EXCEPT !.rp = 0]
  <2>1. f \in FeType
    BY <1>0, Sizes DEF FeType
  <2>2. [f EXCEPT !.pc = "event"] \in FeType
    BY <2>1 DEF FeType
  <2>3. Kicked(f) \in FeType /\ Again(f) \in FeType
    BY <1>1, <2>1, KickedType
  <2>4. sring' \in SringType /\ fe' \in FeType
    BY <1>0, <1>2, <1>6, <2>2, <2>3 DEF ConsumedAll
  <2> QED BY <1>3, <1>6, <2>4 DEF ConsumedAll
<1>7. CASE SetRspEvent
  <2>1. [fe EXCEPT !.pc = "retest"] \in FeType
    BY <1>0 DEF FeType
  <2> QED BY <1>2, <1>3, <1>7, <2>1 DEF SetRspEvent
<1>8. CASE Retest
  <2>1. fe' \in FeType
    BY <1>0, <1>1, <1>8, KickedType DEF Retest
  <2> QED BY <1>0, <1>3, <1>8, <2>1 DEF Retest
<1>9. CASE Connect
  <2>1. [fe EXCEPT !.connected = "connected"] \in FeType
    BY <1>0 DEF FeType
  <2> QED BY <1>0, <1>3, <1>9, <2>1, KickedType DEF Connect
<1>10. CASE Resume
  <2>1. [fe EXCEPT !.connected = "suspended", !.stopped = TRUE,
                 !.callback = FALSE, !.work = FALSE, !.irq = FALSE,
                 !.req_prod_pvt = 0, !.rsp_cons = 0] \in FeType
    BY <1>0, Sizes DEF FeType
  <2> QED BY <1>10, <2>1, FreshTypes DEF Resume, Typed
<1>11. CASE Recover
  <2> DEFINE n == Cardinality(Used)
  <2>1. n \in 0 .. RingSize
    BY UsedFinite
  <2>2. n \in Index /\ n \in Slot \union {EndOfList}
    BY <2>1, Sizes DEF Slot, EndOfList
  <2>3. fe' \in FeType
    <3> HIDE DEF n
    <3>1. [fe EXCEPT !.req_prod_pvt = n, !.shadow_free = n] \in FeType
      BY <1>0, <2>2 DEF FeType
    <3> QED BY <1>11, <3>1, RecoverStep DEF n
  <2>4. ASSUME NEW k \in Slot, k < n
        PROVE  shadow[Nth(k)].request \in Request \union {NoRequest}
    <3>1. k \in 0 .. n - 1
      BY <2>1, <2>4, Sizes DEF Slot
    <3>2. Nth(k) \in Slot
      BY <3>1, NthFacts, UsedFinite
    <3> QED BY <3>2 DEF Typed, ShadowType
  <2>5. shadow' \in [Slot -> ShadowType]
    <3> DEFINE s(k) == IF k < n
                     THEN [id |-> k, request |-> shadow[Nth(k)].request]
                     ELSE FreshShadow[k]
    <3>1. \A k \in Slot : s(k) \in ShadowType
      BY <2>4, FreshTypes DEF ShadowType
    <3>2. shadow' = [k \in Slot |-> s(k)]
      BY <1>11, RecoverStep
    <3> HIDE DEF s
    <3> QED BY <3>1, <3>2
  <2>6. sring' \in SringType
    <3> DEFINE s(k) == IF k < n
                     THEN [id |-> k, req |-> shadow[Nth(k)].request, ok |-> FALSE]
                     ELSE sring.ring[k]
               rng == [k \in Slot |-> s(k)]
    <3>1. \A k \in Slot : s(k) \in Entry
      BY <1>0, <2>4 DEF Entry, SringType
    <3>2. sring' = [sring EXCEPT !.ring = rng]
      BY <1>11, RecoverStep
    <3> HIDE DEF s
    <3>3. rng \in [Slot -> Entry]
      BY <3>1
    <3> HIDE DEF rng
    <3> QED BY <1>0, <3>2, <3>3 DEF SringType
  <2> QED BY <1>11, <2>3, <2>5, <2>6, RecoverStep DEF Typed
<1>12. CASE RecoverConnect
  <2>1. sring' \in SringType /\ fe' \in FeType
    BY <1>0, <1>12 DEF RecoverConnect, PushRequests, SringType, FeType
  <2> QED BY <1>12, <2>1 DEF RecoverConnect, Typed
<1> QED
  BY <1>4, <1>5, <1>6, <1>7, <1>8, <1>9, <1>10, <1>11, <1>12 DEF Recovery

\* The thread of blkback.
LEMMA TypeThread ==
  ASSUME Typed, BiosCounted,
         BackendConnect \/ BackendInterrupt \/ Thread
  PROVE  Typed'
<1> USE DEF feVars, beVars, done
<1>0. sring \in SringType /\ be \in BeType /\ be.req_cons \in Index
  BY DEF Typed, BeType
<1>1. ASSUME be' \in BeType, UNCHANGED <<sring, feVars, pend, ring_lock, status, done>>
      PROVE  Typed'
  BY <1>1 DEF Typed
<1>2. CASE BackendConnect
  <2>1. [be EXCEPT !.bound = TRUE, !.irq = TRUE] \in BeType
    BY <1>0 DEF BeType
  <2> QED BY <1>1, <1>2, <2>1 DEF BackendConnect
<1>3. CASE BackendInterrupt
  <2>1. [be EXCEPT !.irq = FALSE, !.waiting_reqs = TRUE] \in BeType
    BY <1>0 DEF BeType
  <2> QED BY <1>1, <1>3, <2>1 DEF BackendInterrupt
<1>4. CASE WaitEvents
  <2>1. /\ [be EXCEPT !.pc = "pool"] \in BeType
        /\ [be EXCEPT !.pc = "read", !.waiting_reqs = FALSE] \in BeType
    BY <1>0 DEF BeType
  <2> QED BY <1>1, <1>4, <2>1 DEF WaitEvents
<1>5. CASE ReadRequests
  <2>1. [be EXCEPT !.rp = sring.req_prod, !.pc = "loop"] \in BeType
    BY <1>0 DEF BeType, SringType
  <2> QED BY <1>1, <1>5, <2>1 DEF ReadRequests
<1>6. CASE PoolEmpty
  <2>1. [be EXCEPT !.pc = "wait", !.waiting_reqs = TRUE, !.rp = 0] \in BeType
    BY <1>0, Sizes DEF BeType
  <2> QED BY <1>1, <1>6, <2>1 DEF PoolEmpty
<1>7. CASE LoopDone
  <2>1. [be EXCEPT !.pc = "wait", !.rp = 0] \in BeType
    BY <1>0, Sizes DEF BeType
  <2> QED BY <1>1, <1>7, <2>1 DEF LoopDone
<1>8. ASSUME NEW p \in PendingReq,
             \/ TakeRequest(p) \/ DispatchFails(p) \/ SubmitBio(p)
             \/ SubmitLastBio(p) \/ SubmitFails(p)
      PROVE  Typed'
  <2> DEFINE q == pend[p]
  <2>1. /\ q \in PendType /\ MaxBios \in Nat /\ MaxBios > 0
        /\ InOrder(q) /\ pend \in [PendingReq -> PendType]
    BY Sizes DEF Typed, BiosCounted
  <2>2. ASSUME NEW x \in {"loop", "submit", "respond"}
        PROVE  [be EXCEPT !.pc = x] \in BeType
    BY <1>0 DEF BeType
  <2>3. CASE TakeRequest(p)
    <3> DEFINE e == sring.ring[At(be.req_cons)]
               n == [FreePending EXCEPT !.pc = "submit", !.id = e.id, !.req = e.req,
                                      !.left = MaxBios - 1, !.pendcnt = 1]
               b == [be EXCEPT !.req_cons = Succ(be.req_cons), !.pc = "submit"]
    <3>1. e \in Entry
      BY <1>0, AtFacts DEF SringType
    <3>2. n \in PendType
      BY <3>1, Counts DEF PendType, FreePending, Entry
    <3>3. b \in BeType
      BY <1>0, SuccFacts DEF BeType
    <3>4. /\ pend' = [pend EXCEPT ![p] = n] /\ be' = b
          /\ sring' = [sring EXCEPT !.ring[At(be.req_cons)] = NoEntry]
          /\ UNCHANGED <<feVars, ring_lock, status, done>>
      BY <2>3 DEF TakeRequest, Taken
    <3>5. sring' \in SringType
      BY <1>0, <3>4, RingWrite, NoEntryType
    <3> HIDE DEF n, b
    <3>6. pend' \in [PendingReq -> PendType]
      BY <2>1, <3>2, <3>4, PendOne
    <3> QED BY <3>3, <3>4, <3>5, <3>6 DEF Typed
  <2>4. CASE DispatchFails(p)
    <3> DEFINE n == [q EXCEPT !.pc = "respond", !.left = 0, !.ok = FALSE,
                              !.pendcnt = 0, !.own = TRUE]
    <3>1. n \in PendType
      BY <2>1, Counts DEF PendType
    <3>2. /\ pend' = [pend EXCEPT ![p] = n] /\ be' = [be EXCEPT !.pc = "respond"]
          /\ UNCHANGED <<sring, feVars, ring_lock, status, done>>
      BY <2>4 DEF DispatchFails
    <3> HIDE DEF n
    <3>3. pend' \in [PendingReq -> PendType]
      BY <2>1, <3>1, <3>2, PendOne
    <3> QED BY <2>2, <3>2, <3>3 DEF Typed
  <2>5. CASE SubmitBio(p)
    <3> DEFINE n == [q EXCEPT !.left = q.left - 1, !.pendcnt = q.pendcnt + 1,
                              !.bios = q.bios + 1]
    <3>1. q.pc = "submit" /\ q.left > 0
      BY <2>5 DEF SubmitBio
    <3>2. /\ q.left - 1 \in 0 .. MaxBios - 1 /\ q.pendcnt + 1 \in 0 .. MaxBios
          /\ q.bios + 1 \in 0 .. MaxBios
      BY <2>1, <3>1 DEF PendType, InOrder
    <3>3. n \in PendType
      BY <2>1, <3>2, Counts DEF PendType
    <3>4. /\ pend' = [pend EXCEPT ![p] = n]
          /\ UNCHANGED <<sring, feVars, be, ring_lock, status, done>>
      BY <2>5 DEF SubmitBio
    <3> HIDE DEF n
    <3>5. pend' \in [PendingReq -> PendType]
      BY <2>1, <3>3, <3>4, PendOne
    <3> QED BY <3>4, <3>5 DEF Typed
  <2>6. CASE SubmitLastBio(p)
    <3> DEFINE n == [q EXCEPT !.pc = "io", !.left = 0, !.bios = q.bios + 1]
    <3>1. q.pc = "submit"
      BY <2>6 DEF SubmitLastBio
    <3>2. q.bios + 1 \in 0 .. MaxBios
      BY <2>1, <3>1 DEF PendType, InOrder
    <3>3. n \in PendType
      BY <2>1, <3>2, Counts DEF PendType
    <3>4. /\ pend' = [pend EXCEPT ![p] = n] /\ be' = [be EXCEPT !.pc = "loop"]
          /\ UNCHANGED <<sring, feVars, ring_lock, status, done>>
      BY <2>6 DEF SubmitLastBio
    <3> HIDE DEF n
    <3>5. pend' \in [PendingReq -> PendType]
      BY <2>1, <3>3, <3>4, PendOne
    <3> QED BY <2>2, <3>4, <3>5 DEF Typed
  <2>7. CASE SubmitFails(p)
    <3> DEFINE o == q.pendcnt = 1
               f == [q EXCEPT !.left = 0, !.own = o]
               n == [f EXCEPT !.ok = f.ok /\ ~TRUE, !.pendcnt = f.pendcnt - 1,
                              !.pc = IF f.pendcnt - 1 = 0 THEN "respond" ELSE "io"]
    <3>1. q.pc = "submit"
      BY <2>7 DEF SubmitFails
    <3>2. q.pendcnt - 1 \in 0 .. MaxBios
      BY <2>1, <3>1 DEF PendType, InOrder
    <3>3. o \in BOOLEAN
      OBVIOUS
    <3>4. pend' = [pend EXCEPT ![p] = n]
      BY <2>7 DEF SubmitFails, EndBlockIo
    <3> HIDE DEF o
    <3>5. f \in PendType /\ f.pendcnt = q.pendcnt
      BY <2>1, <3>3, Counts DEF PendType
    <3>6. n \in PendType
      <4> HIDE DEF f
      <4> QED BY <2>1, <3>2, <3>5 DEF PendType
    <3>7. /\ be' \in BeType
          /\ UNCHANGED <<sring, feVars, ring_lock, status, outcome>>
      BY <2>2, <2>7 DEF SubmitFails, EndBlockIo, Typed
    <3> HIDE DEF n
    <3>8. pend' \in [PendingReq -> PendType]
      BY <2>1, <3>4, <3>6, PendOne
    <3> QED BY <3>7, <3>8 DEF Typed
  <2> QED BY <1>8, <2>3, <2>4, <2>5, <2>6, <2>7
<1> QED
  BY <1>2, <1>3, <1>4, <1>5, <1>6, <1>7, <1>8 DEF Thread

\* make_response and the completion of bios.
LEMMA TypeRespond ==
  ASSUME Typed, BiosCounted, NEW p \in PendingReq,
         MakeResponse(p) \/ \E error \in BOOLEAN : BioDone(p, error)
  PROVE  Typed'
<1> USE DEF feVars, beVars, done
<1> DEFINE q == pend[p]
<1>0. /\ sring \in SringType /\ be \in BeType /\ fe \in FeType
      /\ be.req_cons \in Index /\ be.rsp_prod_pvt \in Index
      /\ q \in PendType /\ InOrder(q) /\ pend \in [PendingReq -> PendType]
  BY DEF Typed, BeType, BiosCounted
<1>1. ASSUME NEW n \in PendType, pend' = [pend EXCEPT ![p] = n],
             sring' \in SringType, be' \in BeType, fe' \in FeType,
             ring_lock' \in SUBSET PendingReq,
             UNCHANGED <<shadow, recovery, status, outcome>>
      PROVE  Typed'
  <2>1. pend' \in [PendingReq -> PendType]
    BY <1>0, <1>1, PendOne
  <2> QED BY <1>1, <2>1 DEF Typed
<1>2. ring_lock \in SUBSET PendingReq
  BY DEF Typed
<1>3. ASSUME NEW x \in {"tail", "final", "plain", "event", "retest"}
      PROVE  [q EXCEPT !.pc = x] \in PendType
  BY <1>0 DEF PendType
<1>4. ASSUME NEW x \in {"notify", "release"}
      PROVE  [FreePending EXCEPT !.pc = x, !.own = q.own] \in PendType
  <2>1. q.own \in BOOLEAN
    BY <1>0 DEF PendType
  <2> QED BY <2>1, FreshTypes DEF PendType, FreePending
<1>5. CASE PushResponse(p)
  <2> DEFINE e == [id |-> q.id, req |-> NoRequest, ok |-> q.ok]
             s == [sring EXCEPT !.ring[At(be.rsp_prod_pvt)] = e]
  <2>1. e \in Entry
    BY <1>0 DEF Entry, PendType
  <2>2. s \in SringType
    <3> HIDE DEF e
    <3> QED BY <1>0, <2>1, RingWrite
  <2>3. [s EXCEPT !.rsp_prod = Succ(be.rsp_prod_pvt)] \in SringType
    <3> HIDE DEF s
    <3> QED BY <1>0, <2>2, SuccFacts DEF SringType
  <2>4. sring' = [s EXCEPT !.rsp_prod = Succ(be.rsp_prod_pvt)]
    BY <1>0, <1>5 DEF PushResponse, SringType
  <2>5. [be EXCEPT !.rsp_prod_pvt = Succ(be.rsp_prod_pvt)] \in BeType
    BY <1>0, SuccFacts DEF BeType
  <2>6. /\ pend' = [pend EXCEPT ![p] = [FreePending EXCEPT !.pc = "notify", !.own = q.own]]
        /\ be' \in BeType /\ ring_lock' \in SUBSET PendingReq
        /\ UNCHANGED <<fe, shadow, recovery, status, executed, outcome>>
    BY <1>5, <2>5 DEF PushResponse, RespStep
  <2> HIDE DEF s
  <2> QED BY <1>0, <1>1, <1>2, <1>4, <2>3, <2>4, <2>6
<1>6. CASE CheckRspEvent(p)
  <2> DEFINE v == CheckNotify(Sub(sring.rsp_prod, 1), sring.rsp_prod,
                              sring.rsp_event)
             n == [q EXCEPT !.pc = "tail", !.notify = v]
  <2>1. v \in BOOLEAN
    BY DEF CheckNotify
  <2>2. /\ pend' = [pend EXCEPT ![p] = n]
        /\ UNCHANGED <<sring, be, ring_lock, fe, shadow, recovery, status, executed,
                       outcome>>
    BY <1>6 DEF CheckRspEvent, RespStep
  <2> HIDE DEF v
  <2>3. n \in PendType
    BY <1>0, <2>1 DEF PendType
  <2> HIDE DEF n
  <2> QED BY <1>0, <1>1, <1>2, <2>2, <2>3
<1>7. CASE TailCheck(p)
  <2>1. /\ \/ pend' = [pend EXCEPT ![p] = [q EXCEPT !.pc = "final"]]
           \/ pend' = [pend EXCEPT ![p] = [q EXCEPT !.pc = "plain"]]
        /\ UNCHANGED <<sring, be, ring_lock, fe, shadow, recovery, status, executed,
                       outcome>>
    BY <1>7 DEF TailCheck, RespStep
  <2> QED BY <1>0, <1>1, <1>2, <1>3, <2>1
<1>8. ASSUME NEW from, LastTest(p, from) PROVE Typed'
  <2> DEFINE v == UnconsumedRequests > 0
             n == [q EXCEPT !.pc = "tell", !.more = v]
  <2>1. v \in BOOLEAN
    OBVIOUS
  <2>2. /\ pend' = [pend EXCEPT ![p] = n] /\ ring_lock' = {}
        /\ UNCHANGED <<sring, be, fe, shadow, recovery, status, executed, outcome>>
    BY <1>8 DEF LastTest, RespStep
  <2> HIDE DEF v
  <2>3. n \in PendType
    BY <1>0, <2>1 DEF PendType
  <2> HIDE DEF n
  <2> QED BY <1>0, <1>1, <1>2, <2>2, <2>3
<1>9. CASE FinalTest(p) \/ FinalRetest(p) \/ PlainTest(p)
  <2>1. CASE ~ \E from : LastTest(p, from)
    <3>1. /\ pend' = [pend EXCEPT ![p] = [q EXCEPT !.pc = "event"]]
          /\ UNCHANGED <<sring, be, ring_lock, fe, shadow, recovery, status, executed,
                         outcome>>
      BY <1>9, <2>1 DEF FinalTest, FinalRetest, PlainTest, RespStep
    <3> QED BY <1>0, <1>1, <1>2, <1>3, <3>1
  <2> QED BY <1>8, <2>1
<1>10. CASE SetReqEvent(p)
  <2>1. [sring EXCEPT !.req_event = Succ(be.req_cons)] \in SringType
    BY <1>0, SuccFacts DEF SringType
  <2>2. /\ pend' = [pend EXCEPT ![p] = [q EXCEPT !.pc = "retest"]]
        /\ sring' \in SringType
        /\ UNCHANGED <<be, ring_lock, fe, shadow, recovery, status, executed, outcome>>
    BY <1>10, <2>1 DEF SetReqEvent, RespStep
  <2> QED BY <1>0, <1>1, <1>2, <1>3, <2>2
<1>11. CASE Tell(p)
  <2> DEFINE b == [be EXCEPT !.waiting_reqs = be.waiting_reqs \/ q.more]
             f == [fe EXCEPT !.irq = fe.irq \/ q.notify]
  <2>1. b \in BeType
    BY <1>0 DEF BeType
  <2>2. f \in FeType
    BY <1>0 DEF FeType
  <2>3. /\ pend' = [pend EXCEPT ![p] = [FreePending EXCEPT !.pc = "release",
                                                          !.own = q.own]]
        /\ be' = b /\ fe' = f
        /\ UNCHANGED <<sring, shadow, recovery, ring_lock, status, executed, outcome>>
    BY <1>11 DEF Tell
  <2> HIDE DEF b, f
  <2> QED BY <1>0, <1>1, <1>2, <1>4, <2>1, <2>2, <2>3
<1>12. CASE FreeReq(p)
  <2>1. \A x \in {"wait", "loop", be.pc} : [be EXCEPT !.pc = x] \in BeType
    BY <1>0 DEF BeType
  <2>2. be' \in BeType
    BY <1>12, <2>1 DEF FreeReq
  <2>3. /\ pend' = [pend EXCEPT ![p] = FreePending]
        /\ UNCHANGED <<sring, fe, shadow, recovery, ring_lock, status, executed, outcome>>
    BY <1>12 DEF FreeReq
  <2> QED BY <1>0, <1>1, <1>2, <2>2, <2>3, FreshTypes
<1>13. ASSUME NEW error \in BOOLEAN, BioDone(p, error) PROVE Typed'
  <2> DEFINE f == [q EXCEPT !.bios = q.bios - 1]
             k == f.ok /\ ~error
             n == [f EXCEPT !.ok = k, !.pendcnt = f.pendcnt - 1,
                            !.pc = IF f.pendcnt - 1 = 0 THEN "respond" ELSE q.pc]
  <2>1. q.bios > 0
    BY <1>13 DEF BioDone
  <2>2. q.bios - 1 \in 0 .. MaxBios /\ q.pendcnt - 1 \in 0 .. MaxBios
    BY <1>0, <2>1, Sizes DEF PendType, InOrder
  <2>3. f \in PendType /\ f.pendcnt = q.pendcnt /\ f.req = q.req
    BY <1>0, <2>2 DEF PendType
  <2>4. /\ pend' = [pend EXCEPT ![p] = n]
        /\ UNCHANGED <<sring, fe, shadow, recovery, be, ring_lock, status, outcome>>
    BY <1>13 DEF BioDone, EndBlockIo
  <2>5. k \in BOOLEAN /\ q.pc \in {"submit", "io"}
    BY <1>0, <2>1 DEF InOrder
  <2> HIDE DEF f, k
  <2>6. n \in PendType
    BY <1>0, <2>2, <2>3, <2>5 DEF PendType
  <2> HIDE DEF n
  <2> QED BY <1>0, <1>1, <1>2, <2>3, <2>4, <2>6
<1> QED
  BY <1>5, <1>6, <1>7, <1>9, <1>10, <1>11, <1>12, <1>13 DEF MakeResponse

-----------------------------------------------------------------------------
(* The pool: who has the thread, and who has blk_ring_lock.                *)

Locking == {"notify", "tail", "final", "plain", "event", "retest"}

\* The thread submits the request, or answers it itself.
Holds(q) == q.pc = "submit" \/ q.own

OwnerOK ==
    /\ \A p \in PendingReq : pend[p].pc = "submit" => be.pc = "submit" /\ ~pend[p].own
    /\ \A p \in PendingReq : pend[p].own =>
          be.pc = "respond" /\ pend[p].pc \notin {"free", "submit", "io"}
    /\ \A p, q \in PendingReq : Holds(pend[p]) /\ Holds(pend[q]) => p = q
    /\ \A p \in PendingReq : pend[p].notify =>
          pend[p].pc \in {"tail", "final", "plain", "event", "retest", "tell"}

LockOK ==
    /\ \A p \in PendingReq : p \in ring_lock <=> pend[p].pc \in Locking
    /\ \A p, q \in ring_lock : p = q

\* What a step of one entry has to keep.
LEMMA OwnerOne ==
  ASSUME Typed, OwnerOK, NEW p \in PendingReq, NEW n \in PendType,
         pend' = [pend EXCEPT ![p] = n],
         n.pc = "submit" => be'.pc = "submit" /\ ~n.own,
         n.own => be'.pc = "respond" /\ n.pc \notin {"free", "submit", "io"},
         n.notify => n.pc \in {"tail", "final", "plain", "event", "retest", "tell"},
         Holds(n) => Holds(pend[p]) \/ be.pc = "loop",
         \/ be'.pc = be.pc \/ be.pc \notin {"submit", "respond"}
         \/ Holds(pend[p])
  PROVE  OwnerOK'
<1>1. /\ pend'[p] = n
      /\ \A r \in PendingReq : r # p => pend'[r] = pend[r]
  BY DEF Typed
<1>2. \A r \in PendingReq : Holds(pend[r]) => be.pc \in {"submit", "respond"}
  BY DEF OwnerOK, Holds
<1>3. \A r \in PendingReq : r # p /\ Holds(pend[r]) => be'.pc = be.pc
  BY <1>2 DEF OwnerOK
<1>4. \A r \in PendingReq : r # p /\ Holds(pend[r]) => ~Holds(n)
  BY <1>2 DEF OwnerOK
<1>5. \A r \in PendingReq :
        pend'[r].pc = "submit" => be'.pc = "submit" /\ ~pend'[r].own
  BY <1>1, <1>3 DEF OwnerOK, Holds
<1>6. \A r \in PendingReq : pend'[r].own =>
          be'.pc = "respond" /\ pend'[r].pc \notin {"free", "submit", "io"}
  BY <1>1, <1>3 DEF OwnerOK, Holds
<1>7. \A r, t \in PendingReq : Holds(pend'[r]) /\ Holds(pend'[t]) => r = t
  BY <1>1, <1>4 DEF OwnerOK
<1>8. \A r \in PendingReq : pend'[r].notify =>
          pend'[r].pc \in {"tail", "final", "plain", "event", "retest", "tell"}
  BY <1>1 DEF OwnerOK
<1> QED BY <1>5, <1>6, <1>7, <1>8 DEF OwnerOK, Holds

\* The same for blk_ring_lock.
LEMMA LockOne ==
  ASSUME Typed, LockOK, NEW p \in PendingReq, NEW n \in PendType,
         pend' = [pend EXCEPT ![p] = n],
         \/ ring_lock' = ring_lock /\ (n.pc \in Locking <=> pend[p].pc \in Locking)
         \/ ring_lock = {} /\ ring_lock' = {p} /\ n.pc \in Locking
         \/ pend[p].pc \in Locking /\ n.pc \notin Locking /\ ring_lock' = {}
  PROVE  LockOK'
<1>1. /\ pend'[p] = n
      /\ \A r \in PendingReq : r # p => pend'[r] = pend[r]
  BY DEF Typed
<1>2. CASE ring_lock' = ring_lock /\ (n.pc \in Locking <=> pend[p].pc \in Locking)
  BY <1>1, <1>2 DEF LockOK
<1>3. CASE ring_lock = {} /\ ring_lock' = {p} /\ n.pc \in Locking
  BY <1>1, <1>3 DEF LockOK
<1>4. CASE pend[p].pc \in Locking /\ n.pc \notin Locking /\ ring_lock' = {}
  BY <1>1, <1>4 DEF LockOK
<1> QED BY <1>2, <1>3, <1>4

\* What a request's I/O changes: not the ring, and of the request only how
\* far it is and how it goes.
LEMMA WorkStep ==
  ASSUME Typed, BiosCounted, OwnerOK, NEW p \in PendingReq,
         \/ DispatchFails(p) \/ SubmitBio(p) \/ SubmitLastBio(p) \/ SubmitFails(p)
         \/ \E error \in BOOLEAN : BioDone(p, error)
  PROVE  /\ \A r \in PendingReq : r # p => pend'[r] = pend[r]
         /\ pend[p].pc \in {"submit", "io"}
         /\ pend'[p].pc \in {"submit", "io", "respond"}
         /\ pend'[p].id = pend[p].id /\ pend'[p].req = pend[p].req
         /\ pend'[p].notify = pend[p].notify
         /\ \/ /\ be' = be /\ pend'[p].own = pend[p].own
               /\ pend'[p].pc = "submit" <=> pend[p].pc = "submit"
            \/ /\ pend[p].pc = "submit" /\ be.pc = "submit"
               /\ be' = [be EXCEPT !.pc = "loop"]
               /\ pend'[p].pc = "io" /\ pend'[p].own = FALSE
            \/ /\ pend[p].pc = "submit" /\ be.pc = "submit"
               /\ be' = [be EXCEPT !.pc = "respond"]
               /\ pend'[p].pc = "respond" /\ pend'[p].own = TRUE
         /\ pend'[p].pc = "respond" /\ pend'[p].ok => pend[p].req \in executed'
         /\ executed' \in {executed, executed \union {pend[p].req}}
         /\ UNCHANGED <<sring, fe, shadow, recovery, ring_lock, status, outcome>>
<1> DEFINE q == pend[p]
<1> USE DEF feVars, done
<1>0. /\ q \in PendType /\ InOrder(q) /\ pend \in [PendingReq -> PendType]
      /\ q.pc = "submit" => be.pc = "submit" /\ q.own = FALSE
  BY DEF Typed, BiosCounted, OwnerOK, PendType
<1>1. CASE DispatchFails(p)
  <2> DEFINE n == [q EXCEPT !.pc = "respond", !.left = 0, !.ok = FALSE,
                            !.pendcnt = 0, !.own = TRUE]
  <2>1. /\ pend' = [pend EXCEPT ![p] = n] /\ q.pc = "submit"
        /\ be' = [be EXCEPT !.pc = "respond"]
        /\ UNCHANGED <<sring, fe, shadow, recovery, ring_lock, status, executed, outcome>>
    BY <1>1 DEF DispatchFails
  <2>2. pend'[p] = n /\ \A r \in PendingReq : r # p => pend'[r] = pend[r]
    BY <1>0, <2>1
  <2>3. /\ n.pc = "respond" /\ n.own = TRUE /\ n.ok = FALSE
        /\ n.id = q.id /\ n.req = q.req /\ n.notify = q.notify
    BY <1>0 DEF PendType
  <2> HIDE DEF n
  <2> QED BY <1>0, <2>1, <2>2, <2>3
<1>2. CASE SubmitBio(p)
  <2> DEFINE n == [q EXCEPT !.left = q.left - 1, !.pendcnt = q.pendcnt + 1,
                            !.bios = q.bios + 1]
  <2>1. /\ pend' = [pend EXCEPT ![p] = n] /\ q.pc = "submit"
        /\ UNCHANGED <<sring, fe, shadow, recovery, be, ring_lock, status, executed,
                       outcome>>
    BY <1>2 DEF SubmitBio
  <2>2. pend'[p] = n /\ \A r \in PendingReq : r # p => pend'[r] = pend[r]
    BY <1>0, <2>1
  <2>3. /\ n.pc = q.pc /\ n.own = q.own
        /\ n.id = q.id /\ n.req = q.req /\ n.notify = q.notify
    BY <1>0 DEF PendType
  <2> HIDE DEF n
  <2> QED BY <1>0, <2>1, <2>2, <2>3
<1>3. CASE SubmitLastBio(p)
  <2> DEFINE n == [q EXCEPT !.pc = "io", !.left = 0, !.bios = q.bios + 1]
  <2>1. /\ pend' = [pend EXCEPT ![p] = n] /\ q.pc = "submit"
        /\ be' = [be EXCEPT !.pc = "loop"]
        /\ UNCHANGED <<sring, fe, shadow, recovery, ring_lock, status, executed, outcome>>
    BY <1>3 DEF SubmitLastBio
  <2>2. pend'[p] = n /\ \A r \in PendingReq : r # p => pend'[r] = pend[r]
    BY <1>0, <2>1
  <2>3. /\ n.pc = "io" /\ n.own = q.own
        /\ n.id = q.id /\ n.req = q.req /\ n.notify = q.notify
    BY <1>0 DEF PendType
  <2> HIDE DEF n
  <2> QED BY <1>0, <2>1, <2>2, <2>3
<1>4. CASE SubmitFails(p)
  <2> DEFINE f == [q EXCEPT !.left = 0, !.own = q.pendcnt = 1]
             n == [f EXCEPT !.ok = f.ok /\ ~TRUE, !.pendcnt = f.pendcnt - 1,
                            !.pc = IF f.pendcnt - 1 = 0 THEN "respond" ELSE "io"]
  <2>1. /\ pend' = [pend EXCEPT ![p] = n] /\ q.pc = "submit"
        /\ be' = [be EXCEPT !.pc = IF q.pendcnt = 1 THEN "respond" ELSE "loop"]
        /\ UNCHANGED <<sring, fe, shadow, recovery, ring_lock, status, executed, outcome>>
    BY <1>4 DEF SubmitFails, EndBlockIo
  <2>2. pend'[p] = n /\ \A r \in PendingReq : r # p => pend'[r] = pend[r]
    BY <1>0, <2>1
  <2>3. /\ f.pendcnt = q.pendcnt /\ f.own = (q.pendcnt = 1)
        /\ f.id = q.id /\ f.req = q.req /\ f.notify = q.notify
        /\ DOMAIN f = DOMAIN q
    BY <1>0 DEF PendType
  <2>4. /\ n.pc = IF f.pendcnt - 1 = 0 THEN "respond" ELSE "io"
        /\ n.own = f.own /\ n.ok = FALSE
        /\ n.id = f.id /\ n.req = f.req /\ n.notify = f.notify
    <3> HIDE DEF f
    <3> QED BY <1>0, <2>3 DEF PendType
  <2>5. q.pendcnt - 1 = 0 <=> q.pendcnt = 1
    BY <1>0 DEF PendType
  <2> HIDE DEF f, n
  <2>6. CASE q.pendcnt = 1
    BY <1>0, <2>1, <2>2, <2>3, <2>4, <2>5, <2>6
  <2>7. CASE q.pendcnt # 1
    BY <1>0, <2>1, <2>2, <2>3, <2>4, <2>5, <2>7
  <2> QED BY <2>6, <2>7
<1>5. ASSUME NEW error \in BOOLEAN, BioDone(p, error)
      PROVE  /\ \A r \in PendingReq : r # p => pend'[r] = pend[r]
             /\ q.pc \in {"submit", "io"}
             /\ pend'[p].pc \in {"submit", "io", "respond"}
             /\ pend'[p].id = q.id /\ pend'[p].req = q.req
             /\ pend'[p].notify = q.notify
             /\ be' = be /\ pend'[p].own = q.own
             /\ pend'[p].pc = "submit" <=> q.pc = "submit"
             /\ pend'[p].pc = "respond" /\ pend'[p].ok => q.req \in executed'
             /\ executed' \in {executed, executed \union {q.req}}
             /\ UNCHANGED <<sring, fe, shadow, recovery, ring_lock, status, outcome>>
  <2> DEFINE f == [q EXCEPT !.bios = q.bios - 1]
             k == f.ok /\ ~error
             n == [f EXCEPT !.ok = k, !.pendcnt = f.pendcnt - 1,
                            !.pc = IF f.pendcnt - 1 = 0 THEN "respond" ELSE q.pc]
  <2>1. q.bios > 0
    BY <1>5 DEF BioDone
  <2>2. /\ q.pc \in {"submit", "io"}
        /\ q.pc = "submit" => q.pendcnt - 1 # 0
    BY <1>0, <2>1 DEF InOrder
  <2>3. /\ f.pendcnt = q.pendcnt /\ f.own = q.own /\ f.id = q.id /\ f.req = q.req
        /\ f.notify = q.notify /\ DOMAIN f = DOMAIN q
    BY <1>0 DEF PendType
  <2>4. /\ pend' = [pend EXCEPT ![p] = n]
        /\ executed' = IF f.pendcnt - 1 = 0 /\ k
                       THEN executed \union {f.req} ELSE executed
        /\ UNCHANGED <<sring, fe, shadow, recovery, be, ring_lock, status, outcome>>
    BY <1>5 DEF BioDone, EndBlockIo
  <2>5. k \in BOOLEAN
    OBVIOUS
  <2> HIDE DEF f, k
  <2>6. /\ n.pc = IF f.pendcnt - 1 = 0 THEN "respond" ELSE q.pc
        /\ n.own = f.own /\ n.ok = k
        /\ n.id = f.id /\ n.req = f.req /\ n.notify = f.notify
    BY <1>0, <2>3, <2>5 DEF PendType
  <2>7. pend'[p] = n /\ \A r \in PendingReq : r # p => pend'[r] = pend[r]
    BY <1>0, <2>4
  <2> HIDE DEF n
  <2>8. pend'[p].pc = "respond" /\ pend'[p].ok => q.req \in executed'
    <3> SUFFICES ASSUME n.pc = "respond", n.ok PROVE q.req \in executed'
      BY <2>7
    <3>1. f.pendcnt - 1 = 0 /\ k
      BY <2>2, <2>5, <2>6
    <3> QED BY <2>3, <2>4, <3>1
  <2>9. executed' \in {executed, executed \union {q.req}}
    BY <2>3, <2>4
  <2>10. /\ pend'[p].id = q.id /\ pend'[p].req = q.req
         /\ pend'[p].notify = q.notify /\ pend'[p].own = q.own
    BY <2>3, <2>6, <2>7
  <2>11. /\ pend'[p].pc \in {"submit", "io", "respond"}
         /\ pend'[p].pc = "submit" <=> q.pc = "submit"
    BY <2>2, <2>3, <2>6, <2>7
  <2> QED BY <2>2, <2>4, <2>7, <2>8, <2>9, <2>10, <2>11
<1> QED BY <1>1, <1>2, <1>3, <1>4, <1>5

\* make_response after the response: nothing but the request's own progress,
\* the lock and req_event.
LEMMA TailStep ==
  ASSUME Typed, NEW p \in PendingReq,
         \/ CheckRspEvent(p) \/ TailCheck(p) \/ FinalTest(p) \/ SetReqEvent(p)
         \/ FinalRetest(p) \/ PlainTest(p)
  PROVE  /\ \A r \in PendingReq : r # p => pend'[r] = pend[r]
         /\ pend[p].pc \in Locking
         /\ pend'[p].pc \in {"tail", "final", "plain", "event", "retest", "tell"}
         /\ pend'[p].own = pend[p].own
         /\ pend[p].pc # "notify" => pend'[p].notify = pend[p].notify
         /\ ring_lock' = IF pend'[p].pc = "tell" THEN {} ELSE ring_lock
         /\ \/ sring' = sring
            \/ sring' = [sring EXCEPT !.req_event = Succ(be.req_cons)]
         /\ UNCHANGED <<be, fe, shadow, recovery, status, executed, outcome>>
<1> DEFINE q == pend[p]
<1> USE DEF feVars, done
<1>0. q \in PendType /\ pend \in [PendingReq -> PendType]
  BY DEF Typed
<1>1. ASSUME NEW n, pend' = [pend EXCEPT ![p] = n]
      PROVE  pend'[p] = n /\ \A r \in PendingReq : r # p => pend'[r] = pend[r]
  BY <1>0, <1>1
<1>2. CASE CheckRspEvent(p)
  <2> DEFINE v == CheckNotify(Sub(sring.rsp_prod, 1), sring.rsp_prod,
                              sring.rsp_event)
             n == [q EXCEPT !.pc = "tail", !.notify = v]
  <2>1. /\ pend' = [pend EXCEPT ![p] = n] /\ q.pc = "notify"
        /\ UNCHANGED <<sring, be, ring_lock, fe, shadow, recovery, status, executed,
                       outcome>>
    BY <1>2 DEF CheckRspEvent, RespStep
  <2> HIDE DEF v
  <2>2. n.pc = "tail" /\ n.own = q.own
    BY <1>0 DEF PendType
  <2> HIDE DEF n
  <2> QED BY <1>1, <2>1, <2>2 DEF Locking
<1>3. ASSUME NEW x \in {"final", "plain", "event", "retest"}
      PROVE  LET n == [q EXCEPT !.pc = x] IN
             n.pc = x /\ n.own = q.own /\ n.notify = q.notify
  BY <1>0 DEF PendType
<1>4. CASE TailCheck(p)
  <2>1. PICK x \in {"final", "plain"} :
          /\ pend' = [pend EXCEPT ![p] = [q EXCEPT !.pc = x]] /\ q.pc = "tail"
          /\ UNCHANGED <<sring, be, ring_lock, fe, shadow, recovery, status, executed,
                         outcome>>
    BY <1>4 DEF TailCheck, RespStep
  <2> DEFINE n == [q EXCEPT !.pc = x]
  <2>2. n.pc = x /\ n.own = q.own /\ n.notify = q.notify
    BY <1>3
  <2> HIDE DEF n
  <2>3. pend' = [pend EXCEPT ![p] = n]
    BY <2>1 DEF n
  <2> QED BY <1>1, <2>1, <2>2, <2>3 DEF Locking
<1>5. CASE SetReqEvent(p) \/ (FinalTest(p) /\ ~LastTest(p, "final"))
  <2>1. PICK x \in {"event", "retest"} :
          /\ pend' = [pend EXCEPT ![p] = [q EXCEPT !.pc = x]]
          /\ q.pc \in {"event", "final"}
          /\ \/ sring' = sring
             \/ sring' = [sring EXCEPT !.req_event = Succ(be.req_cons)]
          /\ UNCHANGED <<be, ring_lock, fe, shadow, recovery, status, executed, outcome>>
    BY <1>5 DEF SetReqEvent, FinalTest, RespStep
  <2> DEFINE n == [q EXCEPT !.pc = x]
  <2>2. n.pc = x /\ n.own = q.own /\ n.notify = q.notify
    BY <1>3
  <2> HIDE DEF n
  <2>3. pend' = [pend EXCEPT ![p] = n]
    BY <2>1 DEF n
  <2> QED BY <1>1, <2>1, <2>2, <2>3 DEF Locking
<1>6. CASE LastTest(p, "final") \/ FinalRetest(p) \/ PlainTest(p)
  <2> DEFINE v == UnconsumedRequests > 0
             n == [q EXCEPT !.pc = "tell", !.more = v]
  <2>1. /\ pend' = [pend EXCEPT ![p] = n] /\ q.pc \in {"final", "retest", "plain"}
        /\ ring_lock' = {}
        /\ UNCHANGED <<sring, be, fe, shadow, recovery, status, executed, outcome>>
    BY <1>6 DEF LastTest, FinalRetest, PlainTest, RespStep
  <2> HIDE DEF v
  <2>2. n.pc = "tell" /\ n.own = q.own /\ n.notify = q.notify
    BY <1>0 DEF PendType
  <2> HIDE DEF n
  <2> QED BY <1>1, <2>1, <2>2 DEF Locking
<1> QED BY <1>2, <1>4, <1>5, <1>6

\* The thread takes a request from the ring.
LEMMA TakeStep ==
  ASSUME Typed, NEW p \in PendingReq, TakeRequest(p)
  PROVE  /\ \A r \in PendingReq : r # p => pend'[r] = pend[r]
         /\ pend[p].pc = "free" /\ pend'[p].pc = "submit"
         /\ pend'[p].id = sring.ring[At(be.req_cons)].id
         /\ pend'[p].req = sring.ring[At(be.req_cons)].req
         /\ pend'[p].own = FALSE /\ pend'[p].notify = FALSE
         /\ be.pc = "loop" /\ be.req_cons # be.rp
         /\ be' = [be EXCEPT !.req_cons = Succ(be.req_cons), !.pc = "submit"]
         /\ sring' = [sring EXCEPT !.ring[At(be.req_cons)] = NoEntry]
         /\ UNCHANGED <<fe, shadow, recovery, ring_lock, status, executed, outcome>>
<1> DEFINE e == sring.ring[At(be.req_cons)]
           n == [FreePending EXCEPT !.pc = "submit", !.id = e.id, !.req = e.req,
                                    !.left = MaxBios - 1, !.pendcnt = 1]
<1>1. /\ pend' = [pend EXCEPT ![p] = n]
      /\ be' = [be EXCEPT !.req_cons = Succ(be.req_cons), !.pc = "submit"]
      /\ sring' = [sring EXCEPT !.ring[At(be.req_cons)] = NoEntry]
      /\ UNCHANGED <<fe, shadow, recovery, ring_lock, status, executed, outcome>>
  BY DEF TakeRequest, Taken, feVars, done
<1>2. be.pc = "loop" /\ be.req_cons # be.rp /\ pend[p].pc = "free"
  BY DEF TakeRequest, LoopEnds, PendingFree
<1>3. /\ n.pc = "submit" /\ n.id = e.id /\ n.req = e.req
      /\ n.own = FALSE /\ n.notify = FALSE
  BY DEF FreePending
<1> HIDE DEF n, e
<1>4. pend'[p] = n /\ \A r \in PendingReq : r # p => pend'[r] = pend[r]
  BY <1>1 DEF Typed
<1>5. /\ pend'[p].id = e.id /\ pend'[p].req = e.req
      /\ pend'[p].pc = "submit" /\ pend'[p].own = FALSE /\ pend'[p].notify = FALSE
  BY <1>3, <1>4
<1> QED BY <1>1, <1>2, <1>4, <1>5 DEF e

\* A response is stored and published, under the lock.
LEMMA PushStep ==
  ASSUME Typed, NEW p \in PendingReq, PushResponse(p)
  PROVE  /\ \A r \in PendingReq : r # p => pend'[r] = pend[r]
         /\ pend[p].pc = "respond" /\ pend'[p].pc = "notify"
         /\ pend'[p].own = pend[p].own /\ pend'[p].notify = FALSE
         /\ ring_lock = {} /\ ring_lock' = {p}
         /\ be' = [be EXCEPT !.rsp_prod_pvt = Succ(be.rsp_prod_pvt)]
         /\ sring'.rsp_prod = Succ(be.rsp_prod_pvt)
         /\ sring'.ring = [sring.ring EXCEPT ![At(be.rsp_prod_pvt)] =
                [id |-> pend[p].id, req |-> NoRequest, ok |-> pend[p].ok]]
         /\ sring'.req_prod = sring.req_prod /\ sring'.req_event = sring.req_event
         /\ sring'.rsp_event = sring.rsp_event
         /\ UNCHANGED <<fe, shadow, recovery, status, executed, outcome>>
<1> DEFINE e == [id |-> pend[p].id, req |-> NoRequest, ok |-> pend[p].ok]
           n == [FreePending EXCEPT !.pc = "notify", !.own = pend[p].own]
<1>0. sring \in SringType /\ pend \in [PendingReq -> PendType]
  BY DEF Typed
<1>1. /\ pend' = [pend EXCEPT ![p] = n] /\ pend[p].pc = "respond"
      /\ be' = [be EXCEPT !.rsp_prod_pvt = Succ(be.rsp_prod_pvt)]
      /\ sring' = [sring EXCEPT !.ring[At(be.rsp_prod_pvt)] = e,
                                !.rsp_prod = Succ(be.rsp_prod_pvt)]
      /\ ring_lock = {} /\ ring_lock' = {p}
      /\ UNCHANGED <<fe, shadow, recovery, status, executed, outcome>>
  BY DEF PushResponse, RespStep, feVars, done
<1>2. n.pc = "notify" /\ n.own = pend[p].own /\ n.notify = FALSE
  BY DEF FreePending
<1> HIDE DEF n, e
<1>3. pend'[p] = n /\ \A r \in PendingReq : r # p => pend'[r] = pend[r]
  BY <1>0, <1>1
<1>4. /\ sring'.rsp_prod = Succ(be.rsp_prod_pvt)
      /\ sring'.ring = [sring.ring EXCEPT ![At(be.rsp_prod_pvt)] = e]
      /\ sring'.req_prod = sring.req_prod /\ sring'.req_event = sring.req_event
      /\ sring'.rsp_event = sring.rsp_event
  BY <1>0, <1>1 DEF SringType
<1> QED BY <1>1, <1>2, <1>3, <1>4 DEF e

\* The work flag and the interrupt, outside the lock; and free_req.
LEMMA TellStep ==
  ASSUME Typed, NEW p \in PendingReq, Tell(p)
  PROVE  /\ \A r \in PendingReq : r # p => pend'[r] = pend[r]
         /\ pend[p].pc = "tell" /\ pend'[p].pc = "release"
         /\ pend'[p].own = pend[p].own /\ pend'[p].notify = FALSE
         /\ be' = [be EXCEPT !.waiting_reqs = be.waiting_reqs \/ pend[p].more]
         /\ fe' = [fe EXCEPT !.irq = fe.irq \/ pend[p].notify]
         /\ UNCHANGED <<sring, shadow, recovery, ring_lock, status, executed, outcome>>
<1> DEFINE n == [FreePending EXCEPT !.pc = "release", !.own = pend[p].own]
<1>1. /\ pend' = [pend EXCEPT ![p] = n] /\ pend[p].pc = "tell"
      /\ be' = [be EXCEPT !.waiting_reqs = be.waiting_reqs \/ pend[p].more]
      /\ fe' = [fe EXCEPT !.irq = fe.irq \/ pend[p].notify]
      /\ UNCHANGED <<sring, shadow, recovery, ring_lock, status, executed, outcome>>
  BY DEF Tell, done
<1>2. n.pc = "release" /\ n.own = pend[p].own /\ n.notify = FALSE
  BY DEF FreePending
<1> HIDE DEF n
<1>3. pend'[p] = n /\ \A r \in PendingReq : r # p => pend'[r] = pend[r]
  BY <1>1 DEF Typed
<1> QED BY <1>1, <1>2, <1>3

\* free_req: the entry is free, and the thread goes on or is woken.
LEMMA FreeStep ==
  ASSUME Typed, OwnerOK, NEW p \in PendingReq, FreeReq(p)
  PROVE  /\ \A r \in PendingReq : r # p => pend'[r] = pend[r]
         /\ pend[p].pc = "release" /\ pend'[p] = FreePending
         /\ \/ be.pc = "pool" /\ pend[p].own = FALSE
               /\ be' = [be EXCEPT !.pc = "wait"]
            \/ be.pc = "respond" /\ pend[p].own = TRUE
               /\ be' = [be EXCEPT !.pc = "loop"]
            \/ be' = be /\ pend[p].own = FALSE
         /\ UNCHANGED <<sring, fe, shadow, recovery, ring_lock, status, executed, outcome>>
<1>0. be \in BeType /\ pend[p].own \in BOOLEAN /\ pend \in [PendingReq -> PendType]
  BY DEF Typed, PendType
<1>1. /\ pend' = [pend EXCEPT ![p] = FreePending] /\ pend[p].pc = "release"
      /\ UNCHANGED <<sring, fe, shadow, recovery, ring_lock, status, executed, outcome>>
  BY DEF FreeReq, feVars, done
<1>2. pend[p].own => be.pc = "respond"
  BY DEF OwnerOK
<1>3. [be EXCEPT !.pc = be.pc] = be
  BY <1>0 DEF BeType
<1>4. CASE pend[p].own
  <2>1. be' = [be EXCEPT !.pc = "loop"]
    BY <1>2, <1>4 DEF FreeReq
  <2> QED BY <1>0, <1>1, <1>2, <1>4, <2>1
<1>5. CASE ~pend[p].own
  <2>1. \/ be.pc = "pool" /\ be' = [be EXCEPT !.pc = "wait"]
        \/ be' = [be EXCEPT !.pc = be.pc]
    BY <1>5 DEF FreeReq
  <2> QED BY <1>0, <1>1, <1>3, <1>5, <2>1
<1> QED BY <1>4, <1>5

-----------------------------------------------------------------------------
\* blkfront and the block layer.
Front ==
    \/ BlockLayer \/ Frontend \/ GrantsFreed \/ RestartQueue \/ Interrupt
    \/ Connect \/ Recovery \/ UNCHANGED vars

\* blkfront touches nothing of blkback but its interrupt.
LEMMA FrontStep ==
  ASSUME Front
  PROVE  /\ UNCHANGED <<pend, ring_lock>>
         /\ \/ be' = be
            \/ /\ NotifyBackend
               /\ be' = [be EXCEPT !.irq = be.irq \/
                            (be.bound /\ CheckNotify(fe.old, sring.req_prod,
                                                     sring.req_event))]
<1> USE DEF beVars
<1>1. CASE BlockLayer
  BY <1>1 DEF BlockLayer, RunQueue, Submit, SubmitAtBack
<1>2. CASE Frontend /\ ~NotifyBackend
  BY <1>2 DEF Frontend, QueueRequest, GrantShortage, RequestsDone, ConsumeResponse,
              ConsumedAll, SetRspEvent, Retest
<1>3. CASE NotifyBackend
  BY <1>3 DEF NotifyBackend
<1>4. CASE GrantsFreed \/ RestartQueue \/ Interrupt \/ Connect
  BY <1>4 DEF GrantsFreed, RestartQueue, Interrupt, Connect
<1>5. CASE Recovery
  BY <1>5 DEF Recovery, Recover, RecoverConnect
<1>6. CASE UNCHANGED vars
  BY <1>6 DEF vars
<1> QED BY <1>1, <1>2, <1>3, <1>4, <1>5, <1>6 DEF Front

Waiting == BackendConnect \/ BackendInterrupt \/ WaitEvents \/ ReadRequests
           \/ PoolEmpty \/ LoopDone

\* The thread and its interrupt: no index of the ring moves.
LEMMA WaitingStep ==
  ASSUME Typed, Waiting
  PROVE  /\ be' \in BeType /\ be'.req_cons = be.req_cons
         /\ be'.rsp_prod_pvt = be.rsp_prod_pvt
         /\ be'.pc # be.pc => be.pc \in {"wait", "read", "loop"}
                              /\ be'.pc \in {"pool", "read", "loop", "wait"}
         /\ UNCHANGED <<sring, fe, shadow, recovery, pend, ring_lock, status, executed,
                        outcome>>
<1>0. be \in BeType /\ sring \in SringType
  BY DEF Typed
<1> USE DEF feVars, done
<1>1. CASE BackendConnect
  BY <1>0, <1>1 DEF BackendConnect, BeType
<1>2. CASE BackendInterrupt
  BY <1>0, <1>2 DEF BackendInterrupt, BeType
<1>3. CASE WaitEvents
  BY <1>0, <1>3 DEF WaitEvents, BeType
<1>4. CASE ReadRequests
  BY <1>0, <1>4 DEF ReadRequests, BeType, SringType
<1>5. CASE PoolEmpty
  BY <1>0, <1>5, Sizes DEF PoolEmpty, BeType
<1>6. CASE LoopDone
  BY <1>0, <1>6, Sizes DEF LoopDone, BeType
<1> QED BY <1>1, <1>2, <1>3, <1>4, <1>5, <1>6 DEF Waiting

\* A step of Next, by what it changes.
Work(p) ==
    \/ DispatchFails(p) \/ SubmitBio(p) \/ SubmitLastBio(p) \/ SubmitFails(p)
    \/ \E error \in BOOLEAN : BioDone(p, error)
Tail(p) ==
    \/ CheckRspEvent(p) \/ TailCheck(p) \/ FinalTest(p) \/ SetReqEvent(p)
    \/ FinalRetest(p) \/ PlainTest(p)

\* Every step is one of these.
LEMMA Steps ==
  [Next]_vars =>
    \/ Front \/ Resume \/ Waiting
    \/ \E p \in PendingReq : \/ TakeRequest(p) \/ Work(p) \/ PushResponse(p)
                             \/ Tail(p) \/ Tell(p) \/ FreeReq(p)
BY DEF Next, Front, Waiting, Thread, Work, Tail, MakeResponse

\* The pool invariants are kept.
LEMMA PoolKept ==
  ASSUME Typed, Typed', BiosCounted, OwnerOK, LockOK, [Next]_vars
  PROVE  OwnerOK' /\ LockOK'
<1>0. pend \in [PendingReq -> PendType] /\ pend' \in [PendingReq -> PendType]
      /\ be \in BeType
  BY DEF Typed
<1>1. ASSUME pend' = pend, ring_lock' = ring_lock,
             be'.pc # be.pc => be.pc \notin {"submit", "respond"}
      PROVE  OwnerOK' /\ LockOK'
  BY <1>1 DEF OwnerOK, LockOK, Holds
<1>2. ASSUME NEW p \in PendingReq,
             \A r \in PendingReq : r # p => pend'[r] = pend[r]
      PROVE  pend' = [pend EXCEPT ![p] = pend'[p]]
  BY <1>0, <1>2
<1>3. CASE Front
  BY <1>0, <1>1, <1>3, FrontStep DEF BeType
<1>4. CASE Resume
  <2>1. /\ pend' = [p \in PendingReq |-> FreePending] /\ ring_lock' = {}
    BY <1>4 DEF Resume
  <2>2. \A p \in PendingReq : pend'[p].pc = "free" /\ pend'[p].own = FALSE
                              /\ pend'[p].notify = FALSE
    BY <2>1 DEF FreePending
  <2> QED BY <2>1, <2>2 DEF OwnerOK, LockOK, Holds, Locking
<1>5. CASE Waiting
  BY <1>1, <1>5, WaitingStep
<1>6. ASSUME NEW p \in PendingReq,
             \/ TakeRequest(p) \/ Work(p) \/ PushResponse(p)
             \/ Tail(p) \/ Tell(p) \/ FreeReq(p)
      PROVE  OwnerOK' /\ LockOK'
  <2> DEFINE q == pend[p]
             n == pend'[p]
             Goal == OwnerOK' /\ LockOK'
  <2>0. /\ q \in PendType /\ n \in PendType
        /\ q.own \in BOOLEAN /\ n.own \in BOOLEAN
        /\ q.notify \in BOOLEAN /\ n.notify \in BOOLEAN
    BY <1>0 DEF PendType
  <2>00. /\ q.own => be.pc = "respond" /\ q.pc \notin {"free", "submit", "io"}
         /\ q.pc = "submit" => be.pc = "submit" /\ ~q.own
         /\ q.notify => q.pc \in {"tail", "final", "plain", "event", "retest", "tell"}
    BY DEF OwnerOK
  <2>1. ASSUME pend' = [pend EXCEPT ![p] = n],
               n.pc = "submit" => be'.pc = "submit" /\ ~n.own,
               n.own => be'.pc = "respond" /\ n.pc \notin {"free", "submit", "io"},
               n.notify => n.pc \in {"tail", "final", "plain", "event", "retest",
                                     "tell"},
               Holds(n) => Holds(q) \/ be.pc = "loop",
               \/ be'.pc = be.pc \/ be.pc \notin {"submit", "respond"}
               \/ Holds(q),
               \/ ring_lock' = ring_lock /\ (n.pc \in Locking <=> q.pc \in Locking)
               \/ ring_lock = {} /\ ring_lock' = {p} /\ n.pc \in Locking
               \/ q.pc \in Locking /\ n.pc \notin Locking /\ ring_lock' = {}
        PROVE  OwnerOK' /\ LockOK'
    <3>1. OwnerOK'
      BY <2>0, <2>1, OwnerOne
    <3>2. LockOK'
      BY <2>0, <2>1, LockOne
    <3> QED BY <3>1, <3>2
  <2>2. CASE TakeRequest(p)
    <3>1. /\ pend' = [pend EXCEPT ![p] = n]
          /\ q.pc = "free" /\ n.pc = "submit" /\ n.own = FALSE /\ n.notify = FALSE
          /\ be.pc = "loop" /\ be'.pc = "submit" /\ ring_lock' = ring_lock
      BY <1>0, <1>2, <2>2, TakeStep DEF BeType
    <3> QED BY <2>1, <3>1 DEF Holds, Locking
  <2>3. CASE Work(p)
    <3>1. /\ pend' = [pend EXCEPT ![p] = n]
          /\ q.pc \in {"submit", "io"} /\ n.pc \in {"submit", "io", "respond"}
          /\ n.notify = q.notify /\ ring_lock' = ring_lock
      BY <1>2, <2>3, WorkStep DEF Work
    <3>2. /\ q.own = FALSE /\ q.notify = FALSE
      BY <2>0, <2>00, <3>1
    <3>3. \/ /\ be' = be /\ n.own = q.own
             /\ n.pc = "submit" <=> q.pc = "submit"
          \/ /\ q.pc = "submit" /\ be'.pc = "loop"
             /\ n.pc = "io" /\ n.own = FALSE
          \/ /\ q.pc = "submit" /\ be'.pc = "respond"
             /\ n.pc = "respond" /\ n.own = TRUE
      BY <1>0, <2>3, WorkStep DEF Work, BeType
    <3> QED BY <2>0, <2>00, <2>1, <3>1, <3>2, <3>3 DEF Holds, Locking
  <2>4. CASE PushResponse(p)
    <3>1. /\ pend' = [pend EXCEPT ![p] = n]
          /\ q.pc = "respond" /\ n.pc = "notify" /\ n.own = q.own /\ n.notify = FALSE
          /\ be'.pc = be.pc /\ ring_lock = {} /\ ring_lock' = {p}
      <4>1. be' = [be EXCEPT !.rsp_prod_pvt = Succ(be.rsp_prod_pvt)]
        BY <2>4, PushStep
      <4>2. be'.pc = be.pc
        BY <1>0, <4>1 DEF BeType
      <4> QED BY <1>2, <2>4, <4>2, PushStep
    <3> QED BY <2>0, <2>00, <2>1, <3>1 DEF Holds, Locking
  <2>5. CASE Tail(p)
    <3>1. /\ pend' = [pend EXCEPT ![p] = n]
          /\ q.pc \in Locking
          /\ n.pc \in {"tail", "final", "plain", "event", "retest", "tell"}
          /\ n.own = q.own /\ be' = be
          /\ ring_lock' = IF n.pc = "tell" THEN {} ELSE ring_lock
      BY <1>2, <2>5, TailStep DEF Tail
    <3> QED BY <2>0, <2>00, <2>1, <3>1 DEF Holds, Locking
  <2>6. CASE Tell(p)
    <3>1. /\ pend' = [pend EXCEPT ![p] = n]
          /\ q.pc = "tell" /\ n.pc = "release" /\ n.own = q.own /\ n.notify = FALSE
          /\ be'.pc = be.pc /\ ring_lock' = ring_lock
      BY <1>0, <1>2, <2>6, TellStep DEF BeType
    <3> QED BY <2>0, <2>00, <2>1, <3>1 DEF Holds, Locking
  <2>7. CASE FreeReq(p)
    <3>1. /\ pend' = [pend EXCEPT ![p] = n]
          /\ q.pc = "release" /\ n.pc = "free" /\ n.own = FALSE /\ n.notify = FALSE
          /\ ring_lock' = ring_lock
      <4>1. /\ n = FreePending /\ q.pc = "release" /\ ring_lock' = ring_lock
            /\ \A r \in PendingReq : r # p => pend'[r] = pend[r]
        BY <2>7, FreeStep
      <4>2. n.pc = "free" /\ n.own = FALSE /\ n.notify = FALSE
        BY <4>1 DEF FreePending
      <4>3. pend' = [pend EXCEPT ![p] = n]
        BY <1>2, <4>1
      <4> QED BY <4>1, <4>2, <4>3
    <3>2. be'.pc = be.pc \/ be.pc \notin {"submit", "respond"} \/ q.own
      BY <1>0, <2>7, FreeStep
    <3> QED BY <2>0, <2>00, <2>1, <3>1, <3>2 DEF Holds, Locking
  <2> QED BY <1>6, <2>2, <2>3, <2>4, <2>5, <2>6, <2>7
<1> QED BY <1>3, <1>4, <1>5, <1>6, Steps

-----------------------------------------------------------------------------
(* The indices.                                                            *)

\* How far responses, the thread and published requests are, from rsp_cons.
Answered == Sub(sring.rsp_prod, fe.rsp_cons)
Dispatched == Sub(be.req_cons, fe.rsp_cons)
Published == Sub(sring.req_prod, fe.rsp_cons)

\* Requests that the back end has taken and not answered.
Busy == {p \in PendingReq : pend[p].pc \in {"submit", "io", "respond"}}

RingOrder ==
    /\ be.rsp_prod_pvt = sring.rsp_prod
    /\ Answered <= Dispatched /\ Dispatched <= Published
    /\ Published <= Outstanding /\ Outstanding <= RingSize
    /\ fe.queued \/ recovery = "connect" \/ Published = Outstanding
    /\ be.pc \in {"loop", "submit", "respond"} =>
         /\ Dispatched <= Sub(be.rp, fe.rsp_cons)
         /\ Sub(be.rp, fe.rsp_cons) <= Published
    /\ fe.pc = "consume" => Sub(fe.rp, fe.rsp_cons) <= Answered

FrontOK ==
    /\ recovery = "no" <=> fe.connected # "suspended"
    /\ fe.queued => fe.pc = "request"
    /\ recovery # "no" =>
         fe.pc \in {"idle", "request"} /\ ~fe.queued /\ fe.rsp_cons = 0
    /\ fe.connected = "disconnected" \/ recovery = "requeue" => Outstanding = 0
    /\ recovery = "connect" => Published = 0

BusyCounted ==
    /\ IsFiniteSet(Busy)
    /\ Cardinality(Busy) = Sub(be.req_cons, be.rsp_prod_pvt)

\* Index arithmetic, modulo 2^32.
LEMMA SubZero ==
  \A x, y, c \in Index :
    /\ Sub(x, c) = 0 <=> x = c
    /\ Sub(x, c) = Sub(y, c) <=> x = y
    /\ Sub(y, c) <= Sub(x, c) => Sub(x, y) = Sub(x, c) - Sub(y, c)
<1> TAKE x, y, c \in Index
<1>1. /\ Sub(x, c) = IF x >= c THEN x - c ELSE x - c + IdxMod
      /\ Sub(y, c) = IF y >= c THEN y - c ELSE y - c + IdxMod
      /\ Sub(x, y) = IF x >= y THEN x - y ELSE x - y + IdxMod
  BY SubFacts
<1>2. /\ x \in 0 .. IdxMod - 1 /\ y \in 0 .. IdxMod - 1 /\ c \in 0 .. IdxMod - 1
      /\ IdxMod \in Nat
  BY Sizes DEF Index
<1>3. Sub(x, c) = 0 <=> x = c
  BY <1>1, <1>2
<1>4. Sub(x, c) = Sub(y, c) <=> x = y
  BY <1>1, <1>2
<1>5. Sub(y, c) <= Sub(x, c) => Sub(x, y) = Sub(x, c) - Sub(y, c)
  BY <1>1, <1>2
<1> QED BY <1>3, <1>4, <1>5

\* Differences when an index is advanced.
LEMMA SubSucc ==
  \A x, c \in Index :
    /\ Sub(x, c) < RingSize => Sub(Succ(x), c) = Sub(x, c) + 1
    /\ Sub(x, c) > 0 => Sub(x, Succ(c)) = Sub(x, c) - 1
<1> TAKE x, c \in Index
<1>0. /\ Succ(x) \in Index /\ Succ(x) = IF x = IdxMod - 1 THEN 0 ELSE x + 1
      /\ Succ(c) \in Index /\ Succ(c) = IF c = IdxMod - 1 THEN 0 ELSE c + 1
      /\ Sub(x, c) = IF x >= c THEN x - c ELSE x - c + IdxMod
      /\ x \in 0 .. IdxMod - 1 /\ c \in 0 .. IdxMod - 1
      /\ IdxMod \in Nat /\ RingSize \in Nat /\ IdxMod >= 2 * RingSize /\ RingSize > 0
  BY SuccFacts, SubFacts, Sizes DEF Index
<1>1. /\ Sub(Succ(x), c) = IF Succ(x) >= c THEN Succ(x) - c ELSE Succ(x) - c + IdxMod
      /\ Sub(x, Succ(c)) = IF x >= Succ(c) THEN x - Succ(c) ELSE x - Succ(c) + IdxMod
  BY <1>0, SubFacts
<1>2. Sub(x, c) < RingSize => Sub(Succ(x), c) = Sub(x, c) + 1
  BY <1>0, <1>1
<1>3. Sub(x, c) > 0 => Sub(x, Succ(c)) = Sub(x, c) - 1
  BY <1>0, <1>1
<1> QED BY <1>2, <1>3

\* The indices are in range.
LEMMA Positions ==
  ASSUME Typed
  PROVE  /\ sring.rsp_prod \in Index /\ sring.req_prod \in Index
         /\ be.req_cons \in Index /\ be.rp \in Index /\ be.rsp_prod_pvt \in Index
         /\ fe.rsp_cons \in Index /\ fe.req_prod_pvt \in Index /\ fe.rp \in Index
         /\ sring.req_event \in Index /\ sring.rsp_event \in Index
         /\ Answered \in Nat /\ Dispatched \in Nat /\ Published \in Nat
         /\ Outstanding \in Nat /\ Index \subseteq Nat
         /\ Sub(be.rp, fe.rsp_cons) \in Nat /\ Sub(fe.rp, fe.rsp_cons) \in Nat
<1>1. /\ sring.rsp_prod \in Index /\ sring.req_prod \in Index
      /\ be.req_cons \in Index /\ be.rp \in Index /\ be.rsp_prod_pvt \in Index
      /\ fe.rsp_cons \in Index /\ fe.req_prod_pvt \in Index /\ fe.rp \in Index
      /\ sring.req_event \in Index /\ sring.rsp_event \in Index
  BY DEF Typed, SringType, FeType, BeType
<1>2. Index \subseteq Nat
  BY Sizes DEF Index
<1> QED BY <1>1, <1>2, SubFacts DEF Answered, Dispatched, Published, Outstanding

\* The counts that the macros of ring.h compute.
LEMMA RingCounts ==
  ASSUME Typed, RingOrder
  PROVE  /\ Sub(be.req_cons, be.rsp_prod_pvt) = Dispatched - Answered
         /\ Sub(sring.req_prod, be.req_cons) = Published - Dispatched
         /\ RingFull <=> Outstanding = RingSize
         /\ UnconsumedResponses = Answered
         /\ UnconsumedRequests \in Nat
         /\ UnconsumedRequests > 0 => Published # Dispatched
         /\ UnconsumedRequests = 0 =>
              Published = Dispatched \/ Dispatched - Answered = RingSize
         /\ sring.req_prod = be.req_cons <=> Published = Dispatched
<1>0. /\ Answered \in Nat /\ Dispatched \in Nat /\ Published \in Nat
      /\ Outstanding \in Nat /\ RingSize \in Nat
      /\ Answered <= Dispatched /\ Dispatched <= Published
      /\ Published <= Outstanding /\ Outstanding <= RingSize
      /\ be.rsp_prod_pvt = sring.rsp_prod
  BY Positions, Sizes DEF RingOrder
<1>1. /\ Sub(be.req_cons, be.rsp_prod_pvt) = Dispatched - Answered
      /\ Sub(sring.req_prod, be.req_cons) = Published - Dispatched
      /\ sring.req_prod = be.req_cons <=> Published = Dispatched
  BY <1>0, Positions, SubZero DEF Answered, Dispatched, Published
<1>2. RingFull <=> Outstanding = RingSize
  BY <1>0 DEF RingFull, Outstanding
<1>3. UnconsumedResponses = Answered
  BY DEF UnconsumedResponses, Answered
<1>4. UnconsumedRequests =
        IF Published - Dispatched < RingSize - (Dispatched - Answered)
        THEN Published - Dispatched ELSE RingSize - (Dispatched - Answered)
  BY <1>1 DEF UnconsumedRequests
<1> QED BY <1>0, <1>1, <1>2, <1>3, <1>4

\* The steps of blkfront that move no index.
Quiet ==
    \/ BlockLayer \/ NotifyBackend \/ GrantsFreed \/ RestartQueue \/ Interrupt
    \/ ConsumedAll \/ SetRspEvent \/ Retest \/ Connect \/ UNCHANGED vars
    \/ ~fe.queued /\ (GrantShortage \/ RequestsDone)

\* Requests are published: flush_requests.
Flush ==
    \/ fe.queued /\ (GrantShortage \/ RequestsDone)
    \/ RecoverConnect

\* blkfront's steps, by what they do to the ring.
LEMMA FrontSteps ==
  Front => \/ Quiet \/ Flush \/ ConsumeResponse \/ Recover
           \/ \E r \in Request : QueueRequest(r)
BY DEF Front, Quiet, Flush, Frontend, Recovery

\* kick_pending_request_queues leaves indices and lists alone, ...
LEMMA KickedFacts ==
  ASSUME NEW f \in FeType
  PROVE  /\ Kicked(f) \in FeType
         /\ Kicked(f).req_prod_pvt = f.req_prod_pvt
         /\ Kicked(f).rsp_cons = f.rsp_cons
         /\ Kicked(f).shadow_free = f.shadow_free
         /\ Kicked(f).connected = f.connected /\ Kicked(f).irq = f.irq
         /\ Kicked(f).pc \in {"idle", "request"}
         /\ Kicked(f).queued => f.queued /\ Kicked(f).pc = "idle"
BY DEF Kicked, FeType

\* ... and so does the start of another round of blkif_int.
LEMMA AgainFacts ==
  ASSUME Typed, NEW f \in FeType
  PROVE  /\ Again(f) \in FeType
         /\ Again(f).req_prod_pvt = f.req_prod_pvt
         /\ Again(f).rsp_cons = f.rsp_cons
         /\ Again(f).shadow_free = f.shadow_free
         /\ Again(f).connected = f.connected /\ Again(f).irq = f.irq
         /\ Again(f).queued = f.queued
         /\ Again(f).pc = "consume" /\ Again(f).rp = sring.rsp_prod
<1>1. sring.rsp_prod \in Index
  BY DEF Typed, SringType
<1> QED BY <1>1 DEF Again, FeType

\* A front end g after f that has moved no index.
Rests(f, g) ==
    /\ g.req_prod_pvt = f.req_prod_pvt /\ g.rsp_cons = f.rsp_cons
    /\ g.shadow_free = f.shadow_free
    /\ g.connected = f.connected \/ (f.connected = "disconnected"
                                     /\ g.connected = "connected")
    /\ g.queued => f.queued /\ g.pc = "request"
    /\ f.queued => g.queued
    /\ g.pc = "consume" =>
         \/ f.pc = "consume" /\ g.rp = f.rp
         \/ g.rp = sring.rsp_prod
    /\ f.connected = "suspended" => g.pc \in {"idle", "request"}

\* A quiet step leaves the indices, the ring and the shadow table as they are.
LEMMA QuietStep ==
  ASSUME Typed, FrontOK, Quiet
  PROVE  /\ Rests(fe, fe')
         /\ UNCHANGED <<sring.req_prod, sring.rsp_prod, sring.ring, sring.req_event>>
         /\ UNCHANGED <<shadow, recovery, pend, ring_lock, executed, outcome>>
         /\ \/ status' = status
            \/ \E r \in Request : status[r] = "idle"
                                  /\ status' = [status EXCEPT ![r] = "pending"]
<1> USE DEF feVars, beVars, done
<1>0. /\ fe \in FeType /\ sring \in SringType
      /\ fe.queued \in BOOLEAN
      /\ fe.queued => fe.pc = "request"
      /\ fe.connected = "suspended" => fe.pc \in {"idle", "request"}
  BY DEF Typed, FrontOK, FeType
<1>1. CASE BlockLayer
  <2>1. /\ \/ fe' = fe
           \/ /\ fe.pc = "idle"
              /\ fe' = [fe EXCEPT !.pc = "request", !.queued = FALSE]
        /\ UNCHANGED <<sring, shadow, recovery, pend, ring_lock, executed, outcome>>
        /\ \/ status' = status
           \/ \E r \in Request : status[r] = "idle"
                                  /\ status' = [status EXCEPT ![r] = "pending"]
    BY <1>1 DEF BlockLayer, RunQueue, Submit, SubmitAtBack, Queued
  <2>2. Rests(fe, fe')
    BY <1>0, <2>1 DEF Rests, FeType
  <2> QED BY <2>1, <2>2
<1>2. CASE NotifyBackend
  <2> DEFINE f == [fe EXCEPT !.pc = "idle", !.after = "idle", !.old = 0]
  <2>1. /\ fe' \in {Kicked(f), f} /\ fe.pc = "notify"
        /\ UNCHANGED <<sring, shadow, recovery, pend, ring_lock, status, executed, outcome>>
    BY <1>2 DEF NotifyBackend
  <2>2. f \in FeType
    BY <1>0, Sizes DEF FeType
  <2>3. /\ f.req_prod_pvt = fe.req_prod_pvt /\ f.rsp_cons = fe.rsp_cons
        /\ f.shadow_free = fe.shadow_free /\ f.connected = fe.connected
        /\ f.queued = fe.queued /\ f.pc = "idle" /\ ~fe.queued
    BY <1>0, <2>1 DEF FeType
  <2> HIDE DEF f
  <2>4. Rests(fe, fe')
    BY <2>1, <2>2, <2>3, KickedFacts DEF Rests
  <2> QED BY <2>1, <2>4
<1>3. CASE GrantsFreed
  <2>1. /\ fe' = [fe EXCEPT !.callback = FALSE, !.work = TRUE]
        /\ UNCHANGED <<sring, shadow, recovery, pend, ring_lock, status, executed, outcome>>
    BY <1>3 DEF GrantsFreed
  <2>2. Rests(fe, fe')
    BY <1>0, <2>1 DEF Rests, FeType
  <2> QED BY <2>1, <2>2
<1>4. CASE RestartQueue
  <2> DEFINE f == [fe EXCEPT !.work = FALSE]
  <2>1. /\ fe' \in {Kicked(f), f} /\ fe.pc = "idle"
        /\ UNCHANGED <<sring, shadow, recovery, pend, ring_lock, status, executed, outcome>>
    BY <1>4 DEF RestartQueue
  <2>2. f \in FeType
    BY <1>0 DEF FeType
  <2>3. /\ f.req_prod_pvt = fe.req_prod_pvt /\ f.rsp_cons = fe.rsp_cons
        /\ f.shadow_free = fe.shadow_free /\ f.connected = fe.connected
        /\ f.queued = fe.queued /\ f.pc = "idle" /\ ~fe.queued
    BY <1>0, <2>1 DEF FeType
  <2> HIDE DEF f
  <2>4. Rests(fe, fe')
    BY <2>1, <2>2, <2>3, KickedFacts DEF Rests
  <2> QED BY <2>1, <2>4
<1>5. CASE Interrupt
  <2> DEFINE f == [fe EXCEPT !.irq = FALSE]
  <2>1. /\ fe' = f \/ (fe.connected = "connected" /\ fe' = Again(f))
        /\ fe.pc = "idle"
        /\ UNCHANGED <<sring, shadow, recovery, pend, ring_lock, status, executed, outcome>>
    BY <1>5 DEF Interrupt
  <2>2. f \in FeType
    BY <1>0 DEF FeType
  <2>3. /\ f.req_prod_pvt = fe.req_prod_pvt /\ f.rsp_cons = fe.rsp_cons
        /\ f.shadow_free = fe.shadow_free /\ f.connected = fe.connected
        /\ f.queued = fe.queued /\ f.pc = "idle" /\ ~fe.queued
    BY <1>0, <2>1 DEF FeType
  <2> HIDE DEF f
  <2>4. Rests(fe, fe')
    BY <2>1, <2>2, <2>3, AgainFacts DEF Rests
  <2> QED BY <2>1, <2>4
<1>6. CASE ConsumedAll
  <2> DEFINE f == [fe EXCEPT !.rp = 0]
  <2>1. /\ fe' \in {Kicked(f), Again(f), [f EXCEPT !.pc = "event"]}
        /\ fe.pc = "consume"
        /\ sring' \in {sring, [sring EXCEPT !.rsp_event = Succ(fe.rsp_cons)]}
        /\ UNCHANGED <<shadow, recovery, pend, ring_lock, status, executed, outcome>>
    BY <1>6 DEF ConsumedAll
  <2>2. f \in FeType
    BY <1>0, Sizes DEF FeType
  <2>3. /\ f.req_prod_pvt = fe.req_prod_pvt /\ f.rsp_cons = fe.rsp_cons
        /\ f.shadow_free = fe.shadow_free /\ f.connected = fe.connected
        /\ f.queued = fe.queued /\ ~fe.queued /\ fe.connected # "suspended"
    BY <1>0, <2>1 DEF FeType
  <2> HIDE DEF f
  <2>4. CASE fe' = [f EXCEPT !.pc = "event"]
    <3>1. Rests(fe, fe')
      BY <2>2, <2>3, <2>4 DEF Rests, FeType
    <3> QED BY <1>0, <2>1, <3>1 DEF SringType
  <2>5. CASE fe' \in {Kicked(f), Again(f)}
    <3>1. Rests(fe, fe')
      BY <2>2, <2>3, <2>5, AgainFacts, KickedFacts DEF Rests
    <3> QED BY <1>0, <2>1, <3>1 DEF SringType
  <2> QED BY <2>1, <2>4, <2>5
<1>7. CASE SetRspEvent
  <2>1. /\ fe' = [fe EXCEPT !.pc = "retest"] /\ fe.pc = "event"
        /\ sring' = [sring EXCEPT !.rsp_event = Succ(fe.rsp_cons)]
        /\ UNCHANGED <<shadow, recovery, pend, ring_lock, status, executed, outcome>>
    BY <1>7 DEF SetRspEvent
  <2>2. Rests(fe, fe')
    BY <1>0, <2>1 DEF Rests, FeType
  <2> QED BY <1>0, <2>1, <2>2 DEF SringType
<1>8. CASE Retest
  <2>1. /\ fe' \in {Kicked(fe), Again(fe)} /\ fe.pc = "retest"
        /\ UNCHANGED <<sring, shadow, recovery, pend, ring_lock, status, executed, outcome>>
    BY <1>8 DEF Retest
  <2>2. Rests(fe, fe')
    BY <1>0, <2>1, AgainFacts, KickedFacts DEF Rests
  <2> QED BY <2>1, <2>2
<1>9. CASE Connect
  <2> DEFINE f == [fe EXCEPT !.connected = "connected"]
  <2>1. /\ fe' = Kicked(f) /\ fe.pc = "idle" /\ fe.connected = "disconnected"
        /\ UNCHANGED <<sring, shadow, recovery, pend, ring_lock, status, executed, outcome>>
    BY <1>9 DEF Connect
  <2>2. f \in FeType
    BY <1>0 DEF FeType
  <2>3. /\ f.req_prod_pvt = fe.req_prod_pvt /\ f.rsp_cons = fe.rsp_cons
        /\ f.shadow_free = fe.shadow_free /\ f.connected = "connected"
        /\ f.queued = fe.queued /\ ~fe.queued
    BY <1>0, <2>1 DEF FeType
  <2> HIDE DEF f
  <2>4. Rests(fe, fe')
    BY <2>1, <2>2, <2>3, KickedFacts DEF Rests
  <2> QED BY <2>1, <2>4
<1>10. CASE UNCHANGED vars
  BY <1>0, <1>10 DEF vars, Rests
<1>11. CASE ~fe.queued /\ (GrantShortage \/ RequestsDone)
  <2>1. PICK f \in {[fe EXCEPT !.callback = TRUE, !.stopped = TRUE],
                    [fe EXCEPT !.stopped = fe.stopped \/ Queue # {}]} :
          EndRequest(f)
    BY <1>11 DEF GrantShortage, RequestsDone
  <2>2. UNCHANGED <<shadow, recovery, pend, ring_lock, status, executed, outcome>>
    BY <1>11 DEF GrantShortage, RequestsDone
  <2>3. /\ f \in FeType /\ f.req_prod_pvt = fe.req_prod_pvt
        /\ f.rsp_cons = fe.rsp_cons
        /\ f.shadow_free = fe.shadow_free /\ f.connected = fe.connected
        /\ f.queued = fe.queued /\ ~fe.queued
    BY <1>0, <1>11, <2>1 DEF FeType
  <2> HIDE <2>1
  <2>4. EndRequest(f)
    BY <2>1
  <2>5. fe' = [f EXCEPT !.pc = "idle"] /\ UNCHANGED sring
    BY <2>3, <2>4 DEF EndRequest
  <2>6. Rests(fe, fe')
    BY <2>3, <2>5 DEF Rests, FeType
  <2> QED BY <2>2, <2>5, <2>6
<1> QED BY <1>1, <1>2, <1>3, <1>4, <1>5, <1>6, <1>7, <1>8, <1>9, <1>10, <1>11 DEF Quiet

\* flush_requests publishes all requests that are in the ring.
LEMMA FlushStep ==
  ASSUME Typed, FrontOK, Flush
  PROVE  /\ sring' = [sring EXCEPT !.req_prod = fe.req_prod_pvt]
         /\ fe'.req_prod_pvt = fe.req_prod_pvt /\ fe'.rsp_cons = fe.rsp_cons
         /\ fe'.shadow_free = fe.shadow_free /\ fe'.irq = fe.irq
         /\ fe.pc \in {"idle", "request"}
         /\ fe'.pc = "notify" /\ fe'.old = sring.req_prod /\ fe'.queued = FALSE
         /\ fe'.connected # "suspended" /\ fe'.connected \in {fe.connected, "connected"}
         /\ recovery' = "no" /\ recovery # "requeue"
         /\ UNCHANGED <<shadow, be, pend, ring_lock, status, executed, outcome>>
<1> USE DEF feVars, beVars, done
<1>0. /\ fe \in FeType
      /\ sring.req_prod \in Index
  BY DEF Typed, SringType
<1>1. ASSUME NEW f \in FeType, NEW after \in {"idle", "kick"}, PushRequests(f, after)
      PROVE  /\ sring' = [sring EXCEPT !.req_prod = f.req_prod_pvt]
             /\ fe'.req_prod_pvt = f.req_prod_pvt /\ fe'.rsp_cons = f.rsp_cons
             /\ fe'.shadow_free = f.shadow_free /\ fe'.irq = f.irq
             /\ fe'.pc = "notify" /\ fe'.old = sring.req_prod /\ fe'.queued = FALSE
             /\ fe'.connected = f.connected
  BY <1>0, <1>1 DEF PushRequests, FeType
<1>2. CASE fe.queued /\ (GrantShortage \/ RequestsDone)
  <2>1. PICK f \in {[fe EXCEPT !.callback = TRUE, !.stopped = TRUE],
                    [fe EXCEPT !.stopped = fe.stopped \/ Queue # {}]} :
          EndRequest(f)
    BY <1>2 DEF GrantShortage, RequestsDone
  <2>2. UNCHANGED <<shadow, recovery, be, pend, ring_lock, status, executed, outcome>>
    BY <1>2 DEF GrantShortage, RequestsDone
  <2>3. /\ f \in FeType /\ f.req_prod_pvt = fe.req_prod_pvt
        /\ f.rsp_cons = fe.rsp_cons /\ f.irq = fe.irq
        /\ f.shadow_free = fe.shadow_free /\ f.connected = fe.connected
        /\ f.queued
    BY <1>0, <1>2, <2>1 DEF FeType
  <2>4. PushRequests(f, "idle")
    BY <2>1, <2>3 DEF EndRequest
  <2>5. recovery = "no" /\ fe.connected # "suspended" /\ fe.pc = "request"
    BY <1>2 DEF FrontOK
  <2> QED BY <1>1, <2>2, <2>3, <2>4, <2>5
<1>3. CASE RecoverConnect
  <2> DEFINE f == [fe EXCEPT !.connected = "connected"]
  <2>1. /\ f \in FeType /\ f.req_prod_pvt = fe.req_prod_pvt
        /\ f.rsp_cons = fe.rsp_cons /\ f.irq = fe.irq
        /\ f.shadow_free = fe.shadow_free /\ f.connected = "connected"
    BY <1>0 DEF FeType
  <2>2. /\ PushRequests(f, "kick") /\ recovery' = "no" /\ recovery = "connect"
        /\ fe.pc = "idle"
        /\ UNCHANGED <<shadow, be, pend, ring_lock, status, executed, outcome>>
    BY <1>3 DEF RecoverConnect
  <2> HIDE DEF f
  <2> QED BY <1>1, <2>1, <2>2
<1> QED BY <1>2, <1>3 DEF Flush

\* blkif_queue_request: one request, with an id from the free list.
LEMMA QueueStep ==
  ASSUME Typed, FrontOK, NEW r \in Request, QueueRequest(r)
  PROVE  /\ fe.shadow_free \in Slot /\ r \in Queue /\ ~RingFull
         /\ fe.connected = "connected" /\ recovery = "no" /\ fe.pc = "request"
         /\ shadow' = [shadow EXCEPT ![fe.shadow_free] =
                          [id |-> fe.shadow_free, request |-> r]]
         /\ sring' = [sring EXCEPT !.ring[At(fe.req_prod_pvt)] =
                         [id |-> fe.shadow_free, req |-> r, ok |-> FALSE]]
         /\ fe'.shadow_free = shadow[fe.shadow_free].id
         /\ fe'.req_prod_pvt = Succ(fe.req_prod_pvt) /\ fe'.rsp_cons = fe.rsp_cons
         /\ fe'.queued = TRUE /\ fe'.pc = "request" /\ fe'.connected = "connected"
         /\ fe'.irq = fe.irq
         /\ UNCHANGED <<recovery, be, pend, ring_lock, status, executed, outcome>>
<1>0. fe \in FeType /\ fe.connected = "connected"
  BY DEF Typed, QueueRequest
<1>1. fe' = [fe EXCEPT !.shadow_free = shadow[fe.shadow_free].id,
                       !.req_prod_pvt = Succ(fe.req_prod_pvt),
                       !.queued = TRUE]
  BY DEF QueueRequest
<1>2. /\ fe'.shadow_free = shadow[fe.shadow_free].id
      /\ fe'.req_prod_pvt = Succ(fe.req_prod_pvt) /\ fe'.rsp_cons = fe.rsp_cons
      /\ fe'.queued = TRUE /\ fe'.pc = fe.pc /\ fe'.connected = fe.connected
      /\ fe'.irq = fe.irq
  BY <1>0, <1>1 DEF FeType
<1>3. recovery = "no"
  BY <1>0 DEF FrontOK
<1> QED BY <1>0, <1>2, <1>3 DEF QueueRequest, beVars, done

\* blkif_int: one response; its id goes back, its request has ended.
LEMMA ConsumeStep ==
  ASSUME Typed, FrontOK, ConsumeResponse
  PROVE  LET e == sring.ring[At(fe.rsp_cons)]
             r == shadow[e.id].request
         IN  /\ e \in Entry /\ r \in Request
             /\ fe.pc = "consume" /\ fe.rsp_cons # fe.rp
             /\ shadow' = [shadow EXCEPT ![e.id] =
                              [id |-> fe.shadow_free, request |-> NoRequest]]
             /\ sring' = [sring EXCEPT !.ring[At(fe.rsp_cons)] = NoEntry]
             /\ fe'.shadow_free = e.id
             /\ fe'.rsp_cons = Succ(fe.rsp_cons)
             /\ fe'.req_prod_pvt = fe.req_prod_pvt /\ fe'.queued = fe.queued
             /\ fe'.pc = "consume" /\ fe'.connected = fe.connected
             /\ fe'.irq = fe.irq /\ fe'.rp = fe.rp
             /\ status' = [status EXCEPT ![r] = "idle"]
             /\ outcome' = (IF e.ok THEN "ok" ELSE "error")
             /\ executed' = executed \ {r}
             /\ recovery = "no" /\ fe.connected # "suspended"
             /\ UNCHANGED <<recovery, be, pend, ring_lock>>
<1> DEFINE e == sring.ring[At(fe.rsp_cons)]
           r == shadow[e.id].request
<1>0. fe \in FeType /\ e \in Entry /\ fe.pc = "consume"
  BY AtFacts DEF Typed, FeType, SringType, ConsumeResponse
<1>1. fe' = [fe EXCEPT !.shadow_free = e.id, !.rsp_cons = Succ(fe.rsp_cons)]
  BY DEF ConsumeResponse
<1>2. /\ fe'.shadow_free = e.id /\ fe'.rsp_cons = Succ(fe.rsp_cons)
      /\ fe'.req_prod_pvt = fe.req_prod_pvt /\ fe'.queued = fe.queued
      /\ fe'.pc = fe.pc /\ fe'.connected = fe.connected
      /\ fe'.irq = fe.irq /\ fe'.rp = fe.rp
  <2> HIDE DEF e
  <2> QED BY <1>0, <1>1 DEF FeType
<1>3. recovery = "no" /\ fe.connected # "suspended"
  BY <1>0 DEF FrontOK
<1>4. /\ r \in Request /\ fe.rsp_cons # fe.rp
      /\ shadow' = [shadow EXCEPT ![e.id] =
                              [id |-> fe.shadow_free, request |-> NoRequest]]
      /\ sring' = [sring EXCEPT !.ring[At(fe.rsp_cons)] = NoEntry]
      /\ status' = [status EXCEPT ![r] = "idle"]
      /\ outcome' = (IF e.ok THEN "ok" ELSE "error")
      /\ executed' = executed \ {r}
      /\ UNCHANGED <<recovery, be, pend, ring_lock>>
  BY DEF ConsumeResponse, Freed, Taken, beVars
<1> QED BY <1>0, <1>2, <1>3, <1>4

\* The front end keeps the indices in order.
LEMMA FrontOrder ==
  ASSUME Typed, Typed', RingOrder, FrontOK, Front
  PROVE  RingOrder' /\ FrontOK'
<1> DEFINE c == fe.rsp_cons
<1>0. /\ sring \in SringType /\ fe \in FeType /\ be \in BeType
      /\ recovery \in {"no", "requeue", "connect"}
  BY DEF Typed
<1>1. /\ be'.pc = be.pc /\ be'.rp = be.rp /\ be'.req_cons = be.req_cons
      /\ be'.rsp_prod_pvt = be.rsp_prod_pvt
  BY <1>0, FrontStep DEF BeType
<1>2. /\ be.rsp_prod_pvt = sring.rsp_prod
      /\ Sub(sring.rsp_prod, c) <= Sub(be.req_cons, c)
      /\ Sub(be.req_cons, c) <= Sub(sring.req_prod, c)
      /\ Sub(sring.req_prod, c) <= Sub(fe.req_prod_pvt, c)
      /\ Sub(fe.req_prod_pvt, c) <= RingSize
      /\ fe.queued \/ recovery = "connect"
                   \/ Sub(sring.req_prod, c) = Sub(fe.req_prod_pvt, c)
      /\ be.pc \in {"loop", "submit", "respond"} =>
           /\ Sub(be.req_cons, c) <= Sub(be.rp, c)
           /\ Sub(be.rp, c) <= Sub(sring.req_prod, c)
      /\ fe.pc = "consume" => Sub(fe.rp, c) <= Sub(sring.rsp_prod, c)
  BY DEF RingOrder, Answered, Dispatched, Published, Outstanding
<1>3. /\ recovery = "no" <=> fe.connected # "suspended"
      /\ fe.queued => fe.pc = "request"
      /\ recovery # "no" => fe.pc \in {"idle", "request"} /\ ~fe.queued /\ c = 0
      /\ fe.connected = "disconnected" \/ recovery = "requeue" =>
           Sub(fe.req_prod_pvt, c) = 0
      /\ recovery = "connect" => Sub(sring.req_prod, c) = 0
  BY DEF FrontOK, Published, Outstanding
<1>4. /\ sring.rsp_prod \in Index /\ sring.req_prod \in Index
      /\ be.req_cons \in Index /\ be.rp \in Index
      /\ c \in Index /\ fe.req_prod_pvt \in Index /\ fe.rp \in Index
      /\ Sub(sring.rsp_prod, c) \in Nat /\ Sub(be.req_cons, c) \in Nat
      /\ Sub(sring.req_prod, c) \in Nat /\ Sub(fe.req_prod_pvt, c) \in Nat
      /\ Sub(be.rp, c) \in Nat /\ Sub(fe.rp, c) \in Nat
      /\ RingSize \in Nat
  BY Positions, Sizes DEF Answered, Dispatched, Published, Outstanding
<1>5. ASSUME UNCHANGED <<sring.req_prod, sring.rsp_prod, recovery>>, Rests(fe, fe')
      PROVE  RingOrder' /\ FrontOK'
  <2>1. fe'.rsp_cons = c /\ fe'.req_prod_pvt = fe.req_prod_pvt
    BY <1>5 DEF Rests
  <2>2. /\ fe'.queued => fe.queued /\ fe'.pc = "request"
        /\ fe.queued => fe'.queued
        /\ recovery = "no" <=> fe'.connected # "suspended"
        /\ recovery # "no" => fe'.pc \in {"idle", "request"}
        /\ fe'.connected = "disconnected" => fe.connected = "disconnected"
        /\ fe'.pc = "consume" => \/ fe.pc = "consume" /\ fe'.rp = fe.rp
                                 \/ fe'.rp = sring.rsp_prod
    BY <1>3, <1>5 DEF Rests
  <2>3. FrontOK'
    BY <1>3, <1>5, <2>1, <2>2 DEF FrontOK, Published, Outstanding
  <2>4. RingOrder'
    BY <1>1, <1>2, <1>4, <1>5, <2>1, <2>2 
       DEF RingOrder, Answered, Dispatched, Published, Outstanding
  <2> QED BY <2>3, <2>4
<1>6. CASE Quiet
  BY <1>5, <1>6, QuietStep
<1>7. CASE Flush
  <2>1. /\ sring'.req_prod = fe.req_prod_pvt /\ sring'.rsp_prod = sring.rsp_prod
        /\ fe'.rsp_cons = c /\ fe'.req_prod_pvt = fe.req_prod_pvt
        /\ fe'.pc = "notify" /\ fe'.queued = FALSE
        /\ recovery' = "no" /\ fe'.connected # "suspended"
        /\ fe'.connected \in {fe.connected, "connected"}
    BY <1>0, <1>7, FlushStep DEF SringType
  <2>2. FrontOK'
    BY <1>3, <2>1 DEF FrontOK, Published, Outstanding
  <2>3. RingOrder'
    BY <1>1, <1>2, <1>4, <2>1 DEF RingOrder, Answered, Dispatched, Published, Outstanding
  <2> QED BY <2>2, <2>3
<1>8. ASSUME NEW r \in Request, QueueRequest(r) PROVE RingOrder' /\ FrontOK'
  <2>1. /\ sring'.req_prod = sring.req_prod /\ sring'.rsp_prod = sring.rsp_prod
        /\ fe'.rsp_cons = c /\ fe'.req_prod_pvt = Succ(fe.req_prod_pvt)
        /\ fe'.pc = "request" /\ fe'.queued = TRUE
        /\ recovery' = recovery /\ recovery = "no" /\ fe'.connected = "connected"
    BY <1>0, <1>8, QueueStep DEF SringType
  <2>2. Sub(fe.req_prod_pvt, c) < RingSize
    <3>1. ~RingFull
      BY <1>8, QueueStep
    <3>2. Sub(fe.req_prod_pvt, c) \in Nat
      BY <1>4
    <3> QED BY <1>2, <1>4, <3>1, <3>2 DEF RingFull
  <2>3. Sub(fe'.req_prod_pvt, c) = Sub(fe.req_prod_pvt, c) + 1
    BY <1>4, <2>1, <2>2, SubSucc
  <2>4. FrontOK'
    BY <2>1 DEF FrontOK, Published, Outstanding
  <2>5. RingOrder'
    BY <1>1, <1>2, <1>4, <2>1, <2>2, <2>3
       DEF RingOrder, Answered, Dispatched, Published, Outstanding
  <2> QED BY <2>4, <2>5
<1>9. CASE ConsumeResponse
  <2>1. /\ sring'.req_prod = sring.req_prod /\ sring'.rsp_prod = sring.rsp_prod
        /\ fe'.rsp_cons = Succ(c) /\ fe'.req_prod_pvt = fe.req_prod_pvt
        /\ fe'.pc = "consume" /\ fe.pc = "consume" /\ fe'.queued = fe.queued
        /\ recovery' = recovery /\ recovery = "no"
        /\ fe'.connected = fe.connected /\ c # fe.rp /\ fe'.rp = fe.rp
    BY <1>0, <1>9, ConsumeStep DEF SringType
  <2>2. Sub(fe.rp, c) > 0
    BY <1>4, <2>1, SubZero
  <2>3. \A x \in Index : Sub(x, c) > 0 => Sub(x, Succ(c)) = Sub(x, c) - 1
    BY <1>4, SubSucc
  <2>4. /\ Sub(sring.rsp_prod, Succ(c)) = Sub(sring.rsp_prod, c) - 1
        /\ Sub(be.req_cons, Succ(c)) = Sub(be.req_cons, c) - 1
        /\ Sub(sring.req_prod, Succ(c)) = Sub(sring.req_prod, c) - 1
        /\ Sub(fe.req_prod_pvt, Succ(c)) = Sub(fe.req_prod_pvt, c) - 1
        /\ Sub(fe.rp, Succ(c)) = Sub(fe.rp, c) - 1
        /\ be.pc \in {"loop", "submit", "respond"} =>
             Sub(be.rp, Succ(c)) = Sub(be.rp, c) - 1
    BY <1>2, <1>4, <2>1, <2>2, <2>3
  <2>5. fe.connected # "disconnected"
    BY <1>2, <1>3, <1>4, <2>1, <2>2
  <2>6. FrontOK'
    BY <1>3, <2>1, <2>5 DEF FrontOK, Published, Outstanding
  <2>7. RingOrder'
    BY <1>1, <1>2, <1>4, <2>1, <2>2, <2>4
       DEF RingOrder, Answered, Dispatched, Published, Outstanding
  <2> QED BY <2>6, <2>7
<1>10. CASE Recover
  <2>1. /\ recovery = "requeue" /\ recovery' = "connect"
        /\ sring' = [sring EXCEPT !.ring = sring'.ring]
        /\ fe' = [fe EXCEPT !.req_prod_pvt = Cardinality(Used),
                            !.shadow_free = Cardinality(Used)]
    BY <1>0, <1>10, RecoverStep DEF SringType
  <2>2. /\ sring'.req_prod = sring.req_prod /\ sring'.rsp_prod = sring.rsp_prod
        /\ fe'.rsp_cons = c /\ fe'.req_prod_pvt = Cardinality(Used)
        /\ fe'.pc = fe.pc /\ fe'.queued = fe.queued /\ fe'.connected = fe.connected
    <3> DEFINE m == Cardinality(Used)
    <3> HIDE DEF m
    <3>1. fe' = [fe EXCEPT !.req_prod_pvt = m, !.shadow_free = m]
      BY <2>1 DEF m
    <3>2. /\ fe'.rsp_cons = c /\ fe'.req_prod_pvt = m
          /\ fe'.pc = fe.pc /\ fe'.queued = fe.queued /\ fe'.connected = fe.connected
      BY <1>0, <3>1 DEF FeType
    <3> QED BY <1>0, <2>1, <3>2 DEF SringType, m
  <2>3. c = 0 /\ Cardinality(Used) \in 0 .. RingSize
    BY <1>3, <2>1, UsedFinite
  <2>4. Sub(Cardinality(Used), c) = Cardinality(Used)
    BY <1>4, <2>3, Sizes, SubFacts
  <2>5. Sub(sring.req_prod, c) = 0
    BY <1>2, <1>3, <1>4, <2>1
  <2>6. FrontOK'
    BY <1>3, <2>1, <2>2, <2>5 DEF FrontOK, Published, Outstanding
  <2>7. RingOrder'
    BY <1>1, <1>2, <1>3, <1>4, <2>1, <2>2, <2>3, <2>4, <2>5
       DEF RingOrder, Answered, Dispatched, Published, Outstanding
  <2> QED BY <2>6, <2>7
<1> QED BY <1>6, <1>7, <1>8, <1>9, <1>10, FrontSteps

\* The front end's indices and progress, seen from the back end.
LEMMA FrontSame ==
  ASSUME FrontOK, sring'.req_prod = sring.req_prod,
         fe'.rsp_cons = fe.rsp_cons, fe'.req_prod_pvt = fe.req_prod_pvt,
         fe'.pc = fe.pc, fe'.queued = fe.queued, fe'.connected = fe.connected,
         recovery' = recovery
  PROVE  FrontOK'
BY DEF FrontOK, Published, Outstanding

\* The back end keeps the indices in order: a response has the place of a
\* request that was taken, and what is taken was published.
LEMMA BackOrder ==
  ASSUME Typed, Typed', BiosCounted, OwnerOK, RingOrder, FrontOK, BusyCounted,
         \/ Waiting
         \/ \E p \in PendingReq : \/ TakeRequest(p) \/ Work(p) \/ PushResponse(p)
                                  \/ Tail(p) \/ Tell(p) \/ FreeReq(p)
  PROVE  RingOrder' /\ FrontOK'
<1> DEFINE c == fe.rsp_cons
<1>0. /\ sring \in SringType /\ fe \in FeType /\ be \in BeType
      /\ be' \in BeType
  BY DEF Typed
<1>2. /\ be.rsp_prod_pvt = sring.rsp_prod
      /\ Sub(sring.rsp_prod, c) <= Sub(be.req_cons, c)
      /\ Sub(be.req_cons, c) <= Sub(sring.req_prod, c)
      /\ Sub(sring.req_prod, c) <= Sub(fe.req_prod_pvt, c)
      /\ Sub(fe.req_prod_pvt, c) <= RingSize
      /\ fe.queued \/ recovery = "connect"
                   \/ Sub(sring.req_prod, c) = Sub(fe.req_prod_pvt, c)
      /\ be.pc \in {"loop", "submit", "respond"} =>
           /\ Sub(be.req_cons, c) <= Sub(be.rp, c)
           /\ Sub(be.rp, c) <= Sub(sring.req_prod, c)
      /\ fe.pc = "consume" => Sub(fe.rp, c) <= Sub(sring.rsp_prod, c)
  BY DEF RingOrder, Answered, Dispatched, Published, Outstanding
<1>4. /\ sring.rsp_prod \in Index /\ sring.req_prod \in Index
      /\ be.req_cons \in Index /\ be.rp \in Index
      /\ c \in Index /\ fe.req_prod_pvt \in Index /\ fe.rp \in Index
      /\ Sub(sring.rsp_prod, c) \in Nat /\ Sub(be.req_cons, c) \in Nat
      /\ Sub(sring.req_prod, c) \in Nat /\ Sub(fe.req_prod_pvt, c) \in Nat
      /\ Sub(be.rp, c) \in Nat /\ Sub(fe.rp, c) \in Nat
      /\ RingSize \in Nat
  BY Positions, Sizes DEF Answered, Dispatched, Published, Outstanding
\* A step that moves no index of the back end but rp, to a fresh req_prod.
<1>5. ASSUME sring'.rsp_prod = sring.rsp_prod, sring'.req_prod = sring.req_prod,
             fe'.rsp_cons = c, fe'.req_prod_pvt = fe.req_prod_pvt,
             fe'.pc = fe.pc, fe'.queued = fe.queued, fe'.connected = fe.connected,
             fe'.rp = fe.rp, recovery' = recovery,
             be'.req_cons = be.req_cons, be'.rsp_prod_pvt = be.rsp_prod_pvt,
             be'.pc \in {"loop", "submit", "respond"} =>
               \/ be'.rp = sring.req_prod
               \/ be'.rp = be.rp /\ be.pc \in {"loop", "submit", "respond"}
      PROVE  RingOrder' /\ FrontOK'
  <2>1. FrontOK'
    BY <1>5, FrontSame
  <2>2. RingOrder'
    BY <1>2, <1>4, <1>5 DEF RingOrder, Answered, Dispatched, Published, Outstanding
  <2> QED BY <2>1, <2>2
<1>6. CASE Waiting
  <2>1. be'.pc \in {"loop", "submit", "respond"} =>
               \/ be'.rp = sring.req_prod
               \/ be'.rp = be.rp /\ be.pc \in {"loop", "submit", "respond"}
    BY <1>0, <1>6 DEF Waiting, BackendConnect, BackendInterrupt, WaitEvents,
                      ReadRequests, PoolEmpty, LoopDone, BeType
  <2> QED BY <1>5, <1>6, <2>1, WaitingStep
<1>7. ASSUME NEW p \in PendingReq, TakeRequest(p) PROVE RingOrder' /\ FrontOK'
  <2>1. /\ be.pc = "loop" /\ be.req_cons # be.rp
        /\ be' = [be EXCEPT !.req_cons = Succ(be.req_cons), !.pc = "submit"]
        /\ sring' = [sring EXCEPT !.ring[At(be.req_cons)] = NoEntry]
        /\ UNCHANGED <<fe, recovery>>
    BY <1>7, TakeStep
  <2>2. /\ be'.req_cons = Succ(be.req_cons) /\ be'.rp = be.rp /\ be'.pc = "submit"
        /\ be'.rsp_prod_pvt = be.rsp_prod_pvt
        /\ sring'.req_prod = sring.req_prod /\ sring'.rsp_prod = sring.rsp_prod
    BY <1>0, <2>1 DEF BeType, SringType
  <2>3. Sub(be.req_cons, c) # Sub(be.rp, c)
    BY <1>4, <2>1, SubZero
  <2>4. Sub(be.req_cons, c) < Sub(be.rp, c) /\ Sub(be.req_cons, c) < RingSize
    BY <1>2, <1>4, <2>1, <2>3
  <2>5. Sub(Succ(be.req_cons), c) = Sub(be.req_cons, c) + 1
    BY <1>4, <2>4, SubSucc
  <2>6. FrontOK'
    BY <2>1, <2>2, FrontSame
  <2>7. RingOrder'
    BY <1>2, <1>4, <2>1, <2>2, <2>4, <2>5
       DEF RingOrder, Answered, Dispatched, Published, Outstanding
  <2> QED BY <2>6, <2>7
<1>8. ASSUME NEW p \in PendingReq, Work(p) PROVE RingOrder' /\ FrontOK'
  <2>1. /\ be' = be \/ (be.pc = "submit" /\ be' \in {[be EXCEPT !.pc = "loop"],
                                                    [be EXCEPT !.pc = "respond"]})
        /\ UNCHANGED <<sring, fe, recovery>>
    BY <1>8, WorkStep DEF Work
  <2>2. /\ be'.req_cons = be.req_cons /\ be'.rsp_prod_pvt = be.rsp_prod_pvt
        /\ be'.rp = be.rp
        /\ be'.pc \in {"loop", "submit", "respond"} =>
             be.pc \in {"loop", "submit", "respond"}
    BY <1>0, <2>1 DEF BeType
  <2> QED BY <1>5, <2>1, <2>2
<1>9. ASSUME NEW p \in PendingReq, PushResponse(p) PROVE RingOrder' /\ FrontOK'
  <2>1. /\ be' = [be EXCEPT !.rsp_prod_pvt = Succ(be.rsp_prod_pvt)]
        /\ sring'.rsp_prod = Succ(be.rsp_prod_pvt)
        /\ sring'.req_prod = sring.req_prod
        /\ UNCHANGED <<fe, recovery>> /\ p \in Busy
    BY <1>9, PushStep DEF Busy
  <2>2. /\ be'.rsp_prod_pvt = Succ(be.rsp_prod_pvt) /\ be'.req_cons = be.req_cons
        /\ be'.rp = be.rp /\ be'.pc = be.pc
    BY <1>0, <2>1 DEF BeType
  <2>3. Sub(be.req_cons, be.rsp_prod_pvt) # 0
    BY <2>1, FS_EmptySet DEF BusyCounted
  <2>4. Sub(sring.rsp_prod, c) < Sub(be.req_cons, c)
    BY <1>2, <1>4, <2>3, SubZero
  <2>5. Sub(Succ(sring.rsp_prod), c) = Sub(sring.rsp_prod, c) + 1
    <3>1. Sub(sring.rsp_prod, c) < RingSize
      BY <1>2, <1>4, <2>4
    <3> QED BY <1>4, <3>1, SubSucc
  <2>6. FrontOK'
    BY <2>1, <2>2, FrontSame
  <2>7. RingOrder'
    BY <1>2, <1>4, <2>1, <2>2, <2>4, <2>5
       DEF RingOrder, Answered, Dispatched, Published, Outstanding
  <2> QED BY <2>6, <2>7
<1>10. ASSUME NEW p \in PendingReq, Tail(p) PROVE RingOrder' /\ FrontOK'
  <2>1. /\ sring'.req_prod = sring.req_prod /\ sring'.rsp_prod = sring.rsp_prod
        /\ UNCHANGED <<be, fe, recovery>>
    BY <1>0, <1>10, TailStep DEF Tail, SringType
  <2> QED BY <1>5, <2>1
<1>11. ASSUME NEW p \in PendingReq, Tell(p) PROVE RingOrder' /\ FrontOK'
  <2>1. /\ be' = [be EXCEPT !.waiting_reqs = be.waiting_reqs \/ pend[p].more]
        /\ fe' = [fe EXCEPT !.irq = fe.irq \/ pend[p].notify]
        /\ UNCHANGED <<sring, recovery>>
    BY <1>11, TellStep
  <2>2. /\ be'.req_cons = be.req_cons /\ be'.rsp_prod_pvt = be.rsp_prod_pvt
        /\ be'.rp = be.rp /\ be'.pc = be.pc
    BY <1>0, <2>1 DEF BeType
  <2>3. /\ fe'.rsp_cons = c /\ fe'.req_prod_pvt = fe.req_prod_pvt
        /\ fe'.pc = fe.pc /\ fe'.queued = fe.queued /\ fe'.connected = fe.connected
        /\ fe'.rp = fe.rp
    BY <1>0, <2>1 DEF FeType
  <2> QED BY <1>5, <2>1, <2>2, <2>3
<1>12. ASSUME NEW p \in PendingReq, FreeReq(p) PROVE RingOrder' /\ FrontOK'
  <2>1. /\ \/ be' = be \/ be' = [be EXCEPT !.pc = "wait"]
           \/ be.pc = "respond" /\ be' = [be EXCEPT !.pc = "loop"]
        /\ UNCHANGED <<sring, fe, recovery>>
    BY <1>12, FreeStep
  <2>2. /\ be'.req_cons = be.req_cons /\ be'.rsp_prod_pvt = be.rsp_prod_pvt
        /\ be'.rp = be.rp
        /\ be'.pc \in {"loop", "submit", "respond"} =>
             be.pc \in {"loop", "submit", "respond"}
    BY <1>0, <2>1 DEF BeType
  <2> QED BY <1>5, <2>1, <2>2
<1> QED BY <1>6, <1>7, <1>8, <1>9, <1>10, <1>11, <1>12

\* A restore starts from empty rings.
LEMMA Restarted ==
  ASSUME Typed, FrontOK, Resume
  PROVE  RingOrder' /\ FrontOK'
<1>0. fe \in FeType /\ fe.connected = "connected" /\ fe.pc = "idle" /\ ~fe.queued
  BY DEF Typed, Resume, FrontOK
<1>1. /\ fe'.connected = "suspended" /\ fe'.req_prod_pvt = 0 /\ fe'.rsp_cons = 0
      /\ fe'.pc = "idle" /\ ~fe'.queued
  BY <1>0 DEF Resume, FeType
<1>2. /\ sring'.req_prod = 0 /\ sring'.rsp_prod = 0
      /\ be'.req_cons = 0 /\ be'.rsp_prod_pvt = 0 /\ be'.pc = "wait"
      /\ recovery' = "requeue"
  BY DEF Resume, SharedRingInit, FreshBackend
<1>3. Sub(0, 0) = 0
  BY Sizes, SubFacts
<1>4. FrontOK'
  BY <1>1, <1>2, <1>3 DEF FrontOK, Published, Outstanding
<1>5. RingOrder'
  BY <1>1, <1>2, <1>3, Sizes DEF RingOrder, Answered, Dispatched, Published, Outstanding
<1> QED BY <1>4, <1>5

\* The thread's requests are counted.
LEMMA BusyKept ==
  ASSUME Typed, BiosCounted, OwnerOK, RingOrder, FrontOK, BusyCounted, [Next]_vars
  PROVE  BusyCounted'
<1>0. /\ be \in BeType /\ pend \in [PendingReq -> PendType]
      /\ be.req_cons \in Index /\ be.rsp_prod_pvt \in Index
  BY DEF Typed, BeType
<1>1. ASSUME Busy' = Busy, be'.req_cons = be.req_cons,
             be'.rsp_prod_pvt = be.rsp_prod_pvt
      PROVE  BusyCounted'
  BY <1>1 DEF BusyCounted
<1>2. CASE Front
  <2>1. pend' = pend /\ be'.req_cons = be.req_cons /\ be'.rsp_prod_pvt = be.rsp_prod_pvt
    BY <1>0, <1>2, FrontStep DEF BeType
  <2> QED BY <1>1, <2>1 DEF Busy
<1>3. CASE Waiting
  <2>1. pend' = pend /\ be'.req_cons = be.req_cons /\ be'.rsp_prod_pvt = be.rsp_prod_pvt
    BY <1>3, WaitingStep
  <2> QED BY <1>1, <2>1 DEF Busy
<1>4. CASE Resume
  <2>1. /\ pend' = [p \in PendingReq |-> FreePending]
        /\ be'.req_cons = 0 /\ be'.rsp_prod_pvt = 0
    BY <1>4 DEF Resume, FreshBackend
  <2>2. Busy' = {}
    BY <2>1 DEF Busy, FreePending
  <2>3. Sub(0, 0) = 0
    BY Sizes, SubFacts
  <2> QED BY <2>1, <2>2, <2>3, FS_EmptySet DEF BusyCounted
<1>5. ASSUME NEW p \in PendingReq,
             \A r \in PendingReq : r # p => pend'[r] = pend[r],
             \/ pend[p].pc \in {"submit", "io", "respond"}
                /\ pend'[p].pc \in {"submit", "io", "respond"}
             \/ pend[p].pc \notin {"submit", "io", "respond"}
                /\ pend'[p].pc \notin {"submit", "io", "respond"}
      PROVE  Busy' = Busy
  BY <1>5 DEF Busy
<1>6. ASSUME NEW p \in PendingReq, Work(p) PROVE BusyCounted'
  <2>1. Busy' = Busy
    BY <1>5, <1>6, WorkStep DEF Work
  <2>2. be' \in {be, [be EXCEPT !.pc = "loop"], [be EXCEPT !.pc = "respond"]}
    BY <1>6, WorkStep DEF Work
  <2>3. be'.req_cons = be.req_cons /\ be'.rsp_prod_pvt = be.rsp_prod_pvt
    BY <1>0, <2>2 DEF BeType
  <2> QED BY <1>1, <2>1, <2>3
<1>7. ASSUME NEW p \in PendingReq, Tail(p) PROVE BusyCounted'
  <2>1. Busy' = Busy /\ be' = be
    BY <1>5, <1>7, TailStep DEF Tail, Locking
  <2> QED BY <1>1, <2>1
<1>8. ASSUME NEW p \in PendingReq, Tell(p) PROVE BusyCounted'
  <2>1. Busy' = Busy
    BY <1>5, <1>8, TellStep
  <2>2. be' = [be EXCEPT !.waiting_reqs = be.waiting_reqs \/ pend[p].more]
    BY <1>8, TellStep
  <2>3. be'.req_cons = be.req_cons /\ be'.rsp_prod_pvt = be.rsp_prod_pvt
    BY <1>0, <2>2 DEF BeType
  <2> QED BY <1>1, <2>1, <2>3
<1>9. ASSUME NEW p \in PendingReq, FreeReq(p) PROVE BusyCounted'
  <2>0. FreePending.pc = "free"
    BY DEF FreePending
  <2>1. pend[p].pc = "release" /\ pend'[p].pc = "free"
    BY <1>9, <2>0, FreeStep
  <2>2. Busy' = Busy
    BY <1>5, <1>9, <2>1, FreeStep
  <2>3. be' \in {be, [be EXCEPT !.pc = "wait"], [be EXCEPT !.pc = "loop"]}
    BY <1>9, FreeStep
  <2>4. be'.req_cons = be.req_cons /\ be'.rsp_prod_pvt = be.rsp_prod_pvt
    BY <1>0, <2>3 DEF BeType
  <2> QED BY <1>1, <2>2, <2>4
<1>10. /\ Answered \in Nat /\ Dispatched \in Nat /\ Published \in Nat
       /\ Sub(be.req_cons, be.rsp_prod_pvt) = Dispatched - Answered
       /\ Outstanding \in Nat /\ RingSize \in Nat /\ Dispatched <= RingSize
       /\ Answered <= Dispatched
  BY RingCounts, Positions, Sizes DEF RingOrder
<1>11. ASSUME NEW p \in PendingReq, TakeRequest(p) PROVE BusyCounted'
  <2>1. /\ pend[p].pc = "free" /\ pend'[p].pc = "submit"
        /\ \A r \in PendingReq : r # p => pend'[r] = pend[r]
        /\ be' = [be EXCEPT !.req_cons = Succ(be.req_cons), !.pc = "submit"]
        /\ be.pc = "loop" /\ be.req_cons # be.rp
    BY <1>11, TakeStep
  <2>2. Busy' = Busy \cup {p} /\ p \notin Busy
    BY <2>1 DEF Busy
  <2>3. be'.req_cons = Succ(be.req_cons) /\ be'.rsp_prod_pvt = be.rsp_prod_pvt
    BY <1>0, <2>1 DEF BeType
  <2>4. Sub(be.req_cons, be.rsp_prod_pvt) < RingSize
    <3>1. Dispatched <= Sub(be.rp, fe.rsp_cons) /\ Sub(be.rp, fe.rsp_cons) <= Published
      BY <2>1 DEF RingOrder
    <3>2. Dispatched # Sub(be.rp, fe.rsp_cons)
      BY <2>1, Positions, SubZero DEF Dispatched
    <3>3. Published <= RingSize /\ Sub(be.rp, fe.rsp_cons) \in Nat
      BY <1>10, Positions DEF RingOrder
    <3> QED BY <1>10, <3>1, <3>2, <3>3
  <2>5. Sub(Succ(be.req_cons), be.rsp_prod_pvt) = Sub(be.req_cons, be.rsp_prod_pvt) + 1
    BY <1>0, <2>4, SubSucc
  <2> QED BY <2>2, <2>3, <2>5, FS_AddElement DEF BusyCounted
<1>12. ASSUME NEW p \in PendingReq, PushResponse(p) PROVE BusyCounted'
  <2>1. /\ pend[p].pc = "respond" /\ pend'[p].pc = "notify"
        /\ \A r \in PendingReq : r # p => pend'[r] = pend[r]
        /\ be' = [be EXCEPT !.rsp_prod_pvt = Succ(be.rsp_prod_pvt)]
    BY <1>12, PushStep
  <2>2. Busy' = Busy \ {p} /\ p \in Busy
    BY <2>1 DEF Busy
  <2>3. be'.req_cons = be.req_cons /\ be'.rsp_prod_pvt = Succ(be.rsp_prod_pvt)
    BY <1>0, <2>1 DEF BeType
  <2>4. Sub(be.req_cons, be.rsp_prod_pvt) > 0
    <3>1. Cardinality(Busy) # 0
      BY <2>2, FS_EmptySet DEF BusyCounted
    <3> QED BY <1>10, <3>1 DEF BusyCounted
  <2>5. Sub(be.req_cons, Succ(be.rsp_prod_pvt)) = Sub(be.req_cons, be.rsp_prod_pvt) - 1
    BY <1>0, <2>4, SubSucc
  <2> QED BY <2>2, <2>3, <2>5, FS_RemoveElement DEF BusyCounted
<1> QED BY <1>2, <1>3, <1>4, <1>6, <1>7, <1>8, <1>9, <1>11, <1>12, Steps

\* All steps keep the types.
LEMMA TypeKept ==
  ASSUME Typed, BiosCounted, [Next]_vars
  PROVE  Typed'
<1>1. CASE UNCHANGED vars
  BY <1>1 DEF vars, Typed
<1>2. CASE Next
  BY <1>2, TypeRequest, TypeResponse, TypeThread, TypeRespond DEF Next, Frontend
<1> QED BY <1>1, <1>2

\* The control part of the invariant: types, counts, locks and indices.
RingInv ==
    /\ Typed /\ BiosCounted /\ OwnerOK /\ LockOK
    /\ RingOrder /\ FrontOK /\ BusyCounted

\* RingInv holds at first, ...
LEMMA RingInitial == Init => RingInv
<1> SUFFICES ASSUME Init PROVE RingInv
  OBVIOUS
<1>1. Typed
  <2>1. fe \in FeType
    BY Sizes DEF Init, FeType
  <2> QED BY <2>1, FreshTypes DEF Init, Typed
<1>2. BiosCounted
  BY FreeInOrder DEF Init, BiosCounted, InOrder
<1>3. \A p \in PendingReq : /\ pend[p].pc = "free" /\ pend[p].own = FALSE
                            /\ pend[p].notify = FALSE
  BY DEF Init, FreePending
<1>4. OwnerOK /\ LockOK
  BY <1>3 DEF Init, OwnerOK, LockOK, Holds, Locking
<1>5. Sub(0, 0) = 0
  BY Sizes, SubFacts
<1>6. RingOrder
  BY <1>5, Sizes DEF Init, RingOrder, SharedRingInit, FreshBackend, Answered,
                     Dispatched, Published, Outstanding
<1>7. FrontOK
  BY <1>5 DEF Init, FrontOK, SharedRingInit, Published, Outstanding
<1>8. Busy = {}
  BY <1>3 DEF Busy
<1>9. BusyCounted
  BY <1>5, <1>8, FS_EmptySet DEF Init, BusyCounted, FreshBackend
<1> QED BY <1>1, <1>2, <1>4, <1>6, <1>7, <1>9 DEF RingInv

\* ... and every step keeps it.
LEMMA RingNext == RingInv /\ [Next]_vars => RingInv'
<1> SUFFICES ASSUME RingInv, [Next]_vars PROVE RingInv'
  OBVIOUS
<1>0. /\ Typed /\ BiosCounted /\ OwnerOK /\ LockOK
      /\ RingOrder /\ FrontOK /\ BusyCounted
  BY DEF RingInv
<1>1. Typed' /\ BiosCounted'
  BY <1>0, TypeKept, BiosKept
<1>2. OwnerOK' /\ LockOK' /\ BusyCounted'
  BY <1>0, <1>1, PoolKept, BusyKept
<1>3. RingOrder' /\ FrontOK'
  BY <1>0, <1>1, FrontOrder, BackOrder, Restarted, Steps
<1> QED BY <1>1, <1>2, <1>3 DEF RingInv

\* Hence it always holds.
LEMMA RingInvariant == Spec => []RingInv
BY RingInitial, RingNext, PTL DEF Spec

-----------------------------------------------------------------------------
(* Nobody is forgotten.                                                    *)

\* The next request will raise an event.
Armed == sring.req_event = Succ(be.req_cons)

\* A request in progress has its tail check ahead of it.
Looking == \E p \in PendingReq :
               pend[p].pc \in {"submit", "io", "respond"} \cup Locking

\* The thread runs, or will run, and has not yet seen all requests.
Coming ==
    \/ \E p \in PendingReq : pend[p].pc = "tell" /\ pend[p].more
    \/ be.waiting_reqs
    \/ be.pc = "read"
    \/ be.pc \in {"loop", "submit", "respond"} /\ be.rp # be.req_cons
    \/ Looking

Kicking == fe.pc = "notify" /\ CheckNotify(fe.old, sring.req_prod, sring.req_event)

BackWoken ==
    /\ be.pc = "pool" => be.waiting_reqs
    /\ \A p \in PendingReq : pend[p].pc = "plain" => Busy # {}
    /\ \A p \in PendingReq : pend[p].pc = "retest" => Armed \/ Busy # {}
    /\ Armed \/ Looking \/ (sring.req_prod # be.req_cons /\ Coming)
    /\ be.bound /\ sring.req_prod # be.req_cons => Coming \/ be.irq \/ Kicking

\* BackWoken is what BackendWoken needs.
LEMMA BackWakes ==
  ASSUME RingInv, BackWoken PROVE BackendWoken
<1> SUFFICES ASSUME be.bound, be.pc = "wait", ~be.waiting_reqs,
                    sring.req_prod # be.req_cons
             PROVE  \/ be.irq \/ Kicking
                    \/ \E p \in PendingReq :
                         \/ pend[p].pc \in {"io", "respond", "notify", "tail", "final",
                                            "plain", "event", "retest"}
                         \/ pend[p].pc = "tell" /\ pend[p].more
  BY DEF BackendWoken, Kicking
<1>1. \A p \in PendingReq : pend[p].pc # "submit"
  BY DEF RingInv, OwnerOK
<1>2. Coming \/ be.irq \/ Kicking
  BY DEF BackWoken
<1> QED BY <1>1, <1>2 DEF Coming, Looking, Locking

\* A front end about to notify does so, with the old index it remembers.
LEMMA KickStays ==
  ASSUME Typed, FrontOK, fe.pc = "notify", Front, ~NotifyBackend
  PROVE  fe'.pc = "notify" /\ fe'.old = fe.old
         /\ UNCHANGED <<sring.req_prod, sring.req_event>>
<1>0. /\ fe \in FeType /\ ~fe.queued /\ recovery = "no"
  BY DEF Typed, FrontOK
<1>1. BlockLayer \/ GrantsFreed \/ UNCHANGED vars
  BY <1>0 DEF Front, Frontend, RestartQueue, Interrupt, Connect, Recovery, Recover,
              RecoverConnect, QueueRequest, GrantShortage, RequestsDone,
              ConsumeResponse, ConsumedAll, SetRspEvent, Retest
<1>2. sring' = sring /\ (fe' = fe \/ fe' = [fe EXCEPT !.callback = FALSE, !.work = TRUE])
  BY <1>1 DEF BlockLayer, RunQueue, Submit, SubmitAtBack, Queued, GrantsFreed, vars,
              feVars
<1> QED BY <1>0, <1>2 DEF FeType

\* blkfront keeps BackWoken: it notifies when it passes req_event, ...
LEMMA BackFront ==
  ASSUME RingInv, BackWoken, Front
  PROVE  BackWoken'
<1>0. /\ Typed /\ FrontOK /\ RingOrder /\ be \in BeType /\ sring \in SringType
      /\ fe \in FeType
  BY DEF RingInv, Typed
<1>1. /\ pend' = pend
      /\ be'.pc = be.pc /\ be'.waiting_reqs = be.waiting_reqs /\ be'.rp = be.rp
      /\ be'.req_cons = be.req_cons /\ be'.bound = be.bound
      /\ be.irq => be'.irq
  BY <1>0, FrontStep DEF BeType
<1>2. Busy' = Busy /\ (Looking' <=> Looking) /\ (Coming' <=> Coming)
  BY <1>1 DEF Busy, Looking, Coming
<1>3. ASSUME UNCHANGED <<sring.req_prod, sring.req_event>>,
             be.bound /\ Kicking => Kicking' \/ be'.irq
      PROVE  BackWoken'
  <2>1. Armed' <=> Armed
    BY <1>1, <1>3 DEF Armed
  <2>2. /\ be'.pc = "pool" => be'.waiting_reqs
        /\ \A p \in PendingReq : pend'[p].pc = "plain" => Busy' # {}
        /\ \A p \in PendingReq : pend'[p].pc = "retest" => Armed' \/ Busy' # {}
        /\ Armed' \/ Looking' \/ (sring'.req_prod # be'.req_cons /\ Coming')
    BY <1>1, <1>2, <1>3, <2>1 DEF BackWoken
  <2>3. be'.bound /\ sring'.req_prod # be'.req_cons => Coming' \/ be'.irq \/ Kicking'
    BY <1>1, <1>2, <1>3 DEF BackWoken
  <2> QED BY <2>2, <2>3 DEF BackWoken
<1>4. CASE NotifyBackend
  <2>1. /\ sring' = sring
        /\ be' = [be EXCEPT !.irq = be.irq \/
                 (be.bound /\ CheckNotify(fe.old, sring.req_prod,
                                          sring.req_event))]
    BY <1>4 DEF NotifyBackend
  <2>2. be.bound /\ Kicking => be'.irq
    BY <1>0, <2>1 DEF Kicking, BeType
  <2> QED BY <1>3, <2>1, <2>2
<1>5. CASE fe.pc = "notify" /\ ~NotifyBackend
  <2>1. Kicking => Kicking'
    BY <1>0, <1>5, KickStays DEF Kicking
  <2> QED BY <1>0, <1>3, <1>5, <2>1, KickStays
<1>6. CASE fe.pc # "notify" /\ ~Flush
  <2>1. ~Kicking
    BY <1>6 DEF Kicking
  <2>2. CASE Quiet
    BY <1>0, <1>3, <2>1, <2>2, QuietStep
  <2>3. ASSUME NEW r \in Request, QueueRequest(r) PROVE BackWoken'
    <3>1. UNCHANGED <<sring.req_prod, sring.req_event>>
      BY <1>0, <2>3, QueueStep DEF SringType
    <3> QED BY <1>3, <2>1, <3>1
  <2>4. CASE ConsumeResponse
    <3>1. UNCHANGED <<sring.req_prod, sring.req_event>>
      BY <1>0, <2>4, ConsumeStep DEF SringType
    <3> QED BY <1>3, <2>1, <3>1
  <2>5. CASE Recover
    <3>1. UNCHANGED <<sring.req_prod, sring.req_event>>
      BY <1>0, <2>5, RecoverStep DEF SringType
    <3> QED BY <1>3, <2>1, <3>1
  <2> QED BY <1>6, <2>2, <2>3, <2>4, <2>5, FrontSteps
<1>7. CASE fe.pc # "notify" /\ Flush
  <2>1. /\ sring'.req_prod = fe.req_prod_pvt /\ sring'.req_event = sring.req_event
        /\ fe'.pc = "notify" /\ fe'.old = sring.req_prod
    BY <1>0, <1>7, FlushStep DEF SringType
  <2>2. ~Kicking /\ (Armed' <=> Armed)
    BY <1>1, <1>7, <2>1 DEF Kicking, Armed
  <2>3. CASE sring.req_prod # be.req_cons
    <3>1. /\ be.bound => Coming' \/ be'.irq
          /\ Armed' \/ Looking' \/ Coming'
      BY <1>1, <1>2, <2>2, <2>3 DEF BackWoken
    <3>2. sring'.req_prod # be'.req_cons
      <4>1. Published # Dispatched
        BY <1>0, <2>3, RingCounts
      <4>2. Dispatched < Outstanding
        BY <1>0, <4>1, Positions DEF RingOrder
      <4>3. fe.req_prod_pvt # be.req_cons
        <5>1. fe.req_prod_pvt = be.req_cons => Outstanding = Dispatched
          BY DEF Dispatched, Outstanding
        <5>2. Outstanding # Dispatched
          BY <1>0, <4>2, Positions
        <5> QED BY <5>1, <5>2
      <4> QED BY <1>1, <2>1, <4>3
    <3> QED BY <1>1, <1>2, <2>2, <3>1, <3>2 DEF BackWoken
  <2>4. CASE sring.req_prod = be.req_cons
    <3>1. Armed' \/ Looking'
      BY <1>2, <2>2, <2>4 DEF BackWoken
    <3>2. sring'.req_prod # be'.req_cons => Looking' \/ Kicking'
      <4> SUFFICES ASSUME fe.req_prod_pvt # be.req_cons, ~Looking' PROVE Kicking'
        BY <1>1, <2>1
      <4>1. sring.req_event = Succ(sring.req_prod)
        BY <2>2, <2>4, <3>1 DEF Armed
      <4> DEFINE new == fe.req_prod_pvt
                 old == sring.req_prod
      <4>2. new \in Index /\ old \in Index /\ new # old
        BY <1>0, <2>4, Positions
      <4> HIDE DEF new, old
      <4>3. Sub(new, old) > 0 /\ Sub(new, old) \in Nat
        <5>1. Sub(new, old) \in Index
          BY <4>2, SubFacts
        <5>2. Sub(new, old) # 0
          BY <4>2, SubZero
        <5> QED BY <5>1, <5>2, Sizes DEF Index
      <4>4. Sub(new, Succ(old)) = Sub(new, old) - 1
        BY <4>2, <4>3, SubSucc
      <4>5. CheckNotify(old, new, Succ(old))
        BY <4>3, <4>4 DEF CheckNotify
      <4> QED BY <2>1, <4>1, <4>5 DEF Kicking, new, old
    <3>3. Looking' => Coming'
      BY DEF Coming
    <3> QED BY <1>1, <1>2, <2>2, <3>1, <3>2, <3>3 DEF BackWoken
  <2> QED BY <2>3, <2>4
<1> QED BY <1>4, <1>5, <1>6, <1>7

\* ... and so do the thread's tests before it sleeps, ...
LEMMA BackWaiting ==
  ASSUME RingInv, BackWoken, Waiting
  PROVE  BackWoken'
<1>0. /\ Typed /\ RingOrder /\ BusyCounted /\ be \in BeType
  BY DEF RingInv, Typed
<1>1. UNCHANGED <<sring, fe, pend>> /\ be'.req_cons = be.req_cons
  BY <1>0, WaitingStep
<1>2. /\ Busy' = Busy /\ (Looking' <=> Looking) /\ (Armed' <=> Armed)
      /\ (Kicking' <=> Kicking)
  BY <1>1 DEF Busy, Looking, Armed, Kicking
<1>3. ASSUME be'.pc = "pool" => be'.waiting_reqs,
             sring.req_prod # be.req_cons /\ Coming => Coming',
             be'.bound /\ sring.req_prod # be.req_cons =>
                Coming' \/ be'.irq \/ (be.bound /\ Kicking)
      PROVE  BackWoken'
  BY <1>1, <1>2, <1>3 DEF BackWoken
<1>4. CASE BackendConnect
  <2>1. be' = [be EXCEPT !.bound = TRUE, !.irq = TRUE]
    BY <1>4 DEF BackendConnect
  <2>2. /\ be'.irq = TRUE /\ be'.pc = be.pc /\ be'.waiting_reqs = be.waiting_reqs
        /\ be'.rp = be.rp
    BY <1>0, <2>1 DEF BeType
  <2>3. Coming => Coming'
    BY <1>1, <1>2, <2>2 DEF Coming
  <2> QED BY <1>3, <2>2, <2>3 DEF BackWoken
<1>5. CASE BackendInterrupt
  <2>1. be' = [be EXCEPT !.irq = FALSE, !.waiting_reqs = TRUE]
    BY <1>5 DEF BackendInterrupt
  <2>2. be'.waiting_reqs = TRUE
    BY <1>0, <2>1 DEF BeType
  <2>3. Coming'
    BY <2>2 DEF Coming
  <2> QED BY <1>3, <2>2, <2>3
<1>6. CASE WaitEvents
  <2>1. \/ be' = [be EXCEPT !.pc = "pool"]
        \/ be' = [be EXCEPT !.pc = "read", !.waiting_reqs = FALSE]
    BY <1>6 DEF WaitEvents
  <2>2. be.waiting_reqs
    BY <1>6 DEF WaitEvents
  <2>3. \/ be'.pc = "pool" /\ be'.waiting_reqs
        \/ be'.pc = "read"
    BY <1>0, <2>1, <2>2 DEF BeType
  <2>4. Coming'
    BY <2>3 DEF Coming
  <2> QED BY <1>3, <2>3, <2>4
<1>7. CASE ReadRequests
  <2>1. be' = [be EXCEPT !.rp = sring.req_prod, !.pc = "loop"]
    BY <1>7 DEF ReadRequests
  <2>2. be'.pc = "loop" /\ be'.rp = sring.req_prod
    BY <1>0, <2>1 DEF BeType
  <2>3. sring.req_prod # be.req_cons => Coming'
    BY <1>1, <2>2 DEF Coming
  <2> QED BY <1>3, <2>2, <2>3
<1>8. CASE PoolEmpty
  <2>1. be' = [be EXCEPT !.pc = "wait", !.waiting_reqs = TRUE, !.rp = 0]
    BY <1>8 DEF PoolEmpty
  <2>2. be'.waiting_reqs = TRUE /\ be'.pc = "wait"
    BY <1>0, <2>1 DEF BeType
  <2>3. Coming'
    BY <2>2 DEF Coming
  <2> QED BY <1>3, <2>2, <2>3
<1>9. CASE LoopDone
  <2>1. /\ be' = [be EXCEPT !.pc = "wait", !.rp = 0] /\ be.pc = "loop"
        /\ be.req_cons = be.rp \/ Sub(be.req_cons, be.rsp_prod_pvt) >= RingSize
    BY <1>9 DEF LoopDone, LoopEnds, RequestConsOverflow
  <2>2. /\ be'.pc = "wait" /\ be'.waiting_reqs = be.waiting_reqs
        /\ be'.irq = be.irq /\ be'.bound = be.bound
    BY <1>0, <2>1 DEF BeType
  <2>3. CASE be.req_cons = be.rp
    <3>1. Coming => Coming'
      BY <1>1, <1>2, <2>1, <2>2, <2>3 DEF Coming
    <3> QED BY <1>3, <2>2, <3>1 DEF BackWoken
  <2>4. CASE Sub(be.req_cons, be.rsp_prod_pvt) >= RingSize
    <3>1. Cardinality(Busy) # 0
      BY <1>0, <2>4, Sizes DEF BusyCounted
    <3>2. Busy # {}
      BY <3>1, FS_EmptySet
    <3>3. Looking
      BY <3>2 DEF Busy, Looking
    <3>4. Coming'
      BY <1>2, <3>3 DEF Coming
    <3> QED BY <1>3, <2>2, <3>4
  <2> QED BY <2>1, <2>3, <2>4
<1> QED BY <1>4, <1>5, <1>6, <1>7, <1>8, <1>9 DEF Waiting

\* What the tests at the end of make_response find.
LEMMA TailFinds ==
  ASSUME Typed, NEW p \in PendingReq, Tail(p)
  PROVE  /\ pend'[p].pc = "plain" => be.rsp_prod_pvt # be.req_cons
         /\ pend'[p].pc = "retest" => sring'.req_event = Succ(be.req_cons)
         /\ pend'[p].pc = "tell" =>
              /\ sring' = sring
              /\ pend'[p].more = (UnconsumedRequests > 0)
              /\ pend[p].pc \in {"retest", "plain"} \/ UnconsumedRequests > 0
<1> DEFINE q == pend[p]
<1>0. q \in PendType /\ pend \in [PendingReq -> PendType] /\ sring \in SringType
  BY DEF Typed
<1>1. ASSUME NEW n, pend' = [pend EXCEPT ![p] = n]
      PROVE  pend'[p] = n
  BY <1>0, <1>1
<1>2. CASE CheckRspEvent(p)
  <2> DEFINE v == CheckNotify(Sub(sring.rsp_prod, 1), sring.rsp_prod,
                              sring.rsp_event)
             n == [q EXCEPT !.pc = "tail", !.notify = v]
  <2>1. pend' = [pend EXCEPT ![p] = n]
    BY <1>2 DEF CheckRspEvent, RespStep
  <2>2. n.pc = "tail"
    BY <1>0 DEF PendType
  <2> HIDE DEF n
  <2> QED BY <1>1, <2>1, <2>2
<1>3. ASSUME NEW x
      PROVE  LET n == [q EXCEPT !.pc = x] IN n.pc = x
  BY <1>0 DEF PendType
<1>4. CASE TailCheck(p)
  <2> DEFINE x == IF be.rsp_prod_pvt = be.req_cons THEN "final" ELSE "plain"
             n == [q EXCEPT !.pc = x]
  <2>1. pend' = [pend EXCEPT ![p] = n]
    BY <1>4 DEF TailCheck, RespStep
  <2>2. n.pc = x
    BY <1>3
  <2> HIDE DEF n
  <2> QED BY <1>1, <2>1, <2>2
<1>5. CASE SetReqEvent(p)
  <2> DEFINE n == [q EXCEPT !.pc = "retest"]
  <2>1. pend' = [pend EXCEPT ![p] = n]
    BY <1>5 DEF SetReqEvent, RespStep
  <2>2. n.pc = "retest"
    BY <1>3
  <2>3. sring'.req_event = Succ(be.req_cons)
    BY <1>0, <1>5 DEF SetReqEvent, SringType
  <2> HIDE DEF n
  <2> QED BY <1>1, <2>1, <2>2, <2>3
<1>6. CASE FinalTest(p) /\ ~ (UnconsumedRequests > 0)
  <2> DEFINE n == [q EXCEPT !.pc = "event"]
  <2>1. pend' = [pend EXCEPT ![p] = n]
    BY <1>6 DEF FinalTest, RespStep
  <2>2. n.pc = "event"
    BY <1>3
  <2> HIDE DEF n
  <2> QED BY <1>1, <2>1, <2>2
<1>7. ASSUME NEW from, LastTest(p, from),
             from \in {"retest", "plain"} \/ UnconsumedRequests > 0
      PROVE  /\ pend'[p].pc = "tell" /\ sring' = sring
             /\ pend'[p].more = (UnconsumedRequests > 0)
             /\ pend[p].pc \in {"retest", "plain"} \/ UnconsumedRequests > 0
  <2> DEFINE v == UnconsumedRequests > 0
             n == [q EXCEPT !.pc = "tell", !.more = v]
  <2>1. pend' = [pend EXCEPT ![p] = n] /\ q.pc = from /\ sring' = sring
    BY <1>7 DEF LastTest, RespStep
  <2> HIDE DEF v
  <2>2. n.pc = "tell" /\ n.more = v
    BY <1>0 DEF PendType
  <2> HIDE DEF n
  <2> QED BY <1>1, <1>7, <2>1, <2>2 DEF v
<1>8. CASE FinalTest(p) /\ UnconsumedRequests > 0
  <2>1. LastTest(p, "final")
    BY <1>8 DEF FinalTest
  <2> QED BY <1>7, <1>8, <2>1
<1>9. CASE FinalRetest(p) \/ PlainTest(p)
  BY <1>7, <1>9 DEF FinalRetest, PlainTest
<1> QED BY <1>2, <1>4, <1>5, <1>6, <1>8, <1>9 DEF Tail

\* A step of a request in progress loses no work for the back end.
LEMMA BackPend ==
  ASSUME RingInv, BackWoken, NEW p \in PendingReq,
         \/ TakeRequest(p) \/ Work(p) \/ PushResponse(p)
         \/ Tail(p) \/ Tell(p) \/ FreeReq(p)
  PROVE  BackWoken'
<1>0. /\ Typed /\ BiosCounted /\ OwnerOK /\ LockOK /\ RingOrder /\ BusyCounted
      /\ be \in BeType /\ sring \in SringType /\ fe \in FeType
  BY DEF RingInv, Typed
<1>1. \A r \in PendingReq : r # p => pend'[r] = pend[r]
  BY <1>0, TakeStep, WorkStep, PushStep, TailStep, TellStep, FreeStep DEF Work, Tail
\* The request is among those that look for requests when they are done.
<1>2. ASSUME pend'[p].pc \in {"submit", "io", "respond"} \cup Locking,
             be'.pc = "pool" => be'.waiting_reqs,
             \A r \in PendingReq : pend'[r].pc = "plain" => Busy' # {},
             \A r \in PendingReq : pend'[r].pc = "retest" => Armed' \/ Busy' # {}
      PROVE  BackWoken'
  <2>1. Looking'
    BY <1>2 DEF Looking
  <2>2. Coming'
    BY <2>1 DEF Coming
  <2> QED BY <1>2, <2>1, <2>2 DEF BackWoken
<1>3. CASE TakeRequest(p)
  <2>1. be'.pc = "submit" /\ pend'[p].pc = "submit"
    BY <1>0, <1>3, TakeStep DEF BeType
  <2>2. p \in Busy'
    BY <2>1 DEF Busy
  <2> QED BY <1>2, <2>1, <2>2
<1>4. CASE Work(p)
  <2>1. /\ pend'[p].pc \in {"submit", "io", "respond"}
        /\ be' = be \/ be' = [be EXCEPT !.pc = "loop"] \/ be' = [be EXCEPT !.pc = "respond"]
    BY <1>0, <1>4, WorkStep DEF Work
  <2>2. p \in Busy'
    BY <2>1 DEF Busy
  <2>3. be'.pc = "pool" => be'.waiting_reqs
    BY <1>0, <2>1 DEF BackWoken, BeType
  <2> QED BY <1>2, <2>1, <2>2, <2>3
<1>5. CASE PushResponse(p)
  <2>1. /\ pend'[p].pc = "notify" /\ ring_lock = {}
        /\ be' = [be EXCEPT !.rsp_prod_pvt = Succ(be.rsp_prod_pvt)]
    BY <1>0, <1>5, PushStep
  <2>2. be'.pc = be.pc /\ be'.waiting_reqs = be.waiting_reqs
    BY <1>0, <2>1 DEF BeType
  <2>3. \A r \in PendingReq : pend'[r].pc \notin {"plain", "retest"}
    BY <1>0, <1>1, <2>1 DEF LockOK, Locking
  <2> QED BY <1>2, <2>1, <2>2, <2>3 DEF Locking, BackWoken
<1>6. CASE Tail(p)
  <2>1. /\ pend[p].pc \in Locking
        /\ pend'[p].pc \in {"tail", "final", "plain", "event", "retest", "tell"}
        /\ UNCHANGED <<be, fe>>
    BY <1>0, <1>6, TailStep DEF Tail
  <2>2. Busy' = Busy
    BY <1>1, <2>1 DEF Busy, Locking
  <2>3. \A r \in PendingReq : r # p => pend'[r].pc \notin {"plain", "retest"}
    BY <1>0, <1>1, <2>1 DEF LockOK, Locking
  <2>4. Sub(be.req_cons, be.rsp_prod_pvt) # 0 => Busy # {}
    BY <1>0, FS_EmptySet DEF BusyCounted
  <2>5. CASE pend'[p].pc # "tell"
    <3>1. pend'[p].pc = "plain" => Busy' # {}
      <4> SUFFICES ASSUME pend'[p].pc = "plain" PROVE Busy' # {}
        OBVIOUS
      <4>1. be.rsp_prod_pvt # be.req_cons
        BY <1>0, <1>6, TailFinds
      <4>2. Sub(be.req_cons, be.rsp_prod_pvt) # 0
        BY <1>0, <4>1, Positions, SubZero
      <4> QED BY <2>2, <2>4, <4>2
    <3>2. pend'[p].pc = "retest" => Armed'
      BY <1>0, <1>6, <2>1, TailFinds DEF Armed
    <3> QED BY <1>2, <2>1, <2>3, <2>5, <3>1, <3>2 DEF Locking, BackWoken
  <2>6. CASE pend'[p].pc = "tell"
    <3>1. /\ sring' = sring
          /\ pend'[p].more = (UnconsumedRequests > 0)
          /\ pend[p].pc \in {"retest", "plain"} \/ UnconsumedRequests > 0
      BY <1>0, <1>6, <2>6, TailFinds
    <3>2. (Armed' <=> Armed) /\ (Kicking' <=> Kicking)
      BY <2>1, <3>1 DEF Armed, Kicking
    <3>3. /\ be'.pc = "pool" => be'.waiting_reqs
          /\ \A r \in PendingReq : pend'[r].pc \notin {"plain", "retest"}
      BY <2>1, <2>3, <2>6 DEF BackWoken
    <3>4. CASE UnconsumedRequests > 0
      <4>1. sring.req_prod # be.req_cons
        BY <1>0, <3>4, RingCounts
      <4>2. Coming'
        BY <2>6, <3>1, <3>4 DEF Coming
      <4> QED BY <2>1, <3>1, <3>3, <4>1, <4>2 DEF BackWoken
    <3>5. CASE Busy # {}
      <4>1. Looking'
        BY <2>2, <3>5 DEF Busy, Looking
      <4>2. Coming'
        BY <4>1 DEF Coming
      <4> QED BY <3>3, <4>1, <4>2 DEF BackWoken
    <3>6. CASE ~ (UnconsumedRequests > 0) /\ Busy = {}
      <4>1. Armed
        BY <3>1, <3>6 DEF BackWoken
      <4>2. UnconsumedRequests = 0
        BY <1>0, <3>6, RingCounts
      <4>3. Dispatched - Answered # RingSize
        BY <1>0, <2>4, <3>6, RingCounts, Sizes
      <4>4. sring.req_prod = be.req_cons
        BY <1>0, <4>2, <4>3, RingCounts
      <4> QED BY <2>1, <3>1, <3>2, <3>3, <4>1, <4>4 DEF BackWoken
    <3> QED BY <3>4, <3>5, <3>6
  <2> QED BY <2>5, <2>6
\* A step outside the lock, after the tail check.
<1>7. ASSUME pend[p].pc \in {"tell", "release"}, pend'[p].pc \in {"release", "free"},
             sring' = sring, fe'.pc = fe.pc, fe'.old = fe.old,
             be'.req_cons = be.req_cons, be'.rp = be.rp, be'.bound = be.bound,
             be'.irq = be.irq,
             be'.pc = "pool" => be'.waiting_reqs,
             be.waiting_reqs \/ (pend[p].pc = "tell" /\ pend[p].more) => be'.waiting_reqs,
             \/ be'.pc = be.pc
             \/ be.pc = "pool"
             \/ be.pc = "respond" /\ be'.pc = "loop"
      PROVE  BackWoken'
  <2>1. Busy' = Busy /\ (Looking' <=> Looking)
    BY <1>1, <1>7 DEF Busy, Looking, Locking
  <2>2. (Armed' <=> Armed) /\ (Kicking' <=> Kicking)
    BY <1>7 DEF Armed, Kicking
  <2>3. be.waiting_reqs => be'.waiting_reqs
    BY <1>7
  <2>4. be.pc = "pool" => be'.waiting_reqs
    BY <2>3 DEF BackWoken
  <2>5. (\E r \in PendingReq : pend[r].pc = "tell" /\ pend[r].more) =>
           \/ be'.waiting_reqs
           \/ \E r \in PendingReq : pend'[r].pc = "tell" /\ pend'[r].more
    BY <1>1, <1>7
  <2>6. Coming => Coming'
    BY <1>7, <2>1, <2>3, <2>4, <2>5 DEF Coming
  <2>7. \A r \in PendingReq : pend'[r].pc \in {"plain", "retest"} =>
                                pend[r].pc = pend'[r].pc
    BY <1>1, <1>7
  <2> QED BY <1>7, <2>1, <2>2, <2>6, <2>7 DEF BackWoken
<1>8. CASE Tell(p)
  <2>1. /\ pend[p].pc = "tell" /\ pend'[p].pc = "release" /\ sring' = sring
        /\ be' = [be EXCEPT !.waiting_reqs = be.waiting_reqs \/ pend[p].more]
        /\ fe' = [fe EXCEPT !.irq = fe.irq \/ pend[p].notify]
    BY <1>0, <1>8, TellStep
  <2>2. /\ fe'.pc = fe.pc /\ fe'.old = fe.old
    BY <1>0, <2>1 DEF FeType
  <2>3. /\ be'.req_cons = be.req_cons /\ be'.rp = be.rp /\ be'.bound = be.bound
        /\ be'.irq = be.irq /\ be'.pc = be.pc
        /\ be'.waiting_reqs = (be.waiting_reqs \/ pend[p].more)
    BY <1>0, <2>1 DEF BeType
  <2>4. be'.pc = "pool" => be'.waiting_reqs
    BY <2>3 DEF BackWoken
  <2> QED BY <1>7, <2>1, <2>2, <2>3, <2>4
<1>9. CASE FreeReq(p)
  <2>1. /\ pend[p].pc = "release" /\ pend'[p] = FreePending
        /\ sring' = sring /\ fe' = fe
        /\ \/ be.pc = "pool" /\ be' = [be EXCEPT !.pc = "wait"]
           \/ be.pc = "respond" /\ be' = [be EXCEPT !.pc = "loop"]
           \/ be' = be
    BY <1>0, <1>9, FreeStep
  <2>2. pend'[p].pc = "free"
    BY <2>1 DEF FreePending
  <2>3. /\ be'.req_cons = be.req_cons /\ be'.rp = be.rp /\ be'.bound = be.bound
        /\ be'.irq = be.irq /\ be'.waiting_reqs = be.waiting_reqs
        /\ \/ be'.pc = be.pc
           \/ be.pc = "pool" /\ be'.pc = "wait"
           \/ be.pc = "respond" /\ be'.pc = "loop"
    BY <1>0, <2>1 DEF BeType
  <2>4. be'.pc = "pool" => be'.waiting_reqs
    BY <2>3 DEF BackWoken
  <2> QED BY <1>7, <2>1, <2>2, <2>3, <2>4
<1> QED BY <1>3, <1>4, <1>5, <1>6, <1>8, <1>9

\* At the start and with a new ring nothing is published, and req_event asks
\* for the first request.
LEMMA BackFresh ==
  /\ Init => BackWoken
  /\ Resume => BackWoken'
<1>1. Succ(0) = 1
  BY Sizes, SuccFacts
<1>2. Init => BackWoken
  <2> SUFFICES ASSUME Init PROVE BackWoken
    OBVIOUS
  <2>1. \A p \in PendingReq : pend[p].pc = "free"
    BY DEF Init, FreePending
  <2>2. /\ be.pc = "wait" /\ be.bound = FALSE /\ be.req_cons = 0
        /\ sring.req_event = 1
    BY DEF Init, FreshBackend, SharedRingInit
  <2> QED BY <1>1, <2>1, <2>2 DEF BackWoken, Armed
<1>3. Resume => BackWoken'
  <2> SUFFICES ASSUME Resume PROVE BackWoken'
    OBVIOUS
  <2>1. \A p \in PendingReq : pend'[p].pc = "free"
    BY DEF Resume, FreePending
  <2>2. /\ be'.pc = "wait" /\ be'.bound = FALSE /\ be'.req_cons = 0
        /\ sring'.req_event = 1
    BY DEF Resume, FreshBackend, SharedRingInit
  <2> QED BY <1>1, <2>1, <2>2 DEF BackWoken, Armed
<1> QED BY <1>2, <1>3

\* ... and all others.
LEMMA BackNext == RingInv /\ BackWoken /\ [Next]_vars => BackWoken'
BY BackFront, BackWaiting, BackPend, BackFresh, Steps

\* BackendWoken holds of every instance: blkback's thread never sleeps over
\* requests in the ring unless somebody has yet to wake it, although it re-arms
\* req_event only in the make_response that answers the last request it has
\* (blkback.c:606) and blkfront skips notifications by req_event.
THEOREM BackendNotForgotten == Spec => []BackendWoken
<1>1. Init => RingInv /\ BackWoken
  BY RingInitial, BackFresh
<1>2. RingInv /\ BackWoken /\ [Next]_vars => RingInv' /\ BackWoken'
  BY RingNext, BackNext
<1>3. RingInv /\ BackWoken => BackendWoken
  BY BackWakes
<1> QED BY <1>1, <1>2, <1>3, PTL DEF Spec

\* Some make_response has yet to find that it must notify, or has found it.
Reporting ==
    \E p \in PendingReq :
        \/ pend[p].notify
        \/ /\ pend[p].pc = "notify"
           /\ CheckNotify(Sub(sring.rsp_prod, 1), sring.rsp_prod, sring.rsp_event)

FrontWoken ==
    /\ fe.pc \notin {"consume", "event"} => sring.rsp_event = Succ(fe.rsp_cons)
    /\ fe.pc \notin {"consume", "event", "retest"} /\ Answered > 0 =>
         fe.irq \/ Reporting

\* What blkfront's steps do with its interrupt and with rsp_event.
LEMMA RestStep ==
  ASSUME Typed, FrontOK, Front
  PROVE  \/ fe'.pc \in {"consume", "event"}
         \/ /\ fe.pc \notin {"consume", "event", "retest"}
            /\ fe'.irq = fe.irq \/ fe.connected # "connected"
            /\ sring'.rsp_event = sring.rsp_event
         \/ /\ fe.pc = "consume" /\ fe.rsp_cons = fe.req_prod_pvt
            /\ sring'.rsp_event = Succ(fe.rsp_cons)
         \/ /\ fe.pc = "event" /\ fe'.pc = "retest"
            /\ sring'.rsp_event = Succ(fe.rsp_cons)
         \/ /\ fe.pc = "retest" /\ ~ (UnconsumedResponses > 0)
            /\ sring'.rsp_event = sring.rsp_event
         \/ UNCHANGED <<fe.pc, fe.irq, sring.rsp_event>>
<1> USE DEF feVars
<1>0. fe \in FeType /\ sring \in SringType
  BY DEF Typed
<1>1. CASE BlockLayer
  <2>1. /\ \/ fe' = fe
           \/ fe.pc = "idle" /\ fe' = [fe EXCEPT !.pc = "request", !.queued = FALSE]
        /\ sring' = sring
    BY <1>1 DEF BlockLayer, RunQueue, Submit, SubmitAtBack, Queued
  <2>2. CASE fe' = fe
    BY <2>1, <2>2
  <2>3. CASE fe.pc = "idle" /\ fe' = [fe EXCEPT !.pc = "request", !.queued = FALSE]
    <3>1. fe'.irq = fe.irq
      BY <1>0, <2>3 DEF FeType
    <3> QED BY <2>1, <2>3, <3>1
  <2> QED BY <2>1, <2>2, <2>3
<1>2. CASE NotifyBackend
  <2> DEFINE f == [fe EXCEPT !.pc = "idle", !.after = "idle", !.old = 0]
  <2>1. fe' \in {Kicked(f), f} /\ fe.pc = "notify" /\ sring' = sring
    BY <1>2 DEF NotifyBackend
  <2>2. f \in FeType /\ f.irq = fe.irq
    BY <1>0, Sizes DEF FeType
  <2> HIDE DEF f
  <2> QED BY <2>1, <2>2, KickedFacts
<1>3. CASE GrantsFreed
  <2>1. fe' = [fe EXCEPT !.callback = FALSE, !.work = TRUE] /\ sring' = sring
    BY <1>3 DEF GrantsFreed
  <2>2. fe'.pc = fe.pc /\ fe'.irq = fe.irq
    BY <1>0, <2>1 DEF FeType
  <2> QED BY <2>1, <2>2
<1>4. CASE RestartQueue
  <2> DEFINE f == [fe EXCEPT !.work = FALSE]
  <2>1. fe' \in {Kicked(f), f} /\ fe.pc = "idle" /\ sring' = sring
    BY <1>4 DEF RestartQueue
  <2>2. f \in FeType /\ f.irq = fe.irq
    BY <1>0 DEF FeType
  <2> HIDE DEF f
  <2> QED BY <2>1, <2>2, KickedFacts
<1>5. CASE Interrupt
  <2> DEFINE f == [fe EXCEPT !.irq = FALSE]
  <2>1. /\ (fe' = f /\ fe.connected # "connected") \/ fe' = Again(f)
        /\ fe.pc = "idle" /\ sring' = sring
    BY <1>5 DEF Interrupt
  <2>2. f \in FeType
    BY <1>0 DEF FeType
  <2> HIDE DEF f
  <2> QED BY <2>1, <2>2, AgainFacts
<1>6. CASE ConsumedAll
  <2> DEFINE f == [fe EXCEPT !.rp = 0]
  <2>1. \/ fe' = Again(f) \/ fe' = [f EXCEPT !.pc = "event"]
        \/ /\ fe.pc = "consume" /\ fe.rsp_cons = fe.req_prod_pvt
           /\ sring' = [sring EXCEPT !.rsp_event = Succ(fe.rsp_cons)]
    BY <1>6 DEF ConsumedAll
  <2>2. f \in FeType
    BY <1>0, Sizes DEF FeType
  <2> HIDE DEF f
  <2>3. fe' = [f EXCEPT !.pc = "event"] => fe'.pc = "event"
    BY <2>2 DEF FeType
  <2>4. sring' = [sring EXCEPT !.rsp_event = Succ(fe.rsp_cons)] =>
          sring'.rsp_event = Succ(fe.rsp_cons)
    BY <1>0 DEF SringType
  <2> QED BY <2>1, <2>2, <2>3, <2>4, AgainFacts
<1>7. CASE SetRspEvent
  <2>1. /\ fe' = [fe EXCEPT !.pc = "retest"] /\ fe.pc = "event"
        /\ sring' = [sring EXCEPT !.rsp_event = Succ(fe.rsp_cons)]
    BY <1>7 DEF SetRspEvent
  <2>2. fe'.pc = "retest" /\ sring'.rsp_event = Succ(fe.rsp_cons)
    BY <1>0, <2>1 DEF FeType, SringType
  <2> QED BY <2>1, <2>2
<1>8. CASE Retest
  <2>1. /\ fe.pc = "retest" /\ sring' = sring
        /\ fe' = Again(fe) \/ ~ (UnconsumedResponses > 0)
    BY <1>8 DEF Retest
  <2> QED BY <1>0, <2>1, AgainFacts
<1>9. CASE Connect
  <2> DEFINE f == [fe EXCEPT !.connected = "connected"]
  <2>1. fe' = Kicked(f) /\ fe.pc = "idle" /\ sring' = sring
    BY <1>9 DEF Connect
  <2>2. f \in FeType /\ f.irq = fe.irq
    BY <1>0 DEF FeType
  <2> HIDE DEF f
  <2> QED BY <2>1, <2>2, KickedFacts
<1>10. CASE UNCHANGED vars
  BY <1>10 DEF vars
<1>11. CASE ~fe.queued /\ (GrantShortage \/ RequestsDone)
  <2>1. PICK f \in {[fe EXCEPT !.callback = TRUE, !.stopped = TRUE],
                    [fe EXCEPT !.stopped = fe.stopped \/ Queue # {}]} :
          EndRequest(f)
    BY <1>11 DEF GrantShortage, RequestsDone
  <2>2. fe.pc = "request"
    BY <1>11 DEF GrantShortage, RequestsDone
  <2>3. f \in FeType /\ f.irq = fe.irq /\ f.queued = fe.queued
    BY <1>0, <1>11, <2>1 DEF FeType
  <2> HIDE <2>1
  <2>4. EndRequest(f)
    BY <2>1
  <2>5. fe' = [f EXCEPT !.pc = "idle"] /\ UNCHANGED sring
    BY <1>11, <2>3, <2>4 DEF EndRequest
  <2>6. fe'.irq = fe.irq
    BY <2>3, <2>5 DEF FeType
  <2> QED BY <2>2, <2>5, <2>6
<1>12. CASE Flush
  BY <1>0, <1>12, FlushStep DEF SringType
<1>13. ASSUME NEW r \in Request, QueueRequest(r)
       PROVE  fe.pc = "request" /\ fe'.irq = fe.irq /\ sring'.rsp_event = sring.rsp_event
  BY <1>0, <1>13, QueueStep DEF SringType
<1>14. CASE ConsumeResponse
  BY <1>14, ConsumeStep
<1>15. CASE Recover
  <2>1. /\ recovery = "requeue"
        /\ fe' = [fe EXCEPT !.req_prod_pvt = Cardinality(Used),
                        !.shadow_free = Cardinality(Used)]
        /\ sring'.rsp_event = sring.rsp_event
    BY <1>0, <1>15, RecoverStep DEF SringType
  <2>2. fe.pc \in {"idle", "request"}
    BY <2>1 DEF FrontOK
  <2>3. fe'.irq = fe.irq
    BY <1>0, <2>1 DEF FeType
  <2> QED BY <2>1, <2>2, <2>3
<1> QED BY <1>1, <1>2, <1>3, <1>4, <1>5, <1>6, <1>7, <1>8, <1>9, <1>10, <1>11, <1>12,
           <1>13, <1>14, <1>15, FrontSteps DEF Quiet

\* The responses that are there, and the front end's place.
LEMMA RestSame ==
  ASSUME Typed, FrontOK, Front, fe'.pc # "consume"
  PROVE  fe'.rsp_cons = fe.rsp_cons /\ sring'.rsp_prod = sring.rsp_prod
<1>0. fe \in FeType /\ sring \in SringType
  BY DEF Typed
<1>1. CASE Quiet
  BY <1>1, QuietStep DEF Rests
<1>2. CASE Flush
  BY <1>0, <1>2, FlushStep DEF SringType
<1>3. CASE Recover
  BY <1>0, <1>3, RecoverStep DEF FeType, SringType
<1>4. ASSUME NEW r \in Request, QueueRequest(r)
      PROVE  fe'.rsp_cons = fe.rsp_cons /\ sring'.rsp_prod = sring.rsp_prod
  BY <1>0, <1>4, QueueStep DEF SringType
<1> QED BY <1>1, <1>2, <1>3, <1>4, ConsumeStep, FrontSteps

\* Only a connected front end has responses in its ring.
LEMMA NoneAnswered ==
  ASSUME Typed, RingOrder, FrontOK, fe.connected # "connected"
  PROVE  Answered = 0
<1>1. /\ Answered \in Nat /\ Dispatched \in Nat /\ Published \in Nat
      /\ Outstanding \in Nat
      /\ Answered <= Dispatched /\ Dispatched <= Published
      /\ Published <= Outstanding
  BY Positions DEF RingOrder
<1>2. Outstanding = 0 \/ Published = 0
  BY DEF FrontOK, Typed, FeType
<1> QED BY <1>1, <1>2

\* blkfront keeps FrontWoken: it rests only after it has tested once more.
LEMMA RestFront ==
  ASSUME RingInv, FrontWoken, Front
  PROVE  FrontWoken'
<1>0. /\ Typed /\ FrontOK /\ RingOrder /\ fe \in FeType
  BY DEF RingInv, Typed
<1>1. pend' = pend
  BY FrontStep
<1> SUFFICES ASSUME fe'.pc \notin {"consume", "event"}
             PROVE  /\ sring'.rsp_event = Succ(fe'.rsp_cons)
                    /\ fe'.pc # "retest" /\ Answered' > 0 => fe'.irq \/ Reporting'
  BY DEF FrontWoken
<1>2. fe'.rsp_cons = fe.rsp_cons /\ sring'.rsp_prod = sring.rsp_prod
  BY <1>0, RestSame
<1>3. Answered' = Answered /\ Answered \in Nat
  BY <1>0, <1>2, Positions DEF Answered
<1>4. CASE /\ fe.pc \notin {"consume", "event", "retest"}
           /\ fe'.irq = fe.irq \/ fe.connected # "connected"
           /\ sring'.rsp_event = sring.rsp_event
  <2>1. Reporting' <=> Reporting
    BY <1>1, <1>2, <1>4 DEF Reporting
  <2>2. fe.connected # "connected" => Answered = 0
    BY <1>0, NoneAnswered
  <2>3. sring'.rsp_event = Succ(fe'.rsp_cons)
    BY <1>2, <1>4 DEF FrontWoken
  <2> QED BY <1>3, <1>4, <2>1, <2>2, <2>3 DEF FrontWoken
<1>5. CASE /\ fe.pc = "consume" /\ fe.rsp_cons = fe.req_prod_pvt
           /\ sring'.rsp_event = Succ(fe.rsp_cons)
  <2>1. Outstanding = 0
    BY <1>0, <1>5, Positions, SubZero DEF Outstanding
  <2>2. Answered = 0
    BY <1>0, <2>1, Positions DEF RingOrder
  <2> QED BY <1>2, <1>3, <1>5, <2>2
<1>6. CASE /\ fe.pc = "event" /\ fe'.pc = "retest"
           /\ sring'.rsp_event = Succ(fe.rsp_cons)
  BY <1>2, <1>6
<1>7. CASE /\ fe.pc = "retest" /\ ~ (UnconsumedResponses > 0)
           /\ sring'.rsp_event = sring.rsp_event
  <2>1. ~ (Answered > 0)
    BY <1>7 DEF UnconsumedResponses, Answered
  <2> QED BY <1>2, <1>3, <1>7, <2>1 DEF FrontWoken
<1>8. CASE UNCHANGED <<fe.pc, fe.irq, sring.rsp_event>>
  <2>1. Reporting' <=> Reporting
    BY <1>1, <1>2, <1>8 DEF Reporting
  <2> QED BY <1>2, <1>3, <1>8, <2>1 DEF FrontWoken
<1> QED BY <1>0, <1>4, <1>5, <1>6, <1>7, <1>8, RestStep

\* The back end: a response that makes the ring not empty passes rsp_event.
LEMMA RestBack ==
  ASSUME RingInv, FrontWoken,
         \/ Waiting
         \/ \E p \in PendingReq : \/ TakeRequest(p) \/ Work(p) \/ PushResponse(p)
                                  \/ Tail(p) \/ Tell(p) \/ FreeReq(p)
  PROVE  FrontWoken'
<1>0. /\ Typed /\ BiosCounted /\ OwnerOK /\ LockOK /\ RingOrder
      /\ fe \in FeType /\ sring \in SringType
  BY DEF RingInv, Typed
\* A step that adds no response.
<1>1. ASSUME fe'.pc = fe.pc, fe'.rsp_cons = fe.rsp_cons,
             sring'.rsp_prod = sring.rsp_prod, sring'.rsp_event = sring.rsp_event,
             fe.irq \/ Reporting => fe'.irq \/ Reporting'
      PROVE  FrontWoken'
  BY <1>1 DEF FrontWoken, Answered
<1>2. CASE Waiting
  <2>1. UNCHANGED <<fe, sring, pend>>
    BY <1>0, <1>2, WaitingStep
  <2>2. Reporting' <=> Reporting
    BY <2>1 DEF Reporting
  <2> QED BY <1>1, <2>1, <2>2
<1>3. ASSUME NEW p \in PendingReq,
             \A r \in PendingReq : r # p => pend'[r] = pend[r],
             sring'.rsp_prod = sring.rsp_prod, sring'.rsp_event = sring.rsp_event,
             pend[p].pc # "notify",
             pend[p].notify => pend'[p].notify
      PROVE  Reporting => Reporting'
  BY <1>3 DEF Reporting
<1>4. ASSUME NEW p \in PendingReq, TakeRequest(p) PROVE FrontWoken'
  <2>1. /\ sring'.rsp_prod = sring.rsp_prod /\ sring'.rsp_event = sring.rsp_event
        /\ fe' = fe /\ pend[p].pc = "free"
        /\ \A r \in PendingReq : r # p => pend'[r] = pend[r]
    BY <1>0, <1>4, TakeStep DEF SringType
  <2>2. ~pend[p].notify
    BY <1>0, <2>1 DEF OwnerOK
  <2> QED BY <1>1, <1>3, <2>1, <2>2
<1>5. ASSUME NEW p \in PendingReq, Work(p) PROVE FrontWoken'
  <2>1. /\ sring' = sring /\ fe' = fe /\ pend[p].pc \in {"submit", "io"}
        /\ \A r \in PendingReq : r # p => pend'[r] = pend[r]
    BY <1>0, <1>5, WorkStep DEF Work
  <2>2. ~pend[p].notify
    BY <1>0, <2>1 DEF OwnerOK
  <2> QED BY <1>1, <1>3, <2>1, <2>2
<1>6. ASSUME NEW p \in PendingReq, PushResponse(p) PROVE FrontWoken'
  <2>1. /\ pend[p].pc = "respond" /\ pend'[p].pc = "notify" /\ ring_lock = {}
        /\ sring'.rsp_prod = Succ(sring.rsp_prod)
        /\ sring'.rsp_event = sring.rsp_event /\ fe' = fe
        /\ \A r \in PendingReq : r # p => pend'[r] = pend[r]
    BY <1>0, <1>6, PushStep DEF RingOrder
  <2> SUFFICES ASSUME fe.pc \notin {"consume", "event", "retest"}
               PROVE  fe.irq \/ Reporting'
    BY <2>1 DEF FrontWoken
  <2>2. sring.rsp_event = Succ(fe.rsp_cons)
    BY DEF FrontWoken
  <2>3. CASE Answered > 0
    <3>1. fe.irq \/ Reporting
      BY <2>3 DEF FrontWoken
    <3>2. \A r \in PendingReq : pend[r].pc # "notify"
      BY <1>0, <2>1 DEF LockOK, Locking
    <3>3. ~pend[p].notify
      BY <1>0, <2>1 DEF OwnerOK
    <3> QED BY <2>1, <3>1, <3>2, <3>3 DEF Reporting
  <2>4. CASE ~ (Answered > 0)
    <3> DEFINE c == fe.rsp_cons
               n == Succ(c)
    <3>1. c \in Index /\ Answered \in Nat /\ sring.rsp_prod \in Index
      BY <1>0, Positions
    <3>2. sring.rsp_prod = c
      BY <2>4, <3>1, SubZero DEF Answered
    <3>3. /\ n \in Index /\ n = IF c = IdxMod - 1 THEN 0 ELSE c + 1
          /\ 1 \in Index
      BY <3>1, SuccFacts, Sizes
    <3> HIDE DEF n, c
    <3>4. /\ c \in 0 .. IdxMod - 1 /\ IdxMod \in Nat /\ IdxMod > 1
      BY <3>1, Sizes DEF Index
    <3>5. Sub(n, 1) = IF n >= 1 THEN n - 1 ELSE n - 1 + IdxMod
      BY <3>3, SubFacts
    <3>6. Sub(n, 1) = c
      BY <3>3, <3>4, <3>5
    <3>7. /\ Sub(n, n) = IF n >= n THEN n - n ELSE n - n + IdxMod
          /\ Sub(n, c) = IF n >= c THEN n - c ELSE n - c + IdxMod
      BY <3>1, <3>3, SubFacts
    <3>8. Sub(n, n) < Sub(n, c)
      BY <3>3, <3>4, <3>7
    <3>9. CheckNotify(Sub(n, 1), n, n)
      BY <3>6, <3>8 DEF CheckNotify
    <3>10. sring'.rsp_prod = n /\ sring'.rsp_event = n
      BY <2>1, <2>2, <3>2 DEF n, c
    <3> QED BY <2>1, <3>9, <3>10 DEF Reporting
  <2> QED BY <2>3, <2>4
<1>7. ASSUME NEW p \in PendingReq, Tail(p) PROVE FrontWoken'
  <2>1. /\ sring'.rsp_prod = sring.rsp_prod /\ sring'.rsp_event = sring.rsp_event
        /\ fe' = fe
        /\ pend[p].pc # "notify" => pend'[p].notify = pend[p].notify
        /\ \A r \in PendingReq : r # p => pend'[r] = pend[r]
    BY <1>0, <1>7, TailStep DEF Tail, SringType
  <2>2. CASE pend[p].pc # "notify"
    <3>1. Reporting => Reporting'
      BY <1>3, <2>1, <2>2
    <3> QED BY <1>1, <2>1, <3>1
  <2>3. CASE pend[p].pc = "notify"
    <3> DEFINE v == CheckNotify(Sub(sring.rsp_prod, 1), sring.rsp_prod,
                                sring.rsp_event)
               n == [pend[p] EXCEPT !.pc = "tail", !.notify = v]
    <3>1. pend' = [pend EXCEPT ![p] = n]
      BY <1>7, <2>3 DEF Tail, CheckRspEvent, TailCheck, FinalTest, SetReqEvent,
                        FinalRetest, PlainTest, LastTest, RespStep
    <3>2. ~pend[p].notify
      BY <1>0, <2>3 DEF OwnerOK
    <3> HIDE DEF v
    <3>3. n.notify = v
      BY <1>0 DEF Typed, PendType
    <3> HIDE DEF n
    <3>4. pend'[p].notify = v
      BY <1>0, <3>1, <3>3 DEF Typed
    <3>5. Reporting => Reporting'
      BY <2>1, <3>2, <3>4 DEF Reporting, v
    <3> QED BY <1>1, <2>1, <3>5
  <2> QED BY <2>2, <2>3
<1>8. ASSUME NEW p \in PendingReq, Tell(p) PROVE FrontWoken'
  <2>1. /\ sring' = sring /\ pend[p].pc = "tell"
        /\ fe' = [fe EXCEPT !.irq = fe.irq \/ pend[p].notify]
        /\ \A r \in PendingReq : r # p => pend'[r] = pend[r]
    BY <1>0, <1>8, TellStep
  <2>2. /\ fe'.pc = fe.pc /\ fe'.rsp_cons = fe.rsp_cons
        /\ fe'.irq = (fe.irq \/ pend[p].notify)
    BY <1>0, <2>1 DEF FeType
  <2>3. Reporting => pend[p].notify \/ Reporting'
    BY <2>1 DEF Reporting
  <2> QED BY <1>1, <2>1, <2>2, <2>3
<1>9. ASSUME NEW p \in PendingReq, FreeReq(p) PROVE FrontWoken'
  <2>1. /\ sring' = sring /\ fe' = fe /\ pend[p].pc = "release"
        /\ \A r \in PendingReq : r # p => pend'[r] = pend[r]
    BY <1>0, <1>9, FreeStep
  <2>2. ~pend[p].notify
    BY <1>0, <2>1 DEF OwnerOK
  <2> QED BY <1>1, <1>3, <2>1, <2>2
<1> QED BY <1>2, <1>4, <1>5, <1>6, <1>7, <1>8, <1>9

\* A restore leaves no responses.
LEMMA RestFresh ==
  /\ Init => FrontWoken
  /\ Typed /\ Resume => FrontWoken'
<1>1. Succ(0) = 1 /\ Sub(0, 0) = 0
  BY Sizes, SuccFacts, SubFacts
<1>2. Init => FrontWoken
  <2> SUFFICES ASSUME Init PROVE FrontWoken
    OBVIOUS
  <2>1. fe.rsp_cons = 0 /\ sring.rsp_prod = 0 /\ sring.rsp_event = 1
    BY DEF Init, SharedRingInit
  <2> QED BY <1>1, <2>1 DEF FrontWoken, Answered
<1>3. Typed /\ Resume => FrontWoken'
  <2> SUFFICES ASSUME Typed, Resume PROVE FrontWoken'
    OBVIOUS
  <2>1. sring'.rsp_prod = 0 /\ sring'.rsp_event = 1
    BY DEF Resume, SharedRingInit
  <2>2. fe'.rsp_cons = 0
    BY DEF Resume, Typed, FeType
  <2> QED BY <1>1, <2>1, <2>2 DEF FrontWoken, Answered
<1> QED BY <1>2, <1>3

\* All steps keep it.
LEMMA RestNext == RingInv /\ FrontWoken /\ [Next]_vars => FrontWoken'
<1>1. RingInv => Typed
  BY DEF RingInv
<1> QED BY <1>1, RestFront, RestBack, RestFresh, Steps

\* FrontendWoken holds of every instance: blkfront never rests over responses
\* in the ring unless an interrupt is on its way or some make_response will
\* send one, with many make_responses that decide and notify at different
\* times, and blkif_int re-arming rsp_event between them (blkfront.c:809).
THEOREM FrontendNotForgotten == Spec => []FrontendWoken
<1>1. Init => RingInv /\ FrontWoken
  BY RingInitial, RestFresh
<1>2. RingInv /\ FrontWoken /\ [Next]_vars => RingInv' /\ FrontWoken'
  BY RingNext, RestNext
<1>3. FrontWoken => FrontendWoken
  BY DEF FrontWoken, FrontendWoken, Answered, UnconsumedResponses, Reporting
<1> QED BY <1>1, <1>2, <1>3, PTL DEF Spec
=============================================================================
