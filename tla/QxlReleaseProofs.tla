-------------------------- MODULE QxlReleaseProofs --------------------------
(***************************************************************************)
(* Theorems about QxlRelease, for any number of blocks, any size of the    *)
(* release ring and any sizes of bunches: the types, that a driver out of  *)
(* memory is told of a chain, that the chain being built is as long as the *)
(* device believes, and that QxlRelease implements CommandLoan.            *)
(*                                                                         *)
(* ReleaseTold speaks of a driver that sleeps.  It holds because of what   *)
(* the driver has done before: the index at which it wants to be told is   *)
(* the one behind the ring as it found it empty, it is in the ring before  *)
(* the last test, and only the driver itself consumes (Armed).             *)
(*                                                                         *)
(* The chains are lists in guest memory, of which QxlRelease says only     *)
(* what a walk along them finds.  The invariant LoanInv says instead where *)
(* each block is: there are two functions, the chain that a block is at    *)
(* home in and its position there, with which the ids in memory agree.     *)
(* ChainOf shows that the walk finds the blocks that are at home in a      *)
(* chain.  The witnesses are not state of the program, and each step that  *)
(* touches a chain is shown to have new ones.                              *)
(***************************************************************************)
EXTENDS QxlRelease, FiniteSetTheorems, WellFoundedInduction, TLAPS

\* SPICE_RING_CONS_WAIT: the driver asks to be told of the next chain.
Armed ==
    /\ g.pc = "arm" => g.tmp = Succ(release.cons)
    /\ g.pc \in {"retest", "io", "sleep"} =>
         release.notify_on_prod = Succ(release.cons)

ReleaseInv == TypeOK /\ Armed /\ ReleaseTold

-----------------------------------------------------------------------------
(* Types.                                                                  *)

RingState == [prod : Index, cons : Index, notify_on_prod : Index,
              items : [0 .. ReleaseItems - 1 -> Res \cup {Nil}]]

WorkerState ==
    [pc : {"loop", "oom", "release", "publish", "published", "slot",
           "flush", "flushagain", "oomdone"},
     rels : SUBSET Res, ret : {"loop", "oom", "flushagain"}, flush : BOOLEAN]

DriverState == [pc : {"idle", "walk", "need", "arm", "retest", "io", "sleep"},
                x : Res \cup {Nil}, tmp : Index]

\* Indices stay in 32 bits, and name items of the ring.
LEMMA IndexFacts ==
  /\ \A i \in Index : Succ(i) \in Index
  /\ \A i \in Index : i % ReleaseItems \in 0 .. ReleaseItems - 1
  /\ 0 \in Index /\ 1 \in Index
BY SizeAssumption, SMTT(30) DEF Index, Succ

\* What an actor's step leaves of the others has its type.
LEMMA DriverTyped ==
  ASSUME TypeOK, Driver \/ \E x \in Res : DrvSubmit(x)
  PROVE  TypeOK'
<1>0. /\ release \in RingState /\ g \in DriverState /\ info \in [Res -> Res \cup {Nil}]
  BY DEF TypeOK, RingState, DriverState
<1>1. ASSUME NEW x \in Res, DrvSubmit(x) PROVE TypeOK'
  BY <1>1 DEF DrvSubmit, TypeOK, relVars, msgVars
<1>2. ASSUME DrvPop PROVE TypeOK'
  <2>1. release.items[release.cons % ReleaseItems] \in Res \cup {Nil}
    BY <1>0, IndexFacts DEF RingState
  <2>2. g' \in DriverState
    BY <1>0, <1>2, <2>1 DEF DrvPop, DriverState
  <2>3. release' \in RingState
    BY <1>0, <1>2, IndexFacts DEF DrvPop, RingState
  <2> QED BY <1>2, <2>2, <2>3
          DEF DrvPop, TypeOK, RingState, DriverState, msgVars, useVars
<1>3. ASSUME DrvWalk PROVE TypeOK'
  <2>1. CASE g.x # Nil
    <3>1. g.x \in Res
      BY <1>0, <2>1 DEF DriverState
    <3>2. g' = [g EXCEPT !.x = info[g.x]] /\ info[g.x] \in Res \cup {Nil}
      BY <1>0, <1>3, <2>1, <3>1 DEF DrvWalk
    <3>3. g' \in DriverState
      BY <1>0, <3>2 DEF DriverState
    <3>4. /\ free' = free \cup {g.x} /\ info' = [info EXCEPT ![g.x] = g.x]
      BY <1>3, <2>1 DEF DrvWalk
    <3> QED BY <1>3, <3>1, <3>3, <3>4
            DEF DrvWalk, TypeOK, DriverState, msgVars, useVars
  <2>2. CASE g.x = Nil
    <3>1. g' \in DriverState
      BY <1>0, <1>3, <2>2 DEF DrvWalk, DriverState
    <3> QED BY <1>3, <2>2, <3>1 DEF DrvWalk, TypeOK, DriverState, msgVars, useVars
  <2> QED BY <2>1, <2>2
<1>4. ASSUME DrvOutOfMemory PROVE TypeOK'
  <2>1. g' \in DriverState
    <3>1. \/ \E c \in {"need", "io", "sleep"} : g' = [g EXCEPT !.pc = c]
          \/ g' = [g EXCEPT !.pc = "arm", !.tmp = Succ(release.prod)]
          \/ g' = [g EXCEPT !.pc = "retest", !.tmp = 0]
      BY <1>4 DEF DrvOutOfMemory
    <3>2. Succ(release.prod) \in Index /\ 0 \in Index
      BY <1>0, IndexFacts DEF RingState
    <3> QED BY <1>0, <3>1, <3>2 DEF DriverState
  <2>2. release' \in RingState
    <3>1. release' = release \/ release' = [release EXCEPT !.notify_on_prod = g.tmp]
      BY <1>4 DEF DrvOutOfMemory
    <3> QED BY <1>0, <3>1 DEF DriverState, RingState
  <2>3. m' \in {m, "port"} /\ told' \in {told, FALSE}
    BY <1>4 DEF DrvOutOfMemory
  <2>4. UNCHANGED <<info, last_release, num_free_res, msgVars, useVars, w, free>>
    BY <1>4 DEF DrvOutOfMemory
  <2>5. /\ m' \in {"idle", "port", "yielded", "send", "sent"} /\ told' \in BOOLEAN
    BY <2>3 DEF TypeOK
  <2> QED BY <2>1, <2>2, <2>4, <2>5
          DEF TypeOK, RingState, DriverState, msgVars, useVars
<1> QED BY <1>1, <1>2, <1>3, <1>4 DEF Driver

LEMMA IoTyped ==
  ASSUME TypeOK, IoOom
  PROVE  TypeOK'
<1>1. /\ oom_running' \in BOOLEAN /\ pending' \in BOOLEAN
      /\ m' \in {"idle", "port", "yielded", "send", "sent"}
  BY DEF IoOom, TypeOK, msgVars
<1>2. channel' \in Nat
  BY DEF IoOom, TypeOK, msgVars
<1> QED BY <1>1, <1>2 DEF IoOom, TypeOK, relVars, useVars

\* The blocks of which the worker has a Drawable or a RedGlzDrawable.
Held == tree \cup piped \cup glz

\* References are dropped to the blocks of S, some of them just taken off the
\* command ring; the worker goes on to release what nobody refers to.
Drops(S, ret) ==
    /\ queued' \subseteq queued /\ queued \ queued' \subseteq S
    /\ S \subseteq Held \cup (queued \ queued')
    /\ Held' \subseteq Held \cup S /\ Held \subseteq Held' \cup S
    /\ w' = [w EXCEPT !.rels = S \ Held', !.ret = ret, !.pc = "release"]

\* The steps by which the worker takes blocks out of use.
TakesOut == \/ Process \/ Push \/ Draw \/ FreeGlz
            \/ \E some \in SUBSET glz, old \in SUBSET tree : FreeSome(some, old)

LEMMA TakenOut ==
  ASSUME TakesOut
  PROVE  \E S, ret : /\ Drops(S, ret)
                     /\ ret \in {"loop", "oom", "flushagain"}
<1>0. ASSUME NEW S, NEW ret, ReleaseOf(S, ret),
             queued' \subseteq queued, queued \ queued' \subseteq S,
             S \subseteq Held \cup (queued \ queued'),
             Held' \subseteq Held \cup S, Held \subseteq Held' \cup S
      PROVE  Drops(S, ret)
  BY <1>0 DEF Drops, ReleaseOf, Unreferenced, Held
<1>1. ASSUME Process PROVE \E S : Drops(S, w.pc)
  <2>1. PICK x \in queued, kept \in BOOLEAN, shown \in BOOLEAN, gone \in SUBSET tree :
        \E covered \in SUBSET (gone \cap piped) :
          /\ queued' = queued \ {x}
          /\ tree' = (tree \ gone) \cup (IF kept THEN {x} ELSE {})
          /\ piped' = (piped \ covered) \cup (IF shown THEN {x} ELSE {})
          /\ glz' = glz
          /\ ReleaseOf(gone \cup {x}, w.pc)
    BY <1>1 DEF Process
  <2>2. /\ queued' = queued \ {x} /\ glz' = glz
        /\ tree' \subseteq tree \cup {x} /\ tree \ gone \subseteq tree'
        /\ piped' \subseteq piped \cup {x} /\ piped \ gone \subseteq piped'
        /\ gone \subseteq tree /\ x \in queued
        /\ ReleaseOf(gone \cup {x}, w.pc)
    BY <2>1
  <2>3. /\ queued' \subseteq queued /\ queued \ queued' \subseteq gone \cup {x}
        /\ gone \cup {x} \subseteq Held \cup (queued \ queued')
    BY <2>2 DEF Held
  <2>4. /\ Held' \subseteq Held \cup (gone \cup {x})
        /\ Held \subseteq Held' \cup (gone \cup {x})
    BY <2>2 DEF Held
  <2> QED BY <1>0, <2>2, <2>3, <2>4
<1>2. ASSUME Push PROVE \E S : Drops(S, w.pc)
  <2>1. PICK sent \in SUBSET piped :
          /\ piped' = piped \ sent /\ glz' \in SUBSET (glz \cup sent)
          /\ queued' = queued /\ tree' = tree
          /\ ReleaseOf(sent \cup glz, w.pc)
    BY <1>2 DEF Push
  <2>2. /\ sent \cup glz \subseteq Held /\ Held' \subseteq Held \cup (sent \cup glz)
        /\ Held \subseteq Held' \cup (sent \cup glz)
    BY <2>1 DEF Held
  <2> QED BY <1>0, <2>1, <2>2
<1>3. ASSUME Draw PROVE \E S : Drops(S, "loop")
  <2>1. PICK done \in SUBSET tree :
          /\ tree' = tree \ done /\ queued' = queued /\ piped' = piped /\ glz' = glz
          /\ ReleaseOf(done, "loop")
    BY <1>3 DEF Draw
  <2>2. done \subseteq Held /\ Held' \subseteq Held \cup done /\ Held \subseteq Held' \cup done
    BY <2>1 DEF Held
  <2> QED BY <1>0, <2>1, <2>2
<1>4. ASSUME FreeGlz PROVE \E S : Drops(S, "loop")
  <2>1. PICK out \in SUBSET glz :
          /\ glz' = glz \ out /\ queued' = queued /\ piped' = piped /\ tree' = tree
          /\ ReleaseOf(out, "loop")
    BY <1>4 DEF FreeGlz
  <2>2. out \subseteq Held /\ Held' \subseteq Held \cup out /\ Held \subseteq Held' \cup out
    BY <2>1 DEF Held
  <2> QED BY <1>0, <2>1, <2>2
<1>5. ASSUME NEW some \in SUBSET glz, NEW old \in SUBSET tree, FreeSome(some, old)
      PROVE  \E S : Drops(S, "flushagain")
  <2>1. /\ glz' = glz \ (some \cup old) /\ tree' = tree \ old
        /\ queued' = queued /\ piped' = piped
        /\ ReleaseOf(some \cup old, "flushagain")
    BY <1>5 DEF FreeSome
  <2>2. /\ some \cup old \subseteq Held /\ Held' \subseteq Held \cup (some \cup old)
        /\ Held \subseteq Held' \cup (some \cup old)
    BY <2>1 DEF Held
  <2> QED BY <1>0, <2>1, <2>2
<1>6. Process \/ Push => w.pc \in {"loop", "oom"}
  BY DEF Process, Push
<1> QED BY <1>1, <1>2, <1>3, <1>4, <1>5, <1>6 DEF TakesOut

\* They touch nothing else, ...
LEMMA TakesOutQuiet ==
  ASSUME Process \/ Push \/ Draw \/ FreeGlz \/ FlushResources
  PROVE  UNCHANGED <<relVars, msgVars, m, told, free, g>>
BY DEF Process, Push, Draw, FreeGlz, FlushResources

\* ... and begin when the worker has nothing left to release.
LEMMA TakesOutAt ==
  ASSUME Process \/ Push \/ Draw \/ FreeGlz
  PROVE  w.pc \in {"loop", "oom"}
BY DEF Process, Push, Draw, FreeGlz

\* What flush_resources does, apart from red_free_some.
LEMMA FlushCases ==
  ASSUME FlushResources
  PROVE  /\ w.pc \in {"flush", "flushagain"}
         /\ \/ UNCHANGED useVars /\ w' = [w EXCEPT !.pc = "oomdone"]
            \/ /\ UNCHANGED useVars /\ Publish(num_free_res, TRUE)
               /\ w' = [w EXCEPT !.pc = "publish", !.flush = TRUE]
            \/ TakesOut /\ w.pc = "flush"
<1>1. w.pc \in {"flush", "flushagain"}
  BY DEF FlushResources
<1>2. CASE /\ num_free_res # 0
           /\ w' = IF Publish(num_free_res, TRUE)
                   THEN [w EXCEPT !.pc = "publish", !.flush = TRUE]
                   ELSE [w EXCEPT !.pc = "oomdone"]
           /\ UNCHANGED useVars
  BY <1>1, <1>2
<1>3. CASE w' = [w EXCEPT !.pc = "oomdone"] /\ UNCHANGED useVars
  BY <1>1, <1>3
<1>4. CASE /\ w.pc = "flush"
           /\ \E some \in SUBSET glz, old \in SUBSET tree : FreeSome(some, old)
  BY <1>4 DEF TakesOut
<1> QED BY <1>2, <1>3, <1>4 DEF FlushResources

LEMMA WorkerTyped ==
  ASSUME TypeOK, Process \/ Push \/ Draw \/ FreeGlz \/ HandleOom \/ FlushResources
  PROVE  TypeOK'
<1>0. /\ w \in WorkerState /\ queued \subseteq Res /\ Held \subseteq Res
  BY DEF TypeOK, WorkerState, Held
<1>1. ASSUME TakesOut
      PROVE  /\ w' \in WorkerState /\ queued' \subseteq Res
             /\ tree' \subseteq Res /\ piped' \subseteq Res /\ glz' \subseteq Res
  <2>1. PICK S, ret : Drops(S, ret) /\ ret \in {"loop", "oom", "flushagain"}
    BY <1>1, TakenOut
  <2>2. S \subseteq Res /\ queued' \subseteq Res /\ Held' \subseteq Res
    BY <1>0, <2>1 DEF Drops
  <2>4. w' \in WorkerState
    BY <1>0, <2>1, <2>2 DEF Drops, WorkerState
  <2> QED BY <2>2, <2>4 DEF Held
<1>2. ASSUME Process \/ Push \/ Draw \/ FreeGlz PROVE TypeOK'
  <2>1. TakesOut
    BY <1>2 DEF TakesOut
  <2>2. UNCHANGED <<relVars, msgVars, m, told, free, g>>
    BY <1>2, TakesOutQuiet
  <2> QED BY <1>1, <2>1, <2>2 DEF TypeOK, WorkerState, relVars, msgVars
<1>4. ASSUME HandleOom PROVE TypeOK'
  <2>1. w' \in WorkerState
    BY <1>0, <1>4 DEF HandleOom, WorkerState
  <2>2. channel' \in Nat
    BY <1>4 DEF HandleOom, TypeOK
  <2> QED BY <1>4, <2>1, <2>2 DEF HandleOom, TypeOK, WorkerState, relVars, useVars
<1>5. ASSUME FlushResources PROVE TypeOK'
  <2>1. UNCHANGED <<relVars, msgVars, m, told, free, g>>
    BY <1>5, TakesOutQuiet
  <2>2. /\ [w EXCEPT !.pc = "publish", !.flush = TRUE] \in WorkerState
        /\ [w EXCEPT !.pc = "oomdone"] \in WorkerState
    BY <1>0 DEF WorkerState
  <2>3. /\ w' \in WorkerState /\ queued' \subseteq Res
        /\ tree' \subseteq Res /\ piped' \subseteq Res /\ glz' \subseteq Res
    <3>1. CASE UNCHANGED useVars /\ w' = [w EXCEPT !.pc = "oomdone"]
      BY <2>2, <3>1 DEF TypeOK, useVars
    <3>2. CASE /\ UNCHANGED useVars
               /\ w' = [w EXCEPT !.pc = "publish", !.flush = TRUE]
      BY <2>2, <3>2 DEF TypeOK, useVars
    <3>3. CASE TakesOut /\ w.pc = "flush"
      BY <1>1, <3>3
    <3> QED BY <1>5, <3>1, <3>2, <3>3, FlushCases
  <2> QED BY <2>1, <2>3 DEF TypeOK, WorkerState, relVars, msgVars
<1> QED BY <1>2, <1>4, <1>5

\* The steps that build and publish a chain.
LEMMA ChainTyped ==
  ASSUME TypeOK,
         \/ ReleaseResource \/ Released \/ PushFreeRes \/ PushNotify \/ PushSlot
         \/ OomProcessed \/ OomDone
  PROVE  TypeOK'
<1>0. /\ w \in WorkerState /\ release \in RingState
      /\ info \in [Res -> Res \cup {Nil}] /\ num_free_res \in Nat
      /\ last_release \in Res \cup {Nil} /\ told \in BOOLEAN
      /\ ProdItem \in 0 .. ReleaseItems - 1
  BY IndexFacts DEF TypeOK, WorkerState, RingState, ProdItem
<1>1. ASSUME ReleaseResource PROVE TypeOK'
  <2>1. PICK x \in w.rels :
         /\ IF release.items[ProdItem] = Nil
            THEN /\ release' = [release EXCEPT !.items[ProdItem] = info[x]]
                 /\ info' = [info EXCEPT ![x] = Nil]
            ELSE /\ info' = [info EXCEPT ![last_release] = info[x], ![x] = Nil]
                 /\ UNCHANGED release
         /\ last_release' = x
         /\ num_free_res' = num_free_res + 1
         /\ w' = [w EXCEPT !.rels = w.rels \ {x},
                           !.pc = IF Publish(num_free_res + 1, FALSE)
                                  THEN "publish" ELSE "release"]
    BY <1>1 DEF ReleaseResource
  <2>2. x \in Res /\ info[x] \in Res \cup {Nil}
    BY <1>0 DEF WorkerState
  <2>3. w' \in WorkerState
    BY <1>0, <2>1 DEF WorkerState
  <2>4. release' \in RingState
    <3>1. [release.items EXCEPT ![ProdItem] = info[x]]
            \in [0 .. ReleaseItems - 1 -> Res \cup {Nil}]
      BY <1>0, <2>2 DEF RingState
    <3>2. \/ release' = release
          \/ release' = [release EXCEPT
                           !.items = [release.items EXCEPT ![ProdItem] = info[x]]]
      BY <1>0, <2>1 DEF RingState
    <3> QED BY <1>0, <3>1, <3>2 DEF RingState
  <2>5. info' \in [Res -> Res \cup {Nil}]
    <3>1. CASE release.items[ProdItem] = Nil
      BY <1>0, <2>1, <3>1
    <3>2. CASE release.items[ProdItem] # Nil
      BY <1>0, <2>1, <2>2, <3>2
    <3> QED BY <3>1, <3>2
  <2>6. num_free_res' \in Nat /\ last_release' \in Res \cup {Nil}
    BY <1>0, <2>1, <2>2
  <2> QED BY <1>1, <2>3, <2>4, <2>5, <2>6
          DEF ReleaseResource, TypeOK, WorkerState, RingState, msgVars, useVars
<1>2. ASSUME Released PROVE TypeOK'
  <2>1. w' \in WorkerState
    BY <1>0, <1>2 DEF Released, WorkerState
  <2> QED BY <1>2, <2>1 DEF Released, TypeOK, WorkerState, relVars, msgVars, useVars
<1>3. ASSUME PushFreeRes PROVE TypeOK'
  <2>1. w' \in WorkerState
    BY <1>0, <1>3 DEF PushFreeRes, WorkerState
  <2>2. release' \in RingState
    BY <1>0, <1>3, IndexFacts DEF PushFreeRes, RingState
  <2> QED BY <1>3, <2>1, <2>2
          DEF PushFreeRes, TypeOK, WorkerState, RingState, msgVars, useVars
<1>4. ASSUME PushNotify PROVE TypeOK'
  <2>1. w' \in WorkerState
    BY <1>0, <1>4 DEF PushNotify, WorkerState
  <2>2. told' \in BOOLEAN
    BY <1>4 DEF PushNotify
  <2>3. UNCHANGED <<relVars, msgVars, useVars, m, free, g>>
    BY <1>4 DEF PushNotify
  <2> QED BY <2>1, <2>2, <2>3 DEF TypeOK, WorkerState, relVars, msgVars, useVars
<1>5. ASSUME PushSlot PROVE TypeOK'
  <2>1. w' \in WorkerState
    BY <1>0, <1>5 DEF PushSlot, WorkerState
  <2>2. release' \in RingState
    BY <1>0, <1>5 DEF PushSlot, RingState
  <2>3. num_free_res' \in Nat /\ last_release' \in Res \cup {Nil}
    BY <1>5 DEF PushSlot
  <2> QED BY <1>5, <2>1, <2>2, <2>3
          DEF PushSlot, TypeOK, WorkerState, RingState, msgVars, useVars
<1>6. ASSUME OomProcessed \/ OomDone PROVE TypeOK'
  <2>1. w' \in WorkerState
    BY <1>0, <1>6 DEF OomProcessed, OomDone, WorkerState
  <2>2. pending' \in {pending, FALSE}
    BY <1>6 DEF OomProcessed, OomDone, msgVars
  <2>3. UNCHANGED <<relVars, oom_running, channel, useVars, m, told, free, g>>
    BY <1>6 DEF OomProcessed, OomDone, msgVars
  <2>4. pending' \in BOOLEAN
    BY <2>2 DEF TypeOK
  <2> QED BY <2>1, <2>3, <2>4 DEF TypeOK, WorkerState, relVars, useVars
<1> QED BY <1>1, <1>2, <1>3, <1>4, <1>5, <1>6

-----------------------------------------------------------------------------
(* The driver waits for the next chain.                                    *)

\* Steps of the driver.
LEMMA DriverArmed ==
  ASSUME ReleaseInv, Driver \/ \E x \in Res : DrvSubmit(x)
  PROVE  (Armed /\ ReleaseTold)'
<1>0. release \in RingState /\ g \in DriverState
  BY DEF ReleaseInv, TypeOK, RingState, DriverState
<1>1. ASSUME DrvPop \/ DrvWalk \/ \E x \in Res : DrvSubmit(x)
      PROVE  g'.pc \in {"idle", "walk"}
  BY <1>0, <1>1 DEF DrvPop, DrvWalk, DrvSubmit, DriverState
<1>2. ASSUME DrvOutOfMemory
      PROVE  \/ g'.pc = "need"
             \/ /\ g'.pc = "arm" /\ g'.tmp = Succ(release.prod) /\ IsEmpty
                /\ release' = release
             \/ /\ g.pc = "arm" /\ g'.pc = "retest"
                /\ release' = [release EXCEPT !.notify_on_prod = g.tmp]
             \/ /\ g.pc = "retest" /\ g'.pc = "io" /\ IsEmpty
                /\ release' = release /\ told' = told
             \/ /\ g.pc = "io" /\ g'.pc = "sleep" /\ release' = release
                /\ told' = told /\ w' = w
  BY <1>0, <1>2 DEF DrvOutOfMemory, DriverState
<1>3. ASSUME DrvOutOfMemory PROVE Armed'
  BY <1>0, <1>2, <1>3 DEF ReleaseInv, Armed, RingState, IsEmpty, Succ
<1>4. ASSUME DrvOutOfMemory PROVE ReleaseTold'
  BY <1>0, <1>2, <1>4 DEF ReleaseInv, ReleaseTold, IsEmpty
<1> QED BY <1>1, <1>3, <1>4 DEF Driver, Armed, ReleaseTold

\* Steps of the others: only PushFreeRes and PushNotify matter.
LEMMA WorkerTells ==
  ASSUME ReleaseInv, g' = g,
         \/ PushFreeRes \/ PushNotify
         \/ /\ UNCHANGED <<release.prod, release.cons, release.notify_on_prod, told>>
            /\ w.pc # "published"
  PROVE  (Armed /\ ReleaseTold)'
<1>0. release \in RingState /\ w \in WorkerState
  BY DEF ReleaseInv, TypeOK, RingState, WorkerState
<1>1. CASE PushFreeRes
  <2>1. /\ w.pc = "publish" /\ w'.pc = "published" /\ told' = told
        /\ release'.prod = Succ(release.prod) /\ release'.cons = release.cons
        /\ release'.notify_on_prod = release.notify_on_prod
    BY <1>0, <1>1 DEF PushFreeRes, RingState, WorkerState
  <2> QED BY <2>1 DEF ReleaseInv, Armed, ReleaseTold, IsEmpty, Succ
<1>2. CASE PushNotify
  BY <1>2 DEF PushNotify, ReleaseInv, Armed, ReleaseTold, IsEmpty, Succ, relVars
<1>3. CASE /\ UNCHANGED <<release.prod, release.cons, release.notify_on_prod, told>>
           /\ w.pc # "published"
  BY <1>3 DEF ReleaseInv, Armed, ReleaseTold, IsEmpty, Succ
<1> QED BY <1>1, <1>2, <1>3

\* What the other steps leave alone.
LEMMA RestQuiet ==
  ASSUME TypeOK,
         \/ Process \/ Push \/ Draw \/ FreeGlz \/ HandleOom \/ FlushResources
         \/ ReleaseResource \/ Released \/ PushSlot \/ OomProcessed \/ OomDone
  PROVE  /\ g' = g /\ w.pc # "published"
         /\ UNCHANGED <<release.prod, release.cons, release.notify_on_prod, told>>
<1>0. release \in RingState
  BY DEF TypeOK, RingState
<1>1. CASE Process \/ Push \/ Draw \/ FreeGlz \/ HandleOom \/ FlushResources
  BY <1>1 DEF Process, Push, Draw, FreeGlz, HandleOom, FlushResources, relVars
<1>2. CASE Released \/ OomProcessed \/ OomDone
  <2>1. w.pc # "published"
    BY <1>2 DEF Released, OomProcessed, OomDone
  <2> QED BY <1>2, <2>1 DEF Released, OomProcessed, OomDone, relVars
<1>3. CASE ReleaseResource
  BY <1>0, <1>3 DEF ReleaseResource, RingState
<1>4. CASE PushSlot
  BY <1>0, <1>4 DEF PushSlot, RingState
<1> QED BY <1>1, <1>2, <1>3, <1>4

-----------------------------------------------------------------------------
(* The theorems.                                                           *)

LEMMA ReleaseInit == Init => ReleaseInv
<1> SUFFICES ASSUME Init PROVE ReleaseInv
  OBVIOUS
<1>1. release \in RingState
  BY IndexFacts DEF Init, RingState
<1>2. g \in DriverState /\ g.pc = "idle"
  BY IndexFacts DEF Init, DriverState
<1>3. w \in WorkerState
  BY DEF Init, WorkerState
<1>4. TypeOK
  BY <1>1, <1>2, <1>3 DEF Init, TypeOK, RingState, DriverState, WorkerState
<1> QED BY <1>2, <1>4 DEF ReleaseInv, Armed, ReleaseTold

LEMMA ReleaseNext == ReleaseInv /\ [Next]_vars => ReleaseInv'
<1> SUFFICES ASSUME ReleaseInv, [Next]_vars PROVE ReleaseInv'
  OBVIOUS
<1>1. CASE Driver \/ \E x \in Res : DrvSubmit(x)
  BY <1>1, DriverTyped, DriverArmed DEF ReleaseInv
<1>2. CASE IoOom
  <2>1. TypeOK'
    BY <1>2, IoTyped DEF ReleaseInv
  <2> QED BY <1>2, <2>1 DEF IoOom, ReleaseInv, Armed, ReleaseTold, IsEmpty, Succ, relVars
<1>3. CASE Process \/ Push \/ Draw \/ FreeGlz \/ HandleOom \/ FlushResources
  BY <1>3, WorkerTyped, RestQuiet, WorkerTells DEF ReleaseInv
<1>4. CASE ReleaseResource \/ Released \/ PushSlot \/ OomProcessed \/ OomDone
  BY <1>4, ChainTyped, RestQuiet, WorkerTells DEF ReleaseInv
<1>5. CASE PushFreeRes \/ PushNotify
  <2>1. g' = g
    BY <1>5 DEF PushFreeRes, PushNotify
  <2> QED BY <1>5, <2>1, ChainTyped, WorkerTells DEF ReleaseInv
<1>6. CASE UNCHANGED vars
  <2>1. TypeOK'
    BY <1>6 DEF ReleaseInv, TypeOK, vars
  <2> QED BY <1>6, <2>1 DEF ReleaseInv, Armed, ReleaseTold, IsEmpty, Succ, vars
<1> QED BY <1>1, <1>2, <1>3, <1>4, <1>5, <1>6 DEF Next, WorkerGoesOn

LEMMA ReleaseInvariant == Spec => []ReleaseInv
BY ReleaseInit, ReleaseNext, PTL DEF Spec

\* The indices of the release ring, the chain that interface_release_resource
\* builds, the worker's and the driver's variables keep their types.
THEOREM ReleaseTyped == Spec => []TypeOK
<1>1. ReleaseInv => TypeOK
  BY DEF ReleaseInv
<1> QED BY <1>1, ReleaseInvariant, PTL

\* A driver asleep for memory while the release ring has a chain has been
\* interrupted or is about to be, however qxl_push_free_res interleaves with
\* the driver's SPICE_RING_CONS_WAIT and wherever the indices wrap.
THEOREM DriverTold == Spec => []ReleaseTold
<1>1. ReleaseInv => ReleaseTold
  BY DEF ReleaseInv
<1> QED BY <1>1, ReleaseInvariant, PTL
-----------------------------------------------------------------------------
(* Chains.  Every block that is neither the driver's nor the device's has  *)
(* a home, the chain that it is in, and a position in it.                  *)

Device == queued \cup Held \cup w.rels

\* A chain is at home in a slot of the release ring or with the driver.
NoHome  == -2
AtDriver == -1

\* Between the store of prod and the reset of the next slot the worker has no
\* chain to build.
Linking == w.pc \notin {"published", "slot"}

IsPublished(c) ==
    \E i \in 0 .. Used - 1 : c = (release.cons + i) % ReleaseItems

HasChain(c) == \/ c = AtDriver /\ g.pc = "walk"
               \/ IsPublished(c)
               \/ c = ProdItem /\ Linking

FirstOf(c) == IF c = AtDriver THEN g.x ELSE release.items[c]

Members(home, c) == {x \in Res : home[x] = c}

\* The blocks of S are threaded from h on, in the order of their positions.
Threaded(S, h, pos) ==
    /\ h = Nil => S = {}
    /\ h # Nil => h \in S /\ \A x \in S : pos[h] <= pos[x]
    /\ \A x \in S : x # h => \E y \in S : info[y] = x
    /\ \A x \in S : info[x] # Nil => info[x] \in S /\ pos[info[x]] = pos[x] + 1
    /\ \A x \in S : info[x] = Nil => \A y \in S : pos[y] <= pos[x]
    /\ \A x, y \in S : pos[x] = pos[y] => x = y

\* The chain that is being built has num_free_res blocks, up to last_release.
Counted(home) ==
    Linking =>
      /\ Cardinality(Members(home, ProdItem)) = num_free_res
      /\ num_free_res > 0 => /\ last_release \in Members(home, ProdItem)
                             /\ info[last_release] = Nil

Chained(home, pos) ==
    /\ \A x \in Res : home[x] = NoHome <=> x \in free \cup Device
    /\ \A x \in Res : home[x] # NoHome => HasChain(home[x])
    /\ \A c \in -1 .. ReleaseItems - 1 :
         HasChain(c) => Threaded(Members(home, c), FirstOf(c), pos)
    /\ Counted(home)

\* Blocks in use hold their own id, and are in one place.
Placed ==
    /\ \A x \in free \cup Device : info[x] = x
    /\ free \cap Device = {}
    /\ queued \cap (Held \cup w.rels) = {}
    /\ w.rels \cap Held = {}

\* What the worker still has to release, and room for what it publishes.
WorkerOK ==
    /\ w.rels # {} => /\ w.pc \in {"release", "publish", "published", "slot"}
                      /\ ~w.flush
    /\ w.flush => w.pc \in {"publish", "published", "slot", "oomdone"}
    /\ Used < ReleaseItems
    /\ w.pc = "publish" => Used + 1 < ReleaseItems

\* What Chain computes, for a walk that satisfies its recursion.
Walk(f, h) ==
    f = [n \in 0 .. Cardinality(Res) |->
           IF n = 0 THEN h
           ELSE IF f[n - 1] = Nil THEN Nil ELSE info[f[n - 1]]]

\* A set of naturals has a least element.
LEMMA LeastNatural ==
  ASSUME NEW T, T \subseteq Nat, T # {}
  PROVE  \E x \in T : \A y \in T : x <= y
<1> DEFINE R == OpToRel(<, Nat)
<1>1. IsWellFoundedOn(R, Nat)
  BY NatLessThanWellFounded
<1>2. \A x, y \in Nat : y < x => <<y, x>> \in R
  BY DEF OpToRel
<1> HIDE DEF R
<1>3. \E x \in T : \A y \in T : ~ (<<y, x>> \in R)
  BY <1>1, WFMin
<1>4. \A x, y \in Nat : ~ (y < x) => x <= y
  OBVIOUS
<1> QED BY <1>2, <1>3, <1>4

LEMMA ResFinite == IsFiniteSet(Res) /\ Cardinality(Res) \in Nat /\ Nil \notin Res
BY NilAssumption, FS_CardinalityType

\* There is one walk from h: the first place where two differ has an equal one
\* before it.
LEMMA OneWalk ==
  ASSUME NEW h, NEW e, NEW f, Walk(e, h), Walk(f, h)
  PROVE  \A n \in 0 .. Cardinality(Res) : e[n] = f[n]
<1> DEFINE T == {n \in 0 .. Cardinality(Res) : e[n] # f[n]}
<1>1. SUFFICES ASSUME T # {} PROVE FALSE
  OBVIOUS
<1>2. T \subseteq Nat
  BY ResFinite
<1>3. PICK n \in T : \A k \in T : n <= k
  BY <1>1, <1>2, LeastNatural
<1>4. n \in Nat /\ n \in 0 .. Cardinality(Res) /\ e[n] # f[n]
  BY <1>2, <1>3
<1>5. CASE n = 0
  BY <1>4, <1>5 DEF Walk
<1>6. CASE n # 0
  <2>1. n - 1 \in 0 .. Cardinality(Res) /\ ~ (n <= n - 1)
    BY <1>4, <1>6, ResFinite
  <2>2. e[n - 1] = f[n - 1]
    BY <1>3, <2>1
  <2>3. /\ e[n] = IF e[n - 1] = Nil THEN Nil ELSE info[e[n - 1]]
        /\ f[n] = IF f[n - 1] = Nil THEN Nil ELSE info[f[n - 1]]
    BY <1>4, <1>6 DEF Walk
  <2> QED BY <1>4, <2>2, <2>3
<1> QED BY <1>5, <1>6

LEMMA ChainWalk ==
  ASSUME NEW h, NEW f, Walk(f, h)
  PROVE  Chain(h) = {f[n] : n \in 0 .. Cardinality(Res)} \ {Nil}
<1> DEFINE e == CHOOSE at : Walk(at, h)
<1>1. Walk(e, h)
  OBVIOUS
<1>2. Chain(h) = {e[n] : n \in DOMAIN e} \ {Nil}
  BY DEF Chain, Walk
<1>3. DOMAIN e = 0 .. Cardinality(Res)
  BY <1>1 DEF Walk
<1> HIDE DEF e
<1>4. \A n \in 0 .. Cardinality(Res) : e[n] = f[n]
  BY <1>1, OneWalk
<1> QED BY <1>2, <1>3, <1>4

\* Positions have no gaps, ...
LEMMA NoGap ==
  ASSUME NEW S \in SUBSET Res, NEW h \in Res, NEW pos \in [Res -> Nat],
         Threaded(S, h, pos), NEW x \in S, NEW d \in Nat, pos[x] = pos[h] + d,
         NEW n \in 0 .. d
  PROVE  \E y \in S : pos[y] = pos[h] + n
<1> DEFINE T == {k \in 0 .. d : ~ \E y \in S : pos[y] = pos[h] + (d - k)}
<1>1. h \in S /\ h # Nil
  BY ResFinite DEF Threaded
<1>2. T = {}
  <2> SUFFICES ASSUME T # {} PROVE FALSE
    OBVIOUS
  <2>0. T \subseteq Nat
    OBVIOUS
  <2>1. PICK k \in T : \A j \in T : k <= j
    <3> HIDE DEF T
    <3> QED BY <2>0, LeastNatural
  <2>2. k \in 0 .. d /\ ~ \E y \in S : pos[y] = pos[h] + (d - k)
    OBVIOUS
  <2>3. k # 0
    BY <2>2
  <2>4. k - 1 \in 0 .. d /\ ~ (k <= k - 1)
    BY <2>2, <2>3
  <2>5. PICK y \in S : pos[y] = pos[h] + (d - (k - 1))
    BY <2>1, <2>4
  <2>6. y # h
    BY <2>2, <2>5
  <2>7. PICK z \in S : info[z] = y
    BY <2>6 DEF Threaded
  <2>8. pos[y] = pos[z] + 1
    BY <2>7, ResFinite DEF Threaded
  <2>9. pos[z] = pos[h] + (d - k)
    BY <2>2, <2>5, <2>8
  <2> QED BY <2>2, <2>9
<1>3. d - n \in 0 .. d /\ d - (d - n) = n
  OBVIOUS
<1> QED BY <1>2, <1>3

\* ... so that a chain is not longer than there are blocks.
LEMMA ChainShort ==
  ASSUME NEW S \in SUBSET Res, NEW h \in Res, NEW pos \in [Res -> Nat],
         Threaded(S, h, pos), NEW x \in S
  PROVE  pos[x] - pos[h] \in 0 .. Cardinality(Res)
<1>1. PICK d \in Nat : pos[x] = pos[h] + d
  <2>1. pos[h] <= pos[x] /\ pos[h] \in Nat /\ pos[x] \in Nat
    BY ResFinite DEF Threaded
  <2>2. pos[x] - pos[h] \in Nat /\ pos[x] = pos[h] + (pos[x] - pos[h])
    BY <2>1
  <2> QED BY <2>2
<1>2. SUFFICES ASSUME d > Cardinality(Res) PROVE FALSE
  BY <1>1, ResFinite
<1> DEFINE f == [n \in 0 .. d |-> CHOOSE y \in S : pos[y] = pos[h] + n]
<1>3. ASSUME NEW n \in 0 .. d PROVE f[n] \in Res /\ pos[f[n]] = pos[h] + n
  BY <1>1, NoGap
<1>4. f \in [0 .. d -> Res]
  BY <1>3
<1>5. IsFiniteSet(0 .. d) /\ Cardinality(0 .. d) = d + 1
  <2> HIDE DEF f
  <2>1. d \in Int /\ 0 \in Int /\ ~ (0 > d) /\ d - 0 + 1 = d + 1
    OBVIOUS
  <2>2. /\ IsFiniteSet(0 .. d)
        /\ Cardinality(0 .. d) = IF 0 > d THEN 0 ELSE d - 0 + 1
    BY <2>1, FS_Interval, Zenon
  <2> QED BY <2>1, <2>2
<1> HIDE DEF f
<1>6. PICK i, j \in 0 .. d : i # j /\ f[i] = f[j]
  <2>1. Cardinality(Res) < Cardinality(0 .. d)
    BY <1>2, <1>5, ResFinite
  <2> QED BY <1>4, <1>5, <2>1, ResFinite, FS_PigeonHole
<1>7. pos[h] + i = pos[h] + j
  BY <1>3, <1>6
<1> QED BY <1>6, <1>7

\* The recursive definition finds the blocks that are threaded from h on.
LEMMA ChainOf ==
  ASSUME info \in [Res -> Res \cup {Nil}], NEW S \in SUBSET Res,
         NEW h \in Res \cup {Nil}, NEW pos \in [Res -> Nat], Threaded(S, h, pos)
  PROVE  Chain(h) = S
<1>1. CASE h = Nil
  <2> DEFINE f == [n \in 0 .. Cardinality(Res) |-> Nil]
  <2>1. Walk(f, h)
    BY <1>1, ResFinite DEF Walk
  <2>2. Chain(h) = {f[n] : n \in 0 .. Cardinality(Res)} \ {Nil}
    BY <2>1, ChainWalk
  <2>3. S = {}
    BY <1>1 DEF Threaded
  <2> QED BY <2>2, <2>3
<1>2. CASE h # Nil
  <2>0. h \in Res /\ h \in S /\ Nil \notin Res /\ Cardinality(Res) \in Nat
    BY <1>2, ResFinite DEF Threaded
  <2> DEFINE At(n) == {x \in S : pos[x] = pos[h] + n}
             f == [n \in 0 .. Cardinality(Res) |->
                     IF At(n) = {} THEN Nil ELSE CHOOSE x \in At(n) : TRUE]
  <2>1. ASSUME NEW n \in 0 .. Cardinality(Res), NEW x \in At(n) PROVE f[n] = x
    <3>1. \A y \in At(n) : y = x
      BY DEF Threaded
    <3>2. (CHOOSE y \in At(n) : TRUE) \in At(n)
      OBVIOUS
    <3> QED BY <3>1, <3>2
  <2>2. ASSUME NEW n \in 0 .. Cardinality(Res), At(n) = {} PROVE f[n] = Nil
    BY <2>2
  <2>3. h \in At(0)
    BY <2>0
  <2>4. ASSUME NEW n \in 0 .. Cardinality(Res), n # 0
        PROVE  f[n] = IF f[n - 1] = Nil THEN Nil ELSE info[f[n - 1]]
    <3>0. n \in Nat /\ n - 1 \in 0 .. Cardinality(Res) /\ n - 1 \in Nat
      BY <2>0, <2>4
    <3>1. CASE At(n - 1) = {}
      <4>1. ASSUME NEW x \in At(n) PROVE FALSE
        <5>1. x \in S /\ pos[x] = pos[h] + n /\ x # h
          BY <2>0, <2>4, <3>0
        <5>2. PICK y \in S : info[y] = x
          BY <5>1 DEF Threaded
        <5>3. pos[x] = pos[y] + 1
          BY <2>0, <5>1, <5>2 DEF Threaded
        <5>4. pos[y] = pos[h] + (n - 1)
          BY <2>0, <3>0, <5>1, <5>3
        <5> QED BY <3>1, <5>4
      <4> QED BY <2>2, <3>0, <3>1, <4>1
    <3>2. ASSUME NEW y \in At(n - 1) PROVE f[n] = IF f[n - 1] = Nil THEN Nil
                                                 ELSE info[f[n - 1]]
      <4>1. f[n - 1] = y /\ y \in S /\ y # Nil /\ pos[y] = pos[h] + (n - 1)
        BY <2>0, <2>1, <3>0
      <4>2. CASE info[y] = Nil
        <5>1. ASSUME NEW x \in At(n) PROVE FALSE
          <6>1. pos[x] <= pos[y] /\ pos[x] = pos[h] + n
            BY <4>1, <4>2 DEF Threaded
          <6> QED BY <2>0, <3>0, <4>1, <6>1
        <5> QED BY <2>2, <4>1, <4>2, <5>1
      <4>3. CASE info[y] # Nil
        <5>1. info[y] \in S /\ pos[info[y]] = pos[y] + 1
          BY <4>1, <4>3 DEF Threaded
        <5>2. info[y] \in At(n)
          BY <2>0, <3>0, <4>1, <5>1
        <5> QED BY <2>1, <4>1, <5>2
      <4> QED BY <4>2, <4>3
    <3> QED BY <3>1, <3>2
  <2>5. Walk(f, h)
    <3>1. f[0] = h
      BY <2>0, <2>1, <2>3
    <3>2. f = [n \in 0 .. Cardinality(Res) |-> f[n]]
      OBVIOUS
    <3> HIDE DEF f
    <3>3. \A n \in 0 .. Cardinality(Res) :
            f[n] = IF n = 0 THEN h ELSE IF f[n - 1] = Nil THEN Nil ELSE info[f[n - 1]]
      BY <2>4, <3>1
    <3> QED BY <3>2, <3>3 DEF Walk
  <2>6. Chain(h) = {f[n] : n \in 0 .. Cardinality(Res)} \ {Nil}
    BY <2>5, ChainWalk
  <2>7. ASSUME NEW n \in 0 .. Cardinality(Res), f[n] # Nil PROVE f[n] \in S
    <3>1. PICK x \in At(n) : TRUE
      BY <2>2, <2>7
    <3> QED BY <2>1, <3>1
  <2>8. ASSUME NEW x \in S PROVE \E n \in 0 .. Cardinality(Res) : f[n] = x
    <3>1. pos[x] - pos[h] \in 0 .. Cardinality(Res)
      BY <2>0, ChainShort
    <3>2. x \in At(pos[x] - pos[h])
      BY <2>0
    <3> QED BY <2>1, <3>1, <3>2
  <2> HIDE DEF f
  <2> QED BY <2>0, <2>6, <2>7, <2>8
<1> QED BY <1>1, <1>2

-----------------------------------------------------------------------------
(* The slots of the ring.                                                  *)

\* Division with remainder is unique.
LEMMA Remainder ==
  ASSUME NEW a \in Int, NEW q \in Int, NEW r \in 0 .. ReleaseItems - 1,
         a = q * ReleaseItems + r
  PROVE  a % ReleaseItems = r
<1> DEFINE b == a \div ReleaseItems
           s == a % ReleaseItems
<1>1. /\ ReleaseItems \in Nat /\ ReleaseItems > 0 /\ b \in Int
      /\ s \in 0 .. ReleaseItems - 1 /\ a = ReleaseItems * b + s
  BY SizeAssumption
<1> HIDE DEF b, s
<1>2. PICK k \in Int : k = q - b
  BY <1>1
<1>3. k * ReleaseItems = s - r
  BY <1>1, <1>2
<1>4. k > 0 => k * ReleaseItems >= ReleaseItems
  BY <1>1
<1>5. k < 0 => k * ReleaseItems <= -ReleaseItems
  BY <1>1
<1>6. k = 0
  BY <1>1, <1>3, <1>4, <1>5
<1>7. s = r
  BY <1>1, <1>3, <1>6
<1> QED BY <1>7 DEF s

\* Whole rounds do not change the slot.
LEMMA Rounds ==
  ASSUME NEW a \in Int, NEW k \in Int
  PROVE  (a + k * ReleaseItems) % ReleaseItems = a % ReleaseItems
<1>1. PICK q \in Int, r \in 0 .. ReleaseItems - 1 :
        a = q * ReleaseItems + r /\ r = a % ReleaseItems
  <2>1. /\ a \div ReleaseItems \in Int /\ a % ReleaseItems \in 0 .. ReleaseItems - 1
        /\ a = (a \div ReleaseItems) * ReleaseItems + (a % ReleaseItems)
    BY SizeAssumption
  <2> QED BY <2>1
<1>2. ReleaseItems \in Nat
  BY SizeAssumption
<1>3. a + k * ReleaseItems = (q + k) * ReleaseItems + r
  BY <1>1, <1>2
<1>4. (a + k * ReleaseItems) \in Int /\ (q + k) \in Int
  BY <1>2
<1> QED BY <1>1, <1>3, <1>4, Remainder

\* The 32-bit wraparound keeps the slot: the ring's size divides 2^32.
LEMMA Wraps ==
  ASSUME NEW a \in Int
  PROVE  (a + IdxMod) % ReleaseItems = a % ReleaseItems
<1>1. PICK k \in Int : IdxMod = k * ReleaseItems
  <2>1. /\ IdxMod \div ReleaseItems \in Int
        /\ IdxMod = (IdxMod \div ReleaseItems) * ReleaseItems + (IdxMod % ReleaseItems)
        /\ IdxMod % ReleaseItems = 0
    BY SizeAssumption
  <2>2. (IdxMod \div ReleaseItems) * ReleaseItems \in Int
    BY <2>1, SizeAssumption
  <2> QED BY <2>1, <2>2
<1> QED BY <1>1, Rounds

LEMMA SuccFacts ==
  ASSUME NEW i \in Index
  PROVE  /\ Succ(i) = IF i = IdxMod - 1 THEN 0 ELSE i + 1
         /\ Succ(i) \in Index
BY SizeAssumption DEF Succ, Index

LEMMA UsedFacts ==
  ASSUME NEW p \in Index, NEW c \in Index
  PROVE  /\ (p - c) % IdxMod = IF p >= c THEN p - c ELSE p - c + IdxMod
         /\ (p - c) % IdxMod \in Nat
BY SizeAssumption DEF Index

\* The slot of prod is the one behind the used ones.
LEMMA ProdSlot ==
  ASSUME NEW p \in Index, NEW c \in Index
  PROVE  p % ReleaseItems = (c + ((p - c) % IdxMod)) % ReleaseItems
<1>1. p \in Int /\ c \in Int /\ IdxMod \in Int
  BY SizeAssumption DEF Index
<1>2. CASE p >= c
  <2>1. c + ((p - c) % IdxMod) = p
    BY <1>1, <1>2, UsedFacts
  <2> QED BY <2>1
<1>3. CASE ~ (p >= c)
  <2>1. c + ((p - c) % IdxMod) = p + IdxMod
    BY <1>1, <1>3, UsedFacts
  <2> QED BY <1>1, <2>1, Wraps
<1> QED BY <1>2, <1>3

\* Storing prod uses one more slot.
LEMMA PushFacts ==
  ASSUME NEW p \in Index, NEW c \in Index, (p - c) % IdxMod < ReleaseItems
  PROVE  (Succ(p) - c) % IdxMod = ((p - c) % IdxMod) + 1
<1>1. Succ(p) \in Index /\ Succ(p) = IF p = IdxMod - 1 THEN 0 ELSE p + 1
  BY SuccFacts
<1>2. /\ (Succ(p) - c) % IdxMod = IF Succ(p) >= c THEN Succ(p) - c
                                                  ELSE Succ(p) - c + IdxMod
      /\ (p - c) % IdxMod = IF p >= c THEN p - c ELSE p - c + IdxMod
  BY <1>1, UsedFacts
<1> QED BY <1>1, <1>2, SizeAssumption DEF Index

\* Storing cons uses one less, from the next slot on.
LEMMA PopFacts ==
  ASSUME NEW p \in Index, NEW c \in Index, p # c
  PROVE  /\ (p - c) % IdxMod > 0
         /\ (p - Succ(c)) % IdxMod = ((p - c) % IdxMod) - 1
         /\ \A i \in Nat : (Succ(c) + i) % ReleaseItems = (c + (i + 1)) % ReleaseItems
<1>1. Succ(c) \in Index /\ Succ(c) = IF c = IdxMod - 1 THEN 0 ELSE c + 1
  BY SuccFacts
<1>2. /\ (p - Succ(c)) % IdxMod = IF p >= Succ(c) THEN p - Succ(c)
                                                  ELSE p - Succ(c) + IdxMod
      /\ (p - c) % IdxMod = IF p >= c THEN p - c ELSE p - c + IdxMod
  BY <1>1, UsedFacts
<1>3. (p - c) % IdxMod > 0 /\ (p - Succ(c)) % IdxMod = ((p - c) % IdxMod) - 1
  BY <1>1, <1>2, SizeAssumption DEF Index
<1>4. ASSUME NEW i \in Nat
      PROVE  (Succ(c) + i) % ReleaseItems = (c + (i + 1)) % ReleaseItems
  <2>1. c \in Int /\ IdxMod \in Int
    BY SizeAssumption DEF Index
  <2>2. CASE c = IdxMod - 1
    <3>1. Succ(c) + i = i /\ c + (i + 1) = i + IdxMod
      BY <1>1, <2>1, <2>2
    <3> QED BY <3>1, Wraps
  <2>3. CASE c # IdxMod - 1
    <3>1. Succ(c) + i = c + (i + 1)
      BY <1>1, <2>1, <2>3
    <3> QED BY <3>1
  <2> QED BY <2>2, <2>3
<1> QED BY <1>3, <1>4

\* Slots within one round differ.
LEMMA SlotsDiffer ==
  ASSUME NEW c \in Int, NEW i \in 0 .. ReleaseItems - 1,
         NEW j \in 0 .. ReleaseItems - 1,
         (c + i) % ReleaseItems = (c + j) % ReleaseItems
  PROVE  i = j
<1> DEFINE q == (c + i) \div ReleaseItems
           s == (c + j) \div ReleaseItems
           r == (c + i) % ReleaseItems
<1>1. /\ ReleaseItems \in Nat /\ ReleaseItems > 0 /\ q \in Int /\ s \in Int
      /\ r \in 0 .. ReleaseItems - 1
      /\ c + i = ReleaseItems * q + r /\ c + j = ReleaseItems * s + r
  BY SizeAssumption
<1> HIDE DEF q, s, r
<1>2. PICK k \in Int : k = q - s
  BY <1>1
<1>3. k * ReleaseItems = i - j
  BY <1>1, <1>2
<1>4. k > 0 => k * ReleaseItems >= ReleaseItems
  BY <1>1
<1>5. k < 0 => k * ReleaseItems <= -ReleaseItems
  BY <1>1
<1>6. k = 0
  BY <1>1, <1>3, <1>4, <1>5
<1> QED BY <1>1, <1>3, <1>6

-----------------------------------------------------------------------------
(* The loan of the blocks.                                                 *)

LoanInv ==
    /\ TypeOK /\ Placed /\ WorkerOK
    /\ \E home \in [Res -> Int], pos \in [Res -> Nat] : Chained(home, pos)

\* What a step that is not about chains leaves alone.
Quiet ==
    /\ info' = info /\ last_release' = last_release /\ num_free_res' = num_free_res
    /\ release'.items = release.items
    /\ release'.prod = release.prod /\ release'.cons = release.cons
    /\ (free \cup Device)' = free \cup Device
    /\ g'.x = g.x
    /\ g'.pc = "walk" <=> g.pc = "walk"
    /\ Linking' <=> Linking

LEMMA ChainsStay ==
  ASSUME Quiet, NEW home \in [Res -> Int], NEW pos \in [Res -> Nat], Chained(home, pos)
  PROVE  Chained(home, pos)'
<1>1. ProdItem' = ProdItem /\ Used' = Used /\ (Linking' <=> Linking)
  BY DEF Quiet, ProdItem, Used
<1>2. \A c \in Int : HasChain(c)' <=> HasChain(c)
  BY <1>1 DEF Quiet, HasChain, IsPublished
<1>3. \A c \in Int : FirstOf(c)' = FirstOf(c)
  BY DEF Quiet, FirstOf
<1>4. \A c \in Int : Members(home, c)' = Members(home, c)
  BY DEF Members
<1>5. ASSUME NEW S, NEW h
      PROVE  Threaded(S, h, pos)' <=> Threaded(S, h, pos)
  BY DEF Quiet, Threaded
<1>6. \A x \in Res : (home[x] = NoHome <=> x \in free \cup Device)'
  BY DEF Chained, Quiet, NoHome
<1>7. \A x \in Res : (home[x] # NoHome => HasChain(home[x]))'
  <2>1. \A x \in Res : home[x] \in Int
    OBVIOUS
  <2> QED BY <1>2, <2>1 DEF Chained, NoHome
<1>8. Counted(home)'
  <2>1. Counted(home)
    BY DEF Chained
  <2>2. Members(home, ProdItem)' = Members(home, ProdItem)
    BY <1>1 DEF Members
  <2> QED BY <1>1, <2>1, <2>2 DEF Counted, Quiet
<1>9. \A c \in -1 .. ReleaseItems - 1 :
        (HasChain(c) => Threaded(Members(home, c), FirstOf(c), pos))'
  <2> SUFFICES ASSUME NEW c \in -1 .. ReleaseItems - 1, HasChain(c)'
               PROVE  Threaded(Members(home, c), FirstOf(c), pos)'
    OBVIOUS
  <2>0. c \in Int
    BY SizeAssumption
  <2>1. Threaded(Members(home, c), FirstOf(c), pos)
    BY <1>2, <2>0 DEF Chained
  <2>2. Members(home, c)' = Members(home, c) /\ FirstOf(c)' = FirstOf(c)
    BY <1>3, <1>4, <2>0
  <2> QED BY <2>1, <2>2 DEF Threaded, Quiet
<1> QED BY <1>6, <1>7, <1>8, <1>9 DEF Chained

\* The steps of the driver and of the main thread that leave the chains alone.
LEMMA QuietElsewhere ==
  ASSUME LoanInv, \/ \E x \in Res : DrvSubmit(x)
                  \/ DrvOutOfMemory \/ IoOom
  PROVE  Quiet /\ Placed' /\ WorkerOK'
<1>1. ASSUME NEW x \in Res, DrvSubmit(x) PROVE Quiet /\ Placed' /\ WorkerOK'
  <2>1. /\ free' = free \ {x} /\ queued' = queued \cup {x} /\ x \in free
        /\ UNCHANGED <<release, info, last_release, num_free_res, tree, piped, glz, w, g>>
    BY <1>1 DEF DrvSubmit, relVars
  <2>2. Quiet
    BY <2>1 DEF Quiet, Device, Held, Linking
  <2>3. Placed'
    BY <2>1 DEF LoanInv, Placed, Device, Held
  <2>4. WorkerOK'
    BY <2>1 DEF LoanInv, WorkerOK, Used
  <2> QED BY <2>2, <2>3, <2>4
<1>2. ASSUME DrvOutOfMemory PROVE Quiet /\ Placed' /\ WorkerOK'
  <2>1. UNCHANGED <<info, last_release, num_free_res, queued, tree, piped, glz, w, free>>
    BY <1>2 DEF DrvOutOfMemory, useVars
  <2>2. release'.items = release.items /\ release'.prod = release.prod
        /\ release'.cons = release.cons
    <3>1. release' = release \/ release' = [release EXCEPT !.notify_on_prod = g.tmp]
      BY <1>2 DEF DrvOutOfMemory
    <3>2. release \in RingState
      BY DEF LoanInv, TypeOK, RingState
    <3> QED BY <3>1, <3>2 DEF RingState
  <2>3. g'.x = g.x /\ g.pc # "walk" /\ g'.pc # "walk"
    <3>1. \/ \E c \in {"need", "io", "sleep"} : g' = [g EXCEPT !.pc = c]
          \/ g' = [g EXCEPT !.pc = "arm", !.tmp = Succ(release.prod)]
          \/ g' = [g EXCEPT !.pc = "retest", !.tmp = 0]
      BY <1>2 DEF DrvOutOfMemory
    <3>2. g \in DriverState /\ g.pc # "walk"
      BY <1>2 DEF LoanInv, TypeOK, DriverState, DrvOutOfMemory
    <3> QED BY <3>1, <3>2 DEF DriverState
  <2>4. Quiet
    BY <2>1, <2>2, <2>3 DEF Quiet, Device, Held, Linking
  <2>5. Placed'
    BY <2>1 DEF LoanInv, Placed, Device, Held
  <2>6. WorkerOK'
    BY <2>1, <2>2 DEF LoanInv, WorkerOK, Used
  <2> QED BY <2>4, <2>5, <2>6
<1>3. ASSUME IoOom PROVE Quiet /\ Placed' /\ WorkerOK'
  <2>1. UNCHANGED <<release, info, last_release, num_free_res, queued, tree, piped, glz,
                    w, free, g>>
    BY <1>3 DEF IoOom, relVars, useVars
  <2>2. Quiet
    BY <2>1 DEF Quiet, Device, Held, Linking
  <2>3. Placed'
    BY <2>1 DEF LoanInv, Placed, Device, Held
  <2>4. WorkerOK'
    BY <2>1 DEF LoanInv, WorkerOK, Used
  <2> QED BY <2>2, <2>3, <2>4
<1> QED BY <1>1, <1>2, <1>3

\* A step of the worker that only moves blocks between its own sets.
LEMMA WorkerMoves ==
  ASSUME LoanInv,
         UNCHANGED <<release, info, last_release, num_free_res, free, g>>,
         Device' = Device, Linking' <=> Linking,
         queued' \cap (Held \cup w.rels)' = {}, w'.rels \cap Held' = {}
  PROVE  Quiet /\ Placed'
<1>1. Quiet
  BY DEF Quiet
<1>2. Placed'
  BY DEF LoanInv, Placed
<1> QED BY <1>1, <1>2

\* The steps of the worker that leave the chains alone.
LEMMA QuietWorker ==
  ASSUME LoanInv, \/ Process \/ Push \/ Draw \/ FreeGlz \/ HandleOom \/ Released
                  \/ PushNotify \/ OomProcessed \/ FlushResources \/ OomDone
  PROVE  Quiet /\ Placed' /\ WorkerOK'
<1>0. /\ w \in WorkerState
      /\ queued \cap (Held \cup w.rels) = {} /\ w.rels \cap Held = {}
  BY DEF LoanInv, TypeOK, WorkerState, Placed
<1>w. /\ w.rels # {} => w.pc \in {"release", "publish", "published", "slot"}
      /\ w.rels # {} => ~w.flush
      /\ w.flush => w.pc \in {"publish", "published", "slot", "oomdone"}
      /\ Used < ReleaseItems
      /\ w.pc = "publish" => Used + 1 < ReleaseItems
  BY DEF LoanInv, WorkerOK
<1>1. ASSUME TakesOut, w.pc \in {"loop", "oom", "flush"},
             UNCHANGED <<release, info, last_release, num_free_res, free, g>>
      PROVE  Quiet /\ Placed' /\ WorkerOK'
  <2>1. PICK S, ret : Drops(S, ret)
    BY <1>1, TakenOut
  <2>2. w.rels = {} /\ ~w.flush
    BY <1>1, <1>w
  <2>3. w'.rels = S \ Held' /\ w'.pc = "release" /\ w'.flush = w.flush
    BY <1>0, <2>1 DEF Drops, WorkerState
  <2>4. /\ queued' \subseteq queued /\ queued \ queued' \subseteq S
        /\ S \subseteq Held \cup (queued \ queued')
        /\ Held' \subseteq Held \cup S /\ Held \subseteq Held' \cup S
    BY <2>1 DEF Drops
  <2>5. PICK H1 : H1 = Held'
    OBVIOUS
  <2>6. Device' = Device
    <3>1. queued' \cup H1 \cup (S \ H1) = queued \cup Held
      BY <2>4, <2>5
    <3> QED BY <2>2, <2>3, <2>5, <3>1 DEF Device
  <2>7. queued' \cap (Held \cup w.rels)' = {}
    <3>1. queued' \cap (H1 \cup (S \ H1)) = {}
      BY <1>0, <2>4, <2>5
    <3> QED BY <2>3, <2>5, <3>1
  <2>8. w'.rels \cap Held' = {}
    BY <2>3
  <2>9. Linking' <=> Linking
    BY <1>1, <2>3 DEF Linking
  <2>10. WorkerOK'
    BY <1>1, <1>w, <2>2, <2>3 DEF WorkerOK, Used
  <2> QED BY <1>1, <2>6, <2>7, <2>8, <2>9, <2>10, WorkerMoves
<1>2. ASSUME Process \/ Push \/ Draw \/ FreeGlz PROVE Quiet /\ Placed' /\ WorkerOK'
  <2>1. TakesOut
    BY <1>2 DEF TakesOut
  <2>2. UNCHANGED <<release, info, last_release, num_free_res, free, g>>
    BY <1>2, TakesOutQuiet DEF relVars
  <2> QED BY <1>1, <1>2, <2>1, <2>2, TakesOutAt
<1>4. ASSUME UNCHANGED <<release, info, last_release, num_free_res, free, g>>,
             UNCHANGED useVars, w'.rels = w.rels, Linking' <=> Linking
      PROVE  Quiet /\ Placed'
  <2>0. Held' = Held /\ queued' = queued
    BY <1>4 DEF useVars, Held
  <2>1. Device' = Device
    BY <1>4, <2>0 DEF Device
  <2>2. queued' \cap (Held \cup w.rels)' = {} /\ w'.rels \cap Held' = {}
    BY <1>0, <1>4, <2>0
  <2> QED BY <1>4, <2>1, <2>2, WorkerMoves
<1>5. ASSUME HandleOom \/ Released \/ OomProcessed \/ PushNotify \/ OomDone
      PROVE  Quiet /\ Placed' /\ WorkerOK'
  <2>1. /\ UNCHANGED <<release, info, last_release, num_free_res, free, g>>
        /\ UNCHANGED useVars
    BY <1>5 DEF HandleOom, Released, OomProcessed, PushNotify, OomDone, relVars
  <2>2. /\ w'.rels = w.rels
        /\ \/ w.pc = "release" /\ w.rels = {} /\ w'.flush = w.flush
              /\ w'.pc \in {"loop", "oom", "flushagain"}
           \/ w.pc \in {"loop", "oom"} /\ w'.flush = w.flush /\ w'.pc \in {"oom", "flush"}
           \/ w.pc = "published" /\ w'.pc = "slot" /\ w'.flush = w.flush
           \/ w.pc = "oomdone" /\ w'.pc = "loop" /\ ~w'.flush
    BY <1>0, <1>5 DEF HandleOom, Released, OomProcessed, PushNotify, OomDone, WorkerState
  <2>3. Linking' <=> Linking
    BY <2>2 DEF Linking
  <2>4. WorkerOK'
    BY <1>w, <2>1, <2>2 DEF WorkerOK, Used
  <2> QED BY <1>4, <2>1, <2>2, <2>3, <2>4
<1>7. ASSUME FlushResources PROVE Quiet /\ Placed' /\ WorkerOK'
  <2>1. /\ UNCHANGED <<release, info, last_release, num_free_res, free, g>>
        /\ w.pc \in {"flush", "flushagain"}
    BY <1>7, TakesOutQuiet, FlushCases DEF relVars
  <2>2. CASE UNCHANGED useVars /\ w' = [w EXCEPT !.pc = "oomdone"]
    <3>1. w'.rels = w.rels /\ w'.pc = "oomdone" /\ w'.flush = w.flush
      BY <1>0, <2>2 DEF WorkerState
    <3>2. Linking' <=> Linking
      BY <2>1, <3>1 DEF Linking
    <3>3. WorkerOK'
      BY <1>w, <2>1, <3>1 DEF WorkerOK, Used
    <3> QED BY <1>4, <2>1, <2>2, <3>1, <3>2, <3>3
  <2>3. CASE /\ UNCHANGED useVars /\ Publish(num_free_res, TRUE)
             /\ w' = [w EXCEPT !.pc = "publish", !.flush = TRUE]
    <3>1. w'.rels = w.rels /\ w'.pc = "publish" /\ w'.flush = TRUE
      BY <1>0, <2>3 DEF WorkerState
    <3>2. Linking' <=> Linking
      BY <2>1, <3>1 DEF Linking
    <3>3. Used + 1 < ReleaseItems
      <4>1. Used + 1 # ReleaseItems
        BY <2>3 DEF Publish
      <4>2. Used \in Nat
        BY UsedFacts DEF LoanInv, TypeOK, Used
      <4> QED BY <1>w, <4>1, <4>2, SizeAssumption
    <3>4. WorkerOK'
      BY <1>w, <2>1, <3>1, <3>3 DEF WorkerOK, Used
    <3> QED BY <1>4, <2>1, <2>3, <3>1, <3>2, <3>4
  <2>4. CASE TakesOut /\ w.pc = "flush"
    BY <1>1, <2>1, <2>4
  <2> QED BY <1>7, <2>2, <2>3, <2>4, FlushCases
<1> QED BY <1>2, <1>5, <1>7

\* The slots that can hold chains.
LEMMA Slots ==
  ASSUME LoanInv
  PROVE  /\ ProdItem \in 0 .. ReleaseItems - 1 /\ Used \in Nat /\ Used < ReleaseItems
         /\ release.prod \in Index /\ release.cons \in Index
         /\ ReleaseItems \in Nat /\ ReleaseItems > 1
         /\ \A c \in Int : IsPublished(c) => c \in 0 .. ReleaseItems - 1
         /\ ~IsPublished(ProdItem)
         /\ \A c \in Int : HasChain(c) => c \in -1 .. ReleaseItems - 1
<1>1. release.prod \in Index /\ release.cons \in Index
  BY DEF LoanInv, TypeOK
<1>2. ReleaseItems \in Nat /\ ReleaseItems > 1 /\ Used < ReleaseItems
  BY SizeAssumption DEF LoanInv, WorkerOK
<1>3. ProdItem \in 0 .. ReleaseItems - 1 /\ Used \in Nat
  BY <1>1, IndexFacts, UsedFacts DEF ProdItem, Used
<1>4. ASSUME NEW c \in Int, IsPublished(c) PROVE c \in 0 .. ReleaseItems - 1
  <2>1. PICK i \in 0 .. Used - 1 : c = (release.cons + i) % ReleaseItems
    BY <1>4 DEF IsPublished
  <2>2. release.cons + i \in Int
    BY <1>1, <1>3, SizeAssumption DEF Index
  <2> QED BY <1>2, <2>1, <2>2
<1>5. ASSUME IsPublished(ProdItem) PROVE FALSE
  <2>1. PICK i \in 0 .. Used - 1 : ProdItem = (release.cons + i) % ReleaseItems
    BY <1>5 DEF IsPublished
  <2>2. ProdItem = (release.cons + Used) % ReleaseItems
    BY <1>1, ProdSlot DEF ProdItem, Used
  <2>3. /\ release.cons \in Int /\ i \in 0 .. ReleaseItems - 1
        /\ Used \in 0 .. ReleaseItems - 1 /\ i # Used
    BY <1>1, <1>2, <1>3, SizeAssumption DEF Index
  <2> QED BY <2>1, <2>2, <2>3, SlotsDiffer
<1>6. \A c \in Int : HasChain(c) => c \in -1 .. ReleaseItems - 1
  BY <1>2, <1>3, <1>4 DEF HasChain, AtDriver
<1> QED BY <1>1, <1>2, <1>3, <1>4, <1>5, <1>6

\* A chain stays when the ids of its blocks do.
LEMMA ThreadStays ==
  ASSUME NEW S, NEW h, NEW pos, NEW pos2, Threaded(S, h, pos), \A x \in S : x # Nil,
         \A x \in S : info'[x] = info[x] /\ pos2[x] = pos[x]
  PROVE  Threaded(S, h, pos2)'
BY DEF Threaded

\* What a state of the chains consists of.
LEMMA ChainFacts ==
  ASSUME LoanInv, NEW home \in [Res -> Int], NEW pos \in [Res -> Nat], Chained(home, pos)
  PROVE  /\ \A x \in Res : home[x] = NoHome <=> x \in free \cup Device
         /\ \A x \in Res : home[x] # NoHome => HasChain(home[x])
         /\ \A c \in Int : HasChain(c) => Threaded(Members(home, c), FirstOf(c), pos)
         /\ \A c \in Int : c # NoHome /\ ~HasChain(c) => Members(home, c) = {}
         /\ \A c \in Int : Members(home, c) \subseteq Res
         /\ Counted(home)
<1>1. \A c \in Int : HasChain(c) => Threaded(Members(home, c), FirstOf(c), pos)
  BY Slots DEF Chained
<1>2. \A c \in Int : c # NoHome /\ ~HasChain(c) => Members(home, c) = {}
  BY DEF Chained, Members, NoHome
<1> QED BY <1>1, <1>2 DEF Chained, Members

\* The driver takes the first published chain.
LEMMA PopChains ==
  ASSUME LoanInv, DrvPop
  PROVE  LoanInv'
<1>0. PICK home \in [Res -> Int], pos \in [Res -> Nat] : Chained(home, pos)
  BY DEF LoanInv
<1>1. PICK c0 \in Int : c0 = release.cons % ReleaseItems
  BY Slots DEF Index
<1>2. PICK home2 : home2 = [x \in Res |-> IF home[x] = c0 THEN AtDriver ELSE home[x]]
  OBVIOUS
<1>3. home2 \in [Res -> Int]
  BY <1>2 DEF AtDriver
<1>4. /\ g.pc # "walk" /\ release.prod # release.cons
      /\ UNCHANGED <<info, last_release, num_free_res, queued, tree, piped, glz, w, free>>
  BY DEF DrvPop, IsEmpty, useVars
<1>5. /\ g'.pc = "walk" /\ g'.x = release.items[c0]
      /\ release'.items = release.items /\ release'.prod = release.prod
      /\ release'.cons = Succ(release.cons)
  BY <1>1 DEF DrvPop, LoanInv, TypeOK
<1>6. /\ Used > 0 /\ Used' = Used - 1 /\ Used \in Nat
      /\ \A i \in Nat : (Succ(release.cons) + i) % ReleaseItems
                          = (release.cons + (i + 1)) % ReleaseItems
  BY <1>4, <1>5, Slots, PopFacts DEF Used
<1>7. IsPublished(c0)
  <2>1. release.cons + 0 = release.cons /\ 0 \in 0 .. Used - 1
    BY <1>6, Slots, SizeAssumption DEF Index
  <2> QED BY <1>1, <2>1 DEF IsPublished
<1>8. c0 \in 0 .. ReleaseItems - 1 /\ c0 # ProdItem /\ ProdItem' = ProdItem
      /\ (Linking' <=> Linking)
  BY <1>4, <1>5, <1>7, Slots DEF ProdItem, Linking
<1>9. ASSUME NEW c \in Int PROVE IsPublished(c)' <=> (IsPublished(c) /\ c # c0)
  <2>0. release.cons \in Int
    BY Slots, SizeAssumption DEF Index
  <2>1. ASSUME IsPublished(c)' PROVE IsPublished(c) /\ c # c0
    <3>1. PICK i \in 0 .. Used - 2 : c = (Succ(release.cons) + i) % ReleaseItems
      BY <1>5, <1>6, <2>1 DEF IsPublished
    <3>2. /\ i \in Nat /\ i + 1 \in 0 .. Used - 1
          /\ i + 1 \in 0 .. ReleaseItems - 1 /\ 0 \in 0 .. ReleaseItems - 1 /\ i + 1 # 0
      BY <1>6, <3>1, Slots
    <3>3. c = (release.cons + (i + 1)) % ReleaseItems
      BY <1>6, <3>1, <3>2
    <3>4. c # c0
      <4>1. c0 = (release.cons + 0) % ReleaseItems
        BY <1>1, <2>0
      <4> QED BY <2>0, <3>2, <3>3, <4>1, SlotsDiffer
    <3> QED BY <3>2, <3>3, <3>4 DEF IsPublished
  <2>2. ASSUME IsPublished(c), c # c0 PROVE IsPublished(c)'
    <3>1. PICK i \in 0 .. Used - 1 : c = (release.cons + i) % ReleaseItems
      BY <2>2 DEF IsPublished
    <3>2. i # 0
      BY <1>1, <2>0, <2>2, <3>1
    <3>3. i - 1 \in 0 .. Used - 2 /\ i - 1 \in Nat /\ (i - 1) + 1 = i
      BY <1>6, <3>1, <3>2
    <3>4. c = (Succ(release.cons) + (i - 1)) % ReleaseItems
      BY <1>6, <3>1, <3>3
    <3>5. i - 1 \in 0 .. Used' - 1
      BY <1>6, <3>3
    <3> QED BY <1>5, <3>4, <3>5 DEF IsPublished
  <2> QED BY <2>1, <2>2
<1>10. \A c \in Int : HasChain(c)' <=> c = AtDriver \/ (HasChain(c) /\ c # c0)
  BY <1>4, <1>5, <1>8, <1>9, Slots DEF HasChain, AtDriver
<1>11. Members(home, AtDriver) = {}
  <2>1. ~HasChain(AtDriver) /\ AtDriver \in Int /\ AtDriver # NoHome
    BY <1>4, Slots DEF HasChain, AtDriver, NoHome
  <2> QED BY <1>0, <2>1, ChainFacts
<1>12. /\ Members(home2, AtDriver) = Members(home, c0)
       /\ \A c \in Int : c # AtDriver /\ c # c0 => Members(home2, c) = Members(home, c)
  BY <1>2, <1>8, <1>11 DEF Members, AtDriver
<1>13. /\ FirstOf(AtDriver)' = FirstOf(c0)
       /\ \A c \in Int : c # AtDriver => FirstOf(c)' = FirstOf(c)
  BY <1>5, <1>8 DEF FirstOf, AtDriver
<1>14. Chained(home2, pos)'
  <2>1. \A x \in Res : (home2[x] = NoHome <=> x \in free \cup Device)'
    <3>1. Device' = Device /\ free' = free
      BY <1>4 DEF Device, Held
    <3>2. \A x \in Res : home2[x] = NoHome <=> home[x] = NoHome
      BY <1>2, <1>8 DEF NoHome, AtDriver
    <3> QED BY <1>0, <3>1, <3>2, ChainFacts
  <2>2. \A x \in Res : (home2[x] # NoHome => HasChain(home2[x]))'
    <3>1. ASSUME NEW x \in Res, home2[x] # NoHome
          PROVE  home2[x] = AtDriver \/ (HasChain(home2[x]) /\ home2[x] # c0)
      BY <1>0, <1>2, <1>8, <3>1, ChainFacts DEF AtDriver
    <3> QED BY <1>3, <1>10, <3>1
  <2>3. \A c \in -1 .. ReleaseItems - 1 :
          (HasChain(c) => Threaded(Members(home2, c), FirstOf(c), pos))'
    <3> SUFFICES ASSUME NEW c \in -1 .. ReleaseItems - 1, HasChain(c)'
                 PROVE  Threaded(Members(home2, c), FirstOf(c), pos)'
      OBVIOUS
    <3>0. c \in Int
      BY SizeAssumption
    <3>1. PICK b \in Int : /\ HasChain(b) /\ Members(home2, c) = Members(home, b)
                           /\ FirstOf(c)' = FirstOf(b)
      <4>1. CASE c = AtDriver
        <5>1. HasChain(c0)
          BY <1>7 DEF HasChain
        <5> QED BY <1>12, <1>13, <4>1, <5>1
      <4>2. CASE c # AtDriver
        BY <1>10, <1>12, <1>13, <3>0, <4>2
      <4> QED BY <4>1, <4>2
    <3>2. Threaded(Members(home, b), FirstOf(b), pos)
      BY <1>0, <3>1, ChainFacts
    <3>3. Threaded(Members(home2, c), FirstOf(c)', pos)
      BY <3>1, <3>2
    <3> QED BY <1>4, <3>3 DEF Threaded, Members
  <2>4. Counted(home2)'
    <3>1. Members(home2, ProdItem)' = Members(home, ProdItem)
      BY <1>8, <1>12, Slots DEF Members, AtDriver
    <3> QED BY <1>0, <1>4, <1>8, <3>1, ChainFacts DEF Counted
  <2> QED BY <2>1, <2>2, <2>3, <2>4 DEF Chained
<1>15. Placed' /\ WorkerOK'
  <2>1. Placed'
    BY <1>4 DEF LoanInv, Placed, Device, Held
  <2>2. WorkerOK'
    BY <1>4, <1>6, Slots DEF LoanInv, WorkerOK
  <2> QED BY <2>1, <2>2
<1>16. TypeOK'
  BY DriverTyped DEF LoanInv, Driver
<1> QED BY <1>3, <1>14, <1>15, <1>16 DEF LoanInv

\* Without its first block a chain begins at the next.
LEMMA ThreadRest ==
  ASSUME NEW S \in SUBSET Res, NEW x \in S, NEW pos \in [Res -> Nat],
         Threaded(S, x, pos), NEW h, h = info[x],
         \A y \in S \ {x} : info'[y] = info[y]
  PROVE  Threaded(S \ {x}, h, pos)'
<1>0. /\ Nil \notin Res /\ x # Nil /\ \A y \in S : pos[y] \in Nat /\ y # Nil
  BY ResFinite
<1>1. \A y \in S : pos[x] <= pos[y]
  BY <1>0 DEF Threaded
<1>2. \A y \in S \ {x} : pos[y] > pos[x]
  BY <1>0, <1>1 DEF Threaded
<1>3. h = Nil => S \ {x} = {}
  <2> SUFFICES ASSUME h = Nil, NEW y \in S \ {x} PROVE FALSE
    OBVIOUS
  <2>1. pos[y] <= pos[x]
    BY DEF Threaded
  <2> QED BY <1>0, <1>2, <2>1
<1>4. h # Nil => h \in S \ {x} /\ \A y \in S \ {x} : pos[h] <= pos[y]
  <2> SUFFICES ASSUME h # Nil PROVE h \in S \ {x} /\ \A y \in S \ {x} : pos[h] <= pos[y]
    OBVIOUS
  <2>1. h \in S /\ pos[h] = pos[x] + 1
    BY DEF Threaded
  <2> QED BY <1>0, <1>2, <2>1
<1>5. \A y \in S \ {x} : y # h => \E z \in S \ {x} : info'[z] = y
  BY DEF Threaded
<1>6. \A y \in S \ {x} : info'[y] # Nil => info'[y] \in S \ {x} /\ pos[info'[y]] = pos[y] + 1
  <2> SUFFICES ASSUME NEW y \in S \ {x}, info[y] # Nil
               PROVE  info[y] \in S \ {x} /\ pos[info[y]] = pos[y] + 1
    OBVIOUS
  <2>1. info[y] \in S /\ pos[info[y]] = pos[y] + 1
    BY DEF Threaded
  <2> QED BY <1>0, <1>2, <2>1
<1>7. \A y \in S \ {x} : info'[y] = Nil => \A z \in S \ {x} : pos[z] <= pos[y]
  BY DEF Threaded
<1>8. \A y, z \in S \ {x} : pos[y] = pos[z] => y = z
  BY DEF Threaded
<1> QED BY <1>3, <1>4, <1>5, <1>6, <1>7, <1>8 DEF Threaded

\* A block joins the end of a chain.
LEMMA ThreadJoin ==
  ASSUME NEW S \in SUBSET Res, NEW h \in S, NEW x \in Res \ S, NEW l \in S,
         NEW pos \in [Res -> Nat], NEW pos2 \in [Res -> Nat],
         pos2 = [pos EXCEPT ![x] = pos[l] + 1],
         Threaded(S, h, pos), info[l] = Nil,
         info'[l] = x, info'[x] = Nil, \A y \in S \ {l} : info'[y] = info[y]
  PROVE  Threaded(S \cup {x}, h, pos2)'
<1>0. /\ Nil \notin Res /\ x # Nil /\ h # Nil /\ x # l /\ \A y \in S : y # x /\ y # Nil
      /\ \A y \in S : pos[y] \in Nat /\ pos2[y] = pos[y]
      /\ pos2[x] = pos[l] + 1
  BY ResFinite
<1>1. \A y \in S : pos[y] <= pos[l]
  BY DEF Threaded
<1>2. \A y \in S \cup {x} : pos2[h] <= pos2[y]
  <2>1. \A y \in S : pos[h] <= pos[y]
    BY <1>0 DEF Threaded
  <2> QED BY <1>0, <2>1
<1>3. \A y \in S \cup {x} : y # h => \E z \in S \cup {x} : info'[z] = y
  <2>1. ASSUME NEW y \in S, y # h PROVE \E z \in S : info'[z] = y
    <3>1. PICK z \in S : info[z] = y
      BY <2>1 DEF Threaded
    <3>2. z # l
      BY <1>0, <3>1
    <3> QED BY <3>1, <3>2
  <2> QED BY <2>1
<1>4. ASSUME NEW y \in S \cup {x}, info'[y] # Nil
      PROVE  info'[y] \in S \cup {x} /\ pos2[info'[y]] = pos2[y] + 1
  <2>1. CASE y = l
    BY <1>0, <2>1
  <2>2. CASE y # l
    <3>1. y \in S \ {l}
      BY <1>4, <2>2
    <3>2. info[y] \in S /\ pos[info[y]] = pos[y] + 1
      BY <1>4, <3>1 DEF Threaded
    <3> QED BY <1>0, <3>1, <3>2
  <2> QED BY <2>1, <2>2
<1>5. ASSUME NEW y \in S \cup {x}, info'[y] = Nil
      PROVE  \A z \in S \cup {x} : pos2[z] <= pos2[y]
  <2>1. CASE y = x
    BY <1>0, <1>1, <2>1
  <2>2. CASE y # x
    <3>1. y \in S \ {l} /\ info[y] = Nil
      BY <1>0, <1>5, <2>2
    <3>2. pos[l] <= pos[y] /\ pos[y] <= pos[l]
      BY <1>1, <3>1 DEF Threaded
    <3>3. pos[l] = pos[y]
      BY <1>0, <3>1, <3>2
    <3> QED BY <3>1, <3>3 DEF Threaded
  <2> QED BY <2>1, <2>2
<1>6. ASSUME NEW y \in S \cup {x}, NEW z \in S \cup {x}, pos2[y] = pos2[z]
      PROVE  y = z
  <2>1. \A u \in S : pos2[u] # pos2[x]
    BY <1>0, <1>1
  <2>2. \A u, v \in S : pos2[u] = pos2[v] => u = v
    BY <1>0 DEF Threaded
  <2> QED BY <1>6, <2>1, <2>2
<1>7. h \in S \cup {x}
  OBVIOUS
<1> QED BY <1>0, <1>2, <1>3, <1>4, <1>5, <1>6, <1>7 DEF Threaded

\* The driver frees the first block of its chain.
LEMMA WalkChains ==
  ASSUME LoanInv, DrvWalk
  PROVE  LoanInv'
<1>0. PICK home \in [Res -> Int], pos \in [Res -> Nat] : Chained(home, pos)
  BY DEF LoanInv
<1>1. TypeOK'
  BY DriverTyped DEF LoanInv, Driver
<1>2. /\ g.pc = "walk" /\ AtDriver \in Int
      /\ UNCHANGED <<release, last_release, num_free_res, queued, tree, piped, glz, w>>
  BY DEF DrvWalk, useVars, AtDriver
<1>3. HasChain(AtDriver) /\ FirstOf(AtDriver) = g.x
  BY <1>2 DEF HasChain, FirstOf
<1>4. PICK S \in SUBSET Res : S = Members(home, AtDriver)
  BY DEF Members
<1>5. Threaded(S, g.x, pos)
  BY <1>0, <1>2, <1>3, <1>4, ChainFacts
<1>6. /\ ProdItem' = ProdItem /\ Used' = Used /\ (Linking' <=> Linking)
      /\ Device' = Device
      /\ \A c \in Int : IsPublished(c)' <=> IsPublished(c)
      /\ \A c \in Int : c # AtDriver => FirstOf(c)' = FirstOf(c)
  BY <1>2 DEF ProdItem, Used, Linking, Device, Held, IsPublished, FirstOf
<1>7. WorkerOK'
  BY <1>2, <1>6 DEF LoanInv, WorkerOK
<1>8. CASE g.x = Nil
  <2>1. g'.pc = "idle" /\ UNCHANGED <<info, free>>
    BY <1>8 DEF DrvWalk, LoanInv, TypeOK
  <2>2. S = {}
    BY <1>5, <1>8 DEF Threaded
  <2>3. \A c \in Int : HasChain(c)' <=> (HasChain(c) /\ c # AtDriver)
    BY <1>6, <2>1, Slots DEF HasChain, AtDriver
  <2>4. \A x \in Res : home[x] # AtDriver
    BY <1>4, <2>2 DEF Members
  <2>5. Chained(home, pos)'
    <3>1. \A x \in Res : (home[x] = NoHome <=> x \in free \cup Device)'
      BY <1>0, <1>6, <2>1, ChainFacts
    <3>2. \A x \in Res : (home[x] # NoHome => HasChain(home[x]))'
      BY <1>0, <2>3, <2>4, ChainFacts
    <3>3. \A c \in -1 .. ReleaseItems - 1 :
            (HasChain(c) => Threaded(Members(home, c), FirstOf(c), pos))'
      <4> SUFFICES ASSUME NEW c \in -1 .. ReleaseItems - 1, HasChain(c)'
                   PROVE  Threaded(Members(home, c), FirstOf(c), pos)'
        OBVIOUS
      <4>0. c \in Int /\ FirstOf(c)' = FirstOf(c) /\ HasChain(c)
        BY <1>6, <2>3, SizeAssumption
      <4>1. Threaded(Members(home, c), FirstOf(c)', pos)
        BY <1>0, <4>0, ChainFacts
      <4> QED BY <2>1, <4>1 DEF Threaded, Members
    <3>4. Counted(home)'
      <4>1. Members(home, ProdItem)' = Members(home, ProdItem)
        BY <1>6 DEF Members
      <4> QED BY <1>0, <1>2, <1>6, <2>1, <4>1, ChainFacts DEF Counted
    <3> QED BY <3>1, <3>2, <3>3, <3>4 DEF Chained
  <2>6. Placed'
    BY <1>2, <2>1 DEF LoanInv, Placed, Device, Held
  <2> QED BY <1>1, <1>7, <2>5, <2>6 DEF LoanInv
<1>9. CASE g.x # Nil
  <2>1. PICK x : x = g.x
    OBVIOUS
  <2>2. PICK h : h = info[x]
    OBVIOUS
  <2>3. x \in S /\ x \in Res /\ x \notin free \cup Device /\ home[x] = AtDriver
    <3>1. x \in S
      BY <1>5, <1>9, <2>1 DEF Threaded
    <3>2. x \in Res /\ home[x] = AtDriver
      BY <1>4, <3>1 DEF Members
    <3> QED BY <1>0, <3>1, <3>2, ChainFacts DEF AtDriver, NoHome
  <2>4. /\ free' = free \cup {x} /\ info' = [info EXCEPT ![x] = x]
        /\ g'.x = h /\ g'.pc = "walk"
    BY <1>2, <1>9, <2>1, <2>2 DEF DrvWalk, LoanInv, TypeOK
  <2>5. /\ info'[x] = x /\ \A y \in Res \ {x} : info'[y] = info[y]
    BY <2>3, <2>4 DEF LoanInv, TypeOK
  <2>6. PICK home2 : home2 = [home EXCEPT ![x] = NoHome]
    OBVIOUS
  <2>7. home2 \in [Res -> Int]
    <3>1. NoHome \in Int
      BY DEF NoHome
    <3> QED BY <2>6, <3>1
  <2>8. \A c \in Int : HasChain(c)' <=> HasChain(c)
    BY <1>2, <1>6, <2>4 DEF HasChain
  <2>9. /\ Members(home2, AtDriver) = S \ {x}
        /\ \A c \in Int : c # AtDriver /\ c # NoHome => Members(home2, c) = Members(home, c)
        /\ \A c \in Int : c # AtDriver => x \notin Members(home, c)
    BY <1>4, <2>3, <2>6 DEF Members, AtDriver, NoHome
  <2>10. Chained(home2, pos)'
    <3>1. \A y \in Res : (home2[y] = NoHome <=> y \in free \cup Device)'
      <4>1. \A y \in Res : home2[y] = NoHome <=> home[y] = NoHome \/ y = x
        BY <2>6
      <4>2. (free \cup Device)' = free \cup Device \cup {x}
        BY <1>6, <2>4
      <4> QED BY <1>0, <4>1, <4>2, ChainFacts
    <3>2. \A y \in Res : (home2[y] # NoHome => HasChain(home2[y]))'
      BY <1>0, <2>6, <2>7, <2>8, ChainFacts
    <3>3. \A c \in -1 .. ReleaseItems - 1 :
            (HasChain(c) => Threaded(Members(home2, c), FirstOf(c), pos))'
      <4> SUFFICES ASSUME NEW c \in -1 .. ReleaseItems - 1, HasChain(c)'
                   PROVE  Threaded(Members(home2, c), FirstOf(c), pos)'
        OBVIOUS
      <4>0. c \in Int /\ HasChain(c) /\ c # NoHome
        BY <2>8, SizeAssumption DEF NoHome
      <4>1. CASE c = AtDriver
        <5>1. Threaded(S \ {x}, h, pos)'
          BY <1>5, <2>1, <2>2, <2>3, <2>5, ThreadRest
        <5>2. FirstOf(c)' = h
          BY <2>4, <4>1 DEF FirstOf
        <5>3. Members(home2, c)' = S \ {x}
          BY <2>9, <4>1 DEF Members
        <5> QED BY <5>1, <5>2, <5>3 DEF Threaded
      <4>2. CASE c # AtDriver
        <5>1. PICK f : f = FirstOf(c)
          OBVIOUS
        <5>2. Threaded(Members(home, c), f, pos)
          BY <1>0, <4>0, <5>1, ChainFacts
        <5>3. Members(home, c) \subseteq Res \ {x}
          BY <2>9, <4>0, <4>2 DEF Members
        <5>4. PICK M : M = Members(home, c)
          OBVIOUS
        <5>5. Threaded(M, f, pos)'
          BY <2>5, <5>2, <5>3, <5>4, ResFinite, ThreadStays
        <5>6. FirstOf(c)' = f /\ Members(home2, c)' = M
          BY <1>6, <2>9, <4>0, <4>2, <5>1, <5>4 DEF Members
        <5> QED BY <5>5, <5>6 DEF Threaded
      <4> QED BY <4>1, <4>2
    <3>4. Counted(home2)'
      <4>1. Members(home2, ProdItem)' = Members(home, ProdItem)
        BY <1>6, <2>9, Slots DEF Members, AtDriver, NoHome
      <4>2. x \notin Members(home, ProdItem) /\ Members(home, ProdItem) \subseteq Res
        BY <2>9, Slots DEF Members, AtDriver
      <4>3. \A y \in Members(home, ProdItem) : info'[y] = info[y]
        BY <2>5, <4>2
      <4> QED BY <1>0, <1>2, <1>6, <4>1, <4>3, ChainFacts DEF Counted
    <3> QED BY <3>1, <3>2, <3>3, <3>4 DEF Chained
  <2>11. Placed'
    <3>1. \A y \in (free \cup Device)' : info'[y] = y
      <4>1. \A y \in free \cup Device : info[y] = y /\ y \in Res
        BY DEF LoanInv, Placed, TypeOK, Device, Held
      <4> QED BY <1>6, <2>4, <2>5, <4>1
    <3>2. (free \cap Device)' = {}
      BY <1>6, <2>3, <2>4 DEF LoanInv, Placed
    <3> QED BY <1>2, <3>1, <3>2 DEF LoanInv, Placed, Held
  <2> QED BY <1>1, <1>7, <2>7, <2>10, <2>11 DEF LoanInv
<1> QED BY <1>8, <1>9

\* A released block starts the chain that is being built, or joins its end.
LEMMA ReleaseChains ==
  ASSUME LoanInv, NEW x \in w.rels, w.pc = "release",
         IF release.items[ProdItem] = Nil
         THEN /\ release' = [release EXCEPT !.items[ProdItem] = info[x]]
              /\ info' = [info EXCEPT ![x] = Nil]
         ELSE /\ info' = [info EXCEPT ![last_release] = info[x], ![x] = Nil]
              /\ UNCHANGED release,
         last_release' = x, num_free_res' = num_free_res + 1,
         w' = [w EXCEPT !.rels = w.rels \ {x},
                        !.pc = IF Publish(num_free_res + 1, FALSE)
                               THEN "publish" ELSE "release"],
         UNCHANGED <<queued, tree, piped, glz, free, g>>
  PROVE  /\ Placed' /\ WorkerOK' /\ Device' = Device \ {x} /\ x \in Device
         /\ \E home \in [Res -> Int], pos \in [Res -> Nat] : Chained(home, pos)'
<1>0. PICK home \in [Res -> Int], pos \in [Res -> Nat] : Chained(home, pos)
  BY DEF LoanInv
<1>1. /\ w \in WorkerState /\ release \in RingState /\ info \in [Res -> Res \cup {Nil}]
      /\ last_release \in Res \cup {Nil} /\ num_free_res \in Nat
  BY DEF LoanInv, TypeOK, WorkerState, RingState
<1>2. /\ w'.rels = w.rels \ {x} /\ w'.flush = w.flush
      /\ w'.pc = IF Publish(num_free_res + 1, FALSE) THEN "publish" ELSE "release"
  BY <1>1 DEF WorkerState
<1>3. Linking /\ Linking'
  BY <1>2 DEF Linking
<1>4. /\ x \in Device /\ x \in Res /\ info[x] = x /\ x \notin free
      /\ x \notin queued /\ x \notin Held /\ x # Nil
  <2>1. x \in Device /\ x \in Res
    BY <1>1 DEF Device, Held, WorkerState
  <2> QED BY <2>1, ResFinite DEF LoanInv, Placed
<1>5. Device' = Device \ {x}
  BY <1>2, <1>4 DEF Device, Held
<1>6. PICK p \in 0 .. ReleaseItems - 1 : p = ProdItem
  BY Slots
<1>7. /\ release'.prod = release.prod /\ release'.cons = release.cons
      /\ \A c \in (0 .. ReleaseItems - 1) \ {p} : release'.items[c] = release.items[c]
      /\ release'.items[p] = IF release.items[p] = Nil THEN x ELSE release.items[p]
  <2>0. release.items \in [0 .. ReleaseItems - 1 -> Res \cup {Nil}]
    BY <1>1 DEF RingState
  <2>1. CASE release.items[p] = Nil
    <3>1. release' = [release EXCEPT !.items[p] = x]
      BY <1>4, <1>6, <2>1
    <3>2. /\ release'.items = [release.items EXCEPT ![p] = x]
          /\ release'.prod = release.prod /\ release'.cons = release.cons
      BY <1>1, <3>1 DEF RingState
    <3> QED BY <2>0, <2>1, <3>2
  <2>2. CASE release.items[p] # Nil
    BY <1>6, <2>2
  <2> QED BY <2>1, <2>2
<1>8. ProdItem' = p /\ Used' = Used /\ p \in Int /\ p # AtDriver /\ p # NoHome
  BY <1>6, <1>7, SizeAssumption DEF ProdItem, Used, AtDriver, NoHome
<1>9. WorkerOK'
  <2>1. w.rels # {} /\ ~w.flush /\ Used < ReleaseItems
    BY DEF LoanInv, WorkerOK
  <2>2. w'.pc = "publish" => Used + 1 < ReleaseItems
    BY <1>2, Slots DEF Publish
  <2> QED BY <1>2, <1>8, <2>1, <2>2 DEF WorkerOK
<1>10. PICK M \in SUBSET Res : M = Members(home, p)
  BY DEF Members
<1>11. PICK h : h = release.items[p]
  OBVIOUS
<1>12. HasChain(p) /\ FirstOf(p) = h
  BY <1>3, <1>6, <1>8, <1>11 DEF HasChain, FirstOf
<1>13. Threaded(M, h, pos)
  BY <1>0, <1>8, <1>10, <1>12, ChainFacts
<1>14. /\ Cardinality(M) = num_free_res
       /\ num_free_res > 0 => last_release \in M /\ info[last_release] = Nil
  BY <1>0, <1>3, <1>6, <1>10, ChainFacts DEF Counted
<1>15. x \notin M /\ IsFiniteSet(M) /\ home[x] = NoHome
  BY <1>0, <1>4, <1>8, <1>10, ChainFacts, ResFinite, FS_Subset DEF Members
<1>16. \A c \in Int : HasChain(c)' <=> HasChain(c)
  BY <1>3, <1>6, <1>7, <1>8 DEF HasChain, IsPublished
<1>17. PICK home2 : home2 = [home EXCEPT ![x] = p]
  OBVIOUS
<1>18. home2 \in [Res -> Int]
  BY <1>8, <1>17
<1>19. /\ Members(home2, p) = M \cup {x}
       /\ \A c \in Int : c # p /\ c # NoHome => Members(home2, c) = Members(home, c)
       /\ \A c \in Int : c # NoHome => x \notin Members(home, c)
  BY <1>4, <1>10, <1>15, <1>17 DEF Members
<1>20. ASSUME NEW pos2 \in [Res -> Nat], NEW f,
              f = release'.items[p], Threaded(M \cup {x}, f, pos2)',
              \A y \in Res \ {x} : pos2[y] = pos[y],
              \A y \in Res \ (M \cup {x}) : info'[y] = info[y], info'[x] = Nil
       PROVE  Placed' /\ Chained(home2, pos2)'
  <2>1. Placed'
    <3>1. \A y \in (free \cup Device)' : info'[y] = y
      <4>1. \A y \in free \cup Device : info[y] = y /\ y \in Res /\ y \notin M
        <5>1. \A y \in free \cup Device : info[y] = y /\ y \in Res
          BY DEF LoanInv, Placed, TypeOK, Device, Held
        <5> QED BY <1>0, <1>8, <1>10, <5>1, ChainFacts DEF Members
      <4> QED BY <1>4, <1>5, <1>20, <4>1
    <3>2. (free \cap Device)' = {}
      BY <1>5 DEF LoanInv, Placed
    <3> QED BY <1>2, <3>1, <3>2 DEF LoanInv, Placed, Held
  <2>2. \A y \in Res : (home2[y] = NoHome <=> y \in free \cup Device)'
    <3>1. \A y \in Res : home2[y] = NoHome <=> home[y] = NoHome /\ y # x
      BY <1>8, <1>17
    <3>2. (free \cup Device)' = (free \cup Device) \ {x}
      BY <1>4, <1>5
    <3> QED BY <1>0, <3>1, <3>2, ChainFacts
  <2>3. \A y \in Res : (home2[y] # NoHome => HasChain(home2[y]))'
    BY <1>0, <1>8, <1>12, <1>16, <1>17, <1>18, ChainFacts
  <2>4. \A c \in -1 .. ReleaseItems - 1 :
          (HasChain(c) => Threaded(Members(home2, c), FirstOf(c), pos2))'
    <3> SUFFICES ASSUME NEW c \in -1 .. ReleaseItems - 1, HasChain(c)'
                 PROVE  Threaded(Members(home2, c), FirstOf(c), pos2)'
      OBVIOUS
    <3>0. c \in Int /\ HasChain(c) /\ c # NoHome
      BY <1>16, SizeAssumption DEF NoHome
    <3>1. CASE c = p
      <4>1. FirstOf(c)' = f
        BY <1>8, <1>20, <3>1 DEF FirstOf
      <4>2. Members(home2, c)' = M \cup {x}
        BY <1>19, <3>1 DEF Members
      <4> QED BY <1>20, <4>1, <4>2 DEF Threaded
    <3>2. CASE c # p
      <4>1. PICK f2 : f2 = FirstOf(c)
        OBVIOUS
      <4>2. PICK N \in SUBSET Res : N = Members(home, c)
        BY DEF Members
      <4>3. Threaded(N, f2, pos)
        BY <1>0, <3>0, <4>1, <4>2, ChainFacts
      <4>4. N \cap (M \cup {x}) = {}
        BY <1>10, <1>19, <3>0, <3>2, <4>2 DEF Members
      <4>5. Threaded(N, f2, pos2)'
        <5>1. \A y \in N : info'[y] = info[y] /\ pos2[y] = pos[y] /\ y # Nil
          BY <1>20, <4>4, ResFinite
        <5> QED BY <4>3, <5>1, ThreadStays
      <4>6. FirstOf(c)' = f2
        <5>1. c # AtDriver => c \in (0 .. ReleaseItems - 1) \ {p}
          BY <3>2, SizeAssumption DEF AtDriver
        <5> QED BY <1>7, <4>1, <5>1 DEF FirstOf
      <4>7. Members(home2, c)' = N
        BY <1>19, <3>0, <3>2, <4>2 DEF Members
      <4> QED BY <4>5, <4>6, <4>7 DEF Threaded
    <3> QED BY <3>1, <3>2
  <2>5. Counted(home2)'
    <3>1. Members(home2, ProdItem)' = M \cup {x}
      BY <1>8, <1>19 DEF Members
    <3>2. Cardinality(M \cup {x}) = num_free_res + 1
      BY <1>14, <1>15, FS_AddElement
    <3> QED BY <1>20, <3>1, <3>2 DEF Counted
  <2> QED BY <2>1, <2>2, <2>3, <2>4, <2>5 DEF Chained
<1>21. CASE h = Nil
  <2>1. M = {}
    BY <1>13, <1>21 DEF Threaded
  <2>2. /\ info' = [info EXCEPT ![x] = Nil] /\ release'.items[p] = x
    BY <1>6, <1>7, <1>11, <1>21
  <2>3. info'[x] = Nil /\ \A y \in Res \ (M \cup {x}) : info'[y] = info[y]
    BY <1>1, <1>4, <2>2
  <2>4. Threaded(M \cup {x}, x, pos)'
    BY <1>4, <2>1, <2>3 DEF Threaded
  <2>5. Placed' /\ Chained(home2, pos)'
    BY <1>20, <2>2, <2>3, <2>4
  <2> QED BY <1>4, <1>5, <1>9, <1>18, <2>5
<1>22. CASE h # Nil
  <2>1. h \in M
    BY <1>13, <1>22 DEF Threaded
  <2>2. num_free_res > 0
    <3>1. M # {}
      BY <2>1
    <3> QED BY <1>1, <1>14, <1>15, <3>1, FS_EmptySet
  <2>3. PICK l \in M : l = last_release /\ info[l] = Nil /\ l \in Res
    BY <1>14, <2>2
  <2>4. /\ info' = [info EXCEPT ![l] = x, ![x] = Nil] /\ release'.items[p] = h
    BY <1>4, <1>6, <1>7, <1>11, <1>22, <2>3
  <2>5. /\ info'[x] = Nil /\ info'[l] = x /\ l # x
        /\ \A y \in Res \ {l, x} : info'[y] = info[y]
    BY <1>1, <1>4, <1>15, <2>3, <2>4
  <2>6. PICK pos2 : pos2 = [pos EXCEPT ![x] = pos[l] + 1]
    OBVIOUS
  <2>7. pos2 \in [Res -> Nat] /\ \A y \in Res \ {x} : pos2[y] = pos[y]
    BY <1>4, <2>3, <2>6
  <2>8. Threaded(M \cup {x}, h, pos2)'
    <3>1. x \in Res \ M /\ \A y \in M \ {l} : info'[y] = info[y]
      BY <1>4, <1>15, <2>5
    <3> QED BY <1>13, <2>1, <2>3, <2>5, <2>6, <2>7, <3>1, ThreadJoin
  <2>9. Placed' /\ Chained(home2, pos2)'
    BY <1>20, <2>3, <2>4, <2>5, <2>7, <2>8
  <2> QED BY <1>4, <1>5, <1>9, <1>18, <2>7, <2>9
<1> QED BY <1>21, <1>22

\* The chain that was being built is published.
LEMMA PublishChains ==
  ASSUME LoanInv, PushFreeRes
  PROVE  LoanInv'
<1>0. PICK home \in [Res -> Int], pos \in [Res -> Nat] : Chained(home, pos)
  BY DEF LoanInv
<1>1. TypeOK'
  BY ChainTyped DEF LoanInv
<1>2. /\ w.pc = "publish" /\ w'.pc = "published" /\ w'.rels = w.rels /\ w'.flush = w.flush
      /\ release'.prod = Succ(release.prod) /\ release'.cons = release.cons
      /\ release'.items = release.items
      /\ UNCHANGED <<info, last_release, num_free_res, queued, tree, piped, glz, free, g>>
  BY DEF PushFreeRes, useVars, LoanInv, TypeOK
<1>3. /\ Used' = Used + 1 /\ Used + 1 < ReleaseItems
  BY <1>2, Slots, PushFacts DEF Used, LoanInv, WorkerOK
<1>4. Linking /\ ~Linking'
  BY <1>2 DEF Linking
<1>5. ProdItem = (release.cons + Used) % ReleaseItems
  BY Slots, ProdSlot DEF ProdItem, Used
<1>6. ASSUME NEW c \in Int PROVE IsPublished(c)' <=> IsPublished(c) \/ c = ProdItem
  <2>1. \A i \in Int : i \in 0 .. Used' - 1 <=> i \in 0 .. Used - 1 \/ i = Used
    BY <1>3, Slots
  <2> QED BY <1>2, <1>5, <2>1, Slots DEF IsPublished
<1>7. \A c \in Int : HasChain(c)' <=> HasChain(c)
  BY <1>2, <1>4, <1>6 DEF HasChain
<1>8. \A c \in Int : FirstOf(c)' = FirstOf(c)
  BY <1>2 DEF FirstOf
<1>9. Device' = Device
  BY <1>2 DEF Device, Held
<1>10. Chained(home, pos)'
  <2>1. \A x \in Res : (home[x] = NoHome <=> x \in free \cup Device)'
    BY <1>0, <1>2, <1>9, ChainFacts
  <2>2. \A x \in Res : (home[x] # NoHome => HasChain(home[x]))'
    BY <1>0, <1>7, ChainFacts
  <2>3. \A c \in -1 .. ReleaseItems - 1 :
          (HasChain(c) => Threaded(Members(home, c), FirstOf(c), pos))'
    <3> SUFFICES ASSUME NEW c \in -1 .. ReleaseItems - 1, HasChain(c)'
                 PROVE  Threaded(Members(home, c), FirstOf(c), pos)'
      OBVIOUS
    <3>0. c \in Int /\ FirstOf(c)' = FirstOf(c) /\ HasChain(c)
      BY <1>7, <1>8, SizeAssumption
    <3>1. Threaded(Members(home, c), FirstOf(c)', pos)
      BY <1>0, <3>0, ChainFacts
    <3> QED BY <1>2, <3>1 DEF Threaded, Members
  <2>4. Counted(home)'
    BY <1>4 DEF Counted
  <2> QED BY <2>1, <2>2, <2>3, <2>4 DEF Chained
<1>11. Placed'
  BY <1>2 DEF LoanInv, Placed, Device, Held
<1>12. WorkerOK'
  BY <1>2, <1>3 DEF LoanInv, WorkerOK
<1> QED BY <1>1, <1>10, <1>11, <1>12 DEF LoanInv

\* The next slot starts an empty chain.
LEMMA SlotChains ==
  ASSUME LoanInv, PushSlot
  PROVE  LoanInv'
<1>0. PICK home \in [Res -> Int], pos \in [Res -> Nat] : Chained(home, pos)
  BY DEF LoanInv
<1>1. TypeOK'
  BY ChainTyped DEF LoanInv
<1>2. PICK p \in 0 .. ReleaseItems - 1 : p = ProdItem
  BY Slots
<1>3. /\ w.pc = "slot" /\ num_free_res' = 0 /\ last_release' = Nil
      /\ UNCHANGED <<info, queued, tree, piped, glz, free, g>>
  BY DEF PushSlot, useVars
<1>4. /\ w'.rels = w.rels /\ w'.flush = w.flush
      /\ w'.pc = IF w.flush THEN "oomdone" ELSE "release"
  BY DEF PushSlot, LoanInv, TypeOK
<1>5. /\ release'.prod = release.prod /\ release'.cons = release.cons
      /\ release'.items[p] = Nil
      /\ \A c \in (0 .. ReleaseItems - 1) \ {p} : release'.items[c] = release.items[c]
  <2>1. /\ release \in RingState
        /\ release.items \in [0 .. ReleaseItems - 1 -> Res \cup {Nil}]
    BY DEF LoanInv, TypeOK, RingState
  <2>2. release' = [release EXCEPT !.items[p] = Nil]
    BY <1>2 DEF PushSlot
  <2>3. /\ release'.items = [release.items EXCEPT ![p] = Nil]
        /\ release'.prod = release.prod /\ release'.cons = release.cons
    BY <2>1, <2>2 DEF RingState
  <2> QED BY <2>1, <2>3
<1>6. ProdItem' = p /\ Used' = Used /\ p \in Int /\ p # AtDriver /\ p # NoHome
  BY <1>2, <1>5, SizeAssumption DEF ProdItem, Used, AtDriver, NoHome
<1>7. ~Linking /\ Linking'
  BY <1>3, <1>4 DEF Linking
<1>8. \A c \in Int : HasChain(c)' <=> HasChain(c) \/ c = p
  BY <1>3, <1>5, <1>6, <1>7 DEF HasChain, IsPublished
<1>9. ~HasChain(p)
  BY <1>2, <1>6, <1>7, Slots DEF HasChain
<1>10. Members(home, p) = {}
  BY <1>0, <1>6, <1>9, ChainFacts
<1>11. Device' = Device
  BY <1>3, <1>4 DEF Device, Held
<1>12. Chained(home, pos)'
  <2>1. \A x \in Res : (home[x] = NoHome <=> x \in free \cup Device)'
    BY <1>0, <1>3, <1>11, ChainFacts
  <2>2. \A x \in Res : (home[x] # NoHome => HasChain(home[x]))'
    BY <1>0, <1>8, ChainFacts
  <2>3. \A c \in -1 .. ReleaseItems - 1 :
          (HasChain(c) => Threaded(Members(home, c), FirstOf(c), pos))'
    <3> SUFFICES ASSUME NEW c \in -1 .. ReleaseItems - 1, HasChain(c)'
                 PROVE  Threaded(Members(home, c), FirstOf(c), pos)'
      OBVIOUS
    <3>1. CASE c = p
      <4>1. FirstOf(c)' = Nil /\ Members(home, c)' = {}
        BY <1>5, <1>6, <1>10, <3>1 DEF FirstOf, Members
      <4> QED BY <4>1 DEF Threaded
    <3>2. CASE c # p
      <4>1. c \in Int /\ HasChain(c)
        BY <1>8, <3>2, SizeAssumption
      <4>2. FirstOf(c)' = FirstOf(c)
        <5>1. c # AtDriver => c \in (0 .. ReleaseItems - 1) \ {p}
          BY <3>2, SizeAssumption DEF AtDriver
        <5> QED BY <1>3, <1>5, <5>1 DEF FirstOf
      <4>3. Threaded(Members(home, c), FirstOf(c)', pos)
        BY <1>0, <4>1, <4>2, ChainFacts
      <4> QED BY <1>3, <4>3 DEF Threaded, Members
    <3> QED BY <3>1, <3>2
  <2>4. Counted(home)'
    <3>1. Members(home, ProdItem)' = {} /\ Cardinality({}) = 0
      BY <1>6, <1>10, FS_EmptySet DEF Members
    <3> QED BY <1>3, <3>1 DEF Counted
  <2> QED BY <2>1, <2>2, <2>3, <2>4 DEF Chained
<1>13. Placed'
  BY <1>3, <1>11, <1>4 DEF LoanInv, Placed, Held
<1>14. WorkerOK'
  BY <1>3, <1>4, <1>6 DEF LoanInv, WorkerOK
<1> QED BY <1>1, <1>12, <1>13, <1>14 DEF LoanInv

LEMMA LoanStarts == Init => LoanInv
<1> SUFFICES ASSUME Init PROVE LoanInv
  OBVIOUS
<1>1. TypeOK
  BY ReleaseInit DEF ReleaseInv
<1>2. /\ release.prod = 0 /\ release.cons = 0 /\ info = [x \in Res |-> x]
      /\ release.items = [i \in 0 .. ReleaseItems - 1 |-> Nil]
      /\ num_free_res = 0 /\ queued = {} /\ tree = {} /\ piped = {} /\ glz = {}
      /\ free = Res
      /\ w.pc = "loop" /\ w.rels = {} /\ w.flush = FALSE /\ g.pc = "idle"
  BY DEF Init
<1>3. Used = 0 /\ ProdItem = 0 /\ 0 \in 0 .. ReleaseItems - 1 /\ ReleaseItems \in Nat
  BY <1>2, SizeAssumption DEF Used, ProdItem
<1>4. Placed
  BY <1>2 DEF Placed, Device, Held
<1>5. WorkerOK
  BY <1>2, <1>3, SizeAssumption DEF WorkerOK
<1>6. PICK home : home = [x \in Res |-> NoHome]
  OBVIOUS
<1>7. PICK pos : pos = [x \in Res |-> 0]
  OBVIOUS
<1>8. home \in [Res -> Int] /\ pos \in [Res -> Nat]
  <2>1. NoHome \in Int
    BY DEF NoHome
  <2> QED BY <1>6, <1>7, <2>1
<1>9. Chained(home, pos)
  <2>1. \A x \in Res : home[x] = NoHome /\ x \in free \cup Device
    BY <1>2, <1>6
  <2>2. \A c \in -1 .. ReleaseItems - 1 : Members(home, c) = {}
    BY <1>6, SizeAssumption DEF Members, NoHome
  <2>3. \A c \in -1 .. ReleaseItems - 1 : HasChain(c) => FirstOf(c) = Nil
    <3>1. \A c \in Int : HasChain(c) => c = 0
      BY <1>2, <1>3 DEF HasChain, IsPublished
    <3> QED BY <1>2, <1>3, <3>1 DEF FirstOf, AtDriver
  <2>4. Counted(home)
    <3>1. ProdItem \in -1 .. ReleaseItems - 1
      BY <1>3
    <3>2. Members(home, ProdItem) = {} /\ Cardinality({}) = 0
      BY <2>2, <3>1, FS_EmptySet
    <3>3. ~ (num_free_res > 0)
      BY <1>2
    <3> QED BY <1>2, <3>2, <3>3 DEF Counted
  <2> QED BY <2>1, <2>2, <2>3, <2>4 DEF Chained, Threaded
<1> QED BY <1>1, <1>4, <1>5, <1>8, <1>9 DEF LoanInv

\* Who has the blocks after a step.
Handed ==
    \/ \E x \in free : free' = free \ {x} /\ Device' = Device \cup {x}
    \/ \E x \in Device : free' = free /\ Device' = Device \ {x}
    \/ \E x \in Res \ (free \cup Device) : free' = free \cup {x} /\ Device' = Device
    \/ UNCHANGED <<free, Device>>

LEMMA LoanStep ==
  ASSUME LoanInv, [Next]_vars
  PROVE  LoanInv' /\ Handed
<1>1. ASSUME Quiet, Placed', WorkerOK', TypeOK' PROVE LoanInv'
  <2>1. PICK home \in [Res -> Int], pos \in [Res -> Nat] : Chained(home, pos)
    BY DEF LoanInv
  <2>2. Chained(home, pos)'
    BY <1>1, <2>1, ChainsStay
  <2> QED BY <1>1, <2>2 DEF LoanInv
<1>2. ASSUME Quiet, Placed', free' = free PROVE Handed
  <2>1. free \cap Device = {} /\ free' \cap Device' = {}
    BY <1>2 DEF LoanInv, Placed
  <2>2. Device' = Device
    BY <1>2, <2>1 DEF Quiet
  <2> QED BY <1>2, <2>2 DEF Handed
<1>3. ASSUME NEW x \in Res, DrvSubmit(x) PROVE LoanInv' /\ Handed
  <2>1. Quiet /\ Placed' /\ WorkerOK'
    BY <1>3, QuietElsewhere
  <2>2. TypeOK'
    BY <1>3, DriverTyped DEF LoanInv
  <2>3. x \in free /\ free' = free \ {x} /\ Device' = Device \cup {x}
    BY <1>3 DEF DrvSubmit, Device, Held
  <2>4. Handed
    BY <2>3 DEF Handed
  <2> QED BY <1>1, <2>1, <2>2, <2>4
<1>4. CASE DrvOutOfMemory \/ IoOom
  <2>1. Quiet /\ Placed' /\ WorkerOK'
    BY <1>4, QuietElsewhere
  <2>2. TypeOK'
    BY <1>4, DriverTyped, IoTyped DEF LoanInv, Driver
  <2>3. free' = free
    BY <1>4 DEF DrvOutOfMemory, IoOom
  <2> QED BY <1>1, <1>2, <2>1, <2>2, <2>3
<1>5. CASE \/ Process \/ Push \/ Draw \/ FreeGlz \/ HandleOom \/ Released
           \/ PushNotify \/ OomProcessed \/ FlushResources \/ OomDone
  <2>1. Quiet /\ Placed' /\ WorkerOK'
    BY <1>5, QuietWorker
  <2>2. TypeOK'
    BY <1>5, WorkerTyped, ChainTyped DEF LoanInv
  <2>3. free' = free
    BY <1>5 DEF Process, Push, Draw, FreeGlz, HandleOom, Released, PushNotify, OomProcessed,
                FlushResources, OomDone
  <2> QED BY <1>1, <1>2, <2>1, <2>2, <2>3
<1>6. CASE DrvPop
  <2>1. UNCHANGED <<free, Device>>
    BY <1>6 DEF DrvPop, useVars, Device, Held
  <2>2. Handed
    BY <2>1 DEF Handed
  <2> QED BY <1>6, <2>2, PopChains
<1>7. CASE DrvWalk
  <2>1. LoanInv'
    BY <1>7, WalkChains
  <2>2. Device' = Device
    BY <1>7 DEF DrvWalk, useVars, Device, Held
  <2>3. CASE g.x = Nil
    <3>1. free' = free
      BY <1>7, <2>3 DEF DrvWalk
    <3> QED BY <2>1, <2>2, <3>1 DEF Handed
  <2>4. CASE g.x # Nil
    <3>1. free' = free \cup {g.x}
      BY <1>7, <2>4 DEF DrvWalk
    <3>2. g.x \in Res \ (free \cup Device)
      <4>1. PICK home \in [Res -> Int], pos \in [Res -> Nat] : Chained(home, pos)
        BY DEF LoanInv
      <4>2. /\ AtDriver \in Int /\ HasChain(AtDriver) /\ FirstOf(AtDriver) = g.x
            /\ AtDriver # NoHome
        BY <1>7 DEF AtDriver, NoHome, DrvWalk, HasChain, FirstOf
      <4>3. Threaded(Members(home, AtDriver), g.x, pos)
        BY <4>1, <4>2, ChainFacts
      <4>4. g.x \in Members(home, AtDriver)
        BY <2>4, <4>3 DEF Threaded
      <4>5. g.x \in Res /\ home[g.x] = AtDriver
        BY <4>4 DEF Members
      <4> QED BY <4>1, <4>2, <4>5, ChainFacts
    <3> QED BY <2>1, <2>2, <3>1, <3>2 DEF Handed
  <2> QED BY <2>3, <2>4
<1>8. CASE ReleaseResource
  <2>1. TypeOK'
    BY <1>8, ChainTyped DEF LoanInv
  <2>2. PICK x \in w.rels :
         /\ IF release.items[ProdItem] = Nil
            THEN /\ release' = [release EXCEPT !.items[ProdItem] = info[x]]
                 /\ info' = [info EXCEPT ![x] = Nil]
            ELSE /\ info' = [info EXCEPT ![last_release] = info[x], ![x] = Nil]
                 /\ UNCHANGED release
         /\ last_release' = x
         /\ num_free_res' = num_free_res + 1
         /\ w' = [w EXCEPT !.rels = w.rels \ {x},
                           !.pc = IF Publish(num_free_res + 1, FALSE)
                                  THEN "publish" ELSE "release"]
    BY <1>8 DEF ReleaseResource
  <2>3. w.pc = "release" /\ UNCHANGED <<queued, tree, piped, glz, free, g>>
    BY <1>8 DEF ReleaseResource, useVars
  <2>4. /\ Placed' /\ WorkerOK' /\ Device' = Device \ {x} /\ x \in Device
        /\ \E home \in [Res -> Int], pos \in [Res -> Nat] : Chained(home, pos)'
    BY <2>2, <2>3, ReleaseChains
  <2>5. LoanInv'
    BY <2>1, <2>4 DEF LoanInv
  <2>6. Handed
    BY <2>3, <2>4 DEF Handed
  <2> QED BY <2>5, <2>6
<1>9. CASE PushFreeRes
  <2>1. UNCHANGED <<free, Device>>
    BY <1>9 DEF PushFreeRes, useVars, Device, Held, LoanInv, TypeOK
  <2> QED BY <1>9, <2>1, PublishChains DEF Handed
<1>10. CASE PushSlot
  <2>1. UNCHANGED <<free, Device>>
    BY <1>10 DEF PushSlot, useVars, Device, Held, LoanInv, TypeOK
  <2> QED BY <1>10, <2>1, SlotChains DEF Handed
<1>11. CASE UNCHANGED vars
  <2>1. /\ UNCHANGED <<release, info, last_release, num_free_res, queued, tree, piped, glz,
                       w, free, g, m, told, oom_running, pending, channel>>
    BY <1>11 DEF vars
  <2>2. Quiet
    BY <2>1 DEF Quiet, Device, Held, Linking
  <2>3. Placed' /\ WorkerOK' /\ TypeOK'
    BY <2>1 DEF LoanInv, Placed, WorkerOK, TypeOK, Device, Held, Used
  <2> QED BY <1>1, <1>2, <2>1, <2>2, <2>3
<1> QED BY <1>3, <1>4, <1>5, <1>6, <1>7, <1>8, <1>9, <1>10, <1>11
        DEF Next, Driver, WorkerGoesOn

LEMMA LoanInvariant == Spec => []LoanInv
<1>1. LoanInv /\ [Next]_vars => LoanInv'
  BY LoanStep
<1> QED BY <1>1, LoanStarts, PTL DEF Spec

\* What the recursive definition finds is what is at home there.
LEMMA ChainsFound ==
  ASSUME LoanInv, NEW home \in [Res -> Int], NEW pos \in [Res -> Nat],
         Chained(home, pos), NEW c \in Int, HasChain(c)
  PROVE  Chain(FirstOf(c)) = Members(home, c)
<1>1. FirstOf(c) \in Res \cup {Nil}
  <2>1. c \in -1 .. ReleaseItems - 1
    BY Slots
  <2>2. c # AtDriver => c \in 0 .. ReleaseItems - 1
    BY <2>1, SizeAssumption DEF AtDriver
  <2> QED BY <2>2 DEF FirstOf, LoanInv, TypeOK
<1>2. Threaded(Members(home, c), FirstOf(c), pos)
  BY ChainFacts
<1>3. Members(home, c) \in SUBSET Res /\ info \in [Res -> Res \cup {Nil}]
  BY DEF Members, LoanInv, TypeOK
<1> QED BY <1>1, <1>2, <1>3, ChainOf

\* What was given back is what neither side has.
LEMMA ReturnedRest ==
  ASSUME LoanInv
  PROVE  Returned = Res \ (free \cup Device)
<1>0. PICK home \in [Res -> Int], pos \in [Res -> Nat] : Chained(home, pos)
  BY DEF LoanInv
<1>1. Building = IF Linking THEN Members(home, ProdItem) ELSE {}
  <2>1. CASE Linking
    <3>1. /\ HasChain(ProdItem) /\ ProdItem \in Int
          /\ FirstOf(ProdItem) = release.items[ProdItem]
      BY <2>1, Slots DEF HasChain, FirstOf, AtDriver
    <3>2. Chain(release.items[ProdItem]) = Members(home, ProdItem)
      BY <1>0, <3>1, ChainsFound
    <3> QED BY <2>1, <3>2 DEF Building, Linking
  <2> QED BY <2>1 DEF Building, Linking
<1>2. ASSUME NEW i \in 0 .. Used - 1
      PROVE  Published(i) = Members(home, (release.cons + i) % ReleaseItems)
  <2>1. PICK c \in Int : c = (release.cons + i) % ReleaseItems
    <3>1. release.cons + i \in Int
      BY Slots, SizeAssumption DEF Index
    <3>2. (release.cons + i) % ReleaseItems \in Int
      BY <3>1, Slots
    <3> QED BY <3>2
  <2>2. IsPublished(c)
    BY <2>1 DEF IsPublished
  <2>3. HasChain(c) /\ FirstOf(c) = release.items[c]
    BY <2>2, Slots DEF HasChain, FirstOf, AtDriver
  <2>4. Chain(release.items[c]) = Members(home, c)
    BY <1>0, <2>3, ChainsFound
  <2> QED BY <2>1, <2>4 DEF Published
<1>3. g.pc = "walk" => Chain(g.x) = Members(home, AtDriver)
  <2> SUFFICES ASSUME g.pc = "walk" PROVE Chain(g.x) = Members(home, AtDriver)
    OBVIOUS
  <2>1. HasChain(AtDriver) /\ AtDriver \in Int /\ FirstOf(AtDriver) = g.x
    BY DEF HasChain, FirstOf, AtDriver
  <2> QED BY <1>0, <2>1, ChainsFound
<1>r. ASSUME NEW x
      PROVE  x \in Returned <=>
               \/ x \in Building
               \/ \E i \in 0 .. Used - 1 : x \in Published(i)
               \/ g.pc = "walk" /\ x \in Chain(g.x)
  <2> DEFINE U == UNION {Published(i) : i \in 0 .. Used - 1}
  <2>1. x \in U <=> \E i \in 0 .. Used - 1 : x \in Published(i)
    OBVIOUS
  <2>3. Returned = Building \cup U \cup (IF g.pc = "walk" THEN Chain(g.x) ELSE {})
    BY DEF Returned
  <2> HIDE DEF U
  <2>4. x \in Returned <=>
          \/ x \in Building \/ x \in U
          \/ g.pc = "walk" /\ x \in Chain(g.x)
    BY <2>3
  <2> QED BY <2>1, <2>4
<1>4. ASSUME NEW x \in Returned PROVE x \in Res \ (free \cup Device)
  <2>1. \E c \in Int : c # NoHome /\ x \in Members(home, c)
    <3>1. CASE x \in Building
      BY <1>1, <3>1, Slots DEF NoHome
    <3>2. CASE \E i \in 0 .. Used - 1 : x \in Published(i)
      <4>1. PICK i \in 0 .. Used - 1 : x \in Published(i)
        BY <3>2
      <4>2. PICK c \in 0 .. ReleaseItems - 1 : c = (release.cons + i) % ReleaseItems
        <5>1. release.cons + i \in Int
          BY Slots, SizeAssumption DEF Index
        <5>2. (release.cons + i) % ReleaseItems \in 0 .. ReleaseItems - 1
          BY <5>1, Slots
        <5> QED BY <5>2
      <4>3. c \in Int /\ c # NoHome
        BY SizeAssumption DEF NoHome
      <4> QED BY <1>2, <4>1, <4>2, <4>3
    <3>3. CASE g.pc = "walk" /\ x \in Chain(g.x)
      BY <1>3, <3>3 DEF NoHome, AtDriver
    <3> QED BY <1>r, <3>1, <3>2, <3>3
  <2> QED BY <1>0, <2>1, ChainFacts DEF Members
<1>5. ASSUME NEW x \in Res \ (free \cup Device) PROVE x \in Returned
  <2>1. home[x] \in Int /\ HasChain(home[x]) /\ x \in Members(home, home[x])
    BY <1>0, ChainFacts DEF Members
  <2>2. CASE home[x] = AtDriver /\ g.pc = "walk"
    <3>1. x \in Chain(g.x)
      BY <1>3, <2>1, <2>2
    <3> QED BY <1>r, <2>2, <3>1
  <2>3. CASE IsPublished(home[x])
    <3>1. PICK i \in 0 .. Used - 1 : home[x] = (release.cons + i) % ReleaseItems
      BY <2>3 DEF IsPublished
    <3>2. x \in Published(i)
      BY <1>2, <2>1, <3>1
    <3> QED BY <1>r, <3>2
  <2>4. CASE home[x] = ProdItem /\ Linking
    BY <1>1, <1>r, <2>1, <2>4
  <2> QED BY <2>1, <2>2, <2>3, <2>4 DEF HasChain
<1> QED BY <1>4, <1>5

\* interface_release_resource appends behind last_release without looking: the
\* chain that it builds has num_free_res blocks and ends at last_release,
\* whatever the driver reads and frees in the meantime.
THEOREM ChainsExact == Spec => []ChainExact
<1>1. ASSUME LoanInv PROVE ChainExact
  <2> SUFFICES ASSUME Linking
               PROVE  /\ Cardinality(Building) = num_free_res
                      /\ num_free_res > 0 =>
                           last_release \in Building /\ info[last_release] = Nil
    BY DEF ChainExact, Linking
  <2>1. PICK home \in [Res -> Int], pos \in [Res -> Nat] : Chained(home, pos)
    BY <1>1 DEF LoanInv
  <2>2. /\ HasChain(ProdItem) /\ ProdItem \in Int
        /\ FirstOf(ProdItem) = release.items[ProdItem]
    BY <1>1, Slots DEF HasChain, FirstOf, AtDriver
  <2>3. Building = Members(home, ProdItem)
    <3>1. Chain(release.items[ProdItem]) = Members(home, ProdItem)
      BY <1>1, <2>1, <2>2, ChainsFound
    <3> QED BY <3>1 DEF Building, Linking
  <2>4. Counted(home)
    BY <2>1 DEF Chained
  <2> QED BY <2>3, <2>4 DEF Counted
<1> QED BY <1>1, LoanInvariant, PTL

\* The device implements the loan: a block goes from the driver to the device
\* with a command, comes back by qxl_push_free_res once, when neither the tree
\* nor the client's pipe needs it, and only then is the driver's again.
THEOREM LoansCorrect == Spec => LendsCorrectly
<1>0. LoanInv => Returned = Res \ (free \cup Device)
  BY ReturnedRest
<1>1. ASSUME Init PROVE Loan!LoanInit
  <2>1. LoanInv
    BY <1>1, LoanStarts
  <2>2. free = Res /\ Device = {}
    BY <1>1 DEF Init, Device, Held
  <2>3. Returned = {}
    BY <1>0, <2>1, <2>2
  <2> QED BY <2>2, <2>3 DEF Loan!LoanInit, Device, Held
<1>2. ASSUME LoanInv, [Next]_vars
      PROVE  [\E x \in Res : Loan!Lend(x) \/ Loan!GiveBack(x) \/ Loan!Collect(x)]_(Loan!loan)
  <2>1. LoanInv' /\ Handed
    BY <1>2, LoanStep
  <2>2. Returned = Res \ (free \cup Device)
    BY <1>0, <1>2
  <2>3. (Returned = Res \ (free \cup Device))'
    BY <1>0, <2>1, PTL
  <2>4. /\ free \subseteq Res /\ Device \subseteq Res /\ free \cap Device = {}
    BY <1>2 DEF LoanInv, TypeOK, Placed, Device, Held
  <2>5. ASSUME NEW x \in free, free' = free \ {x}, Device' = Device \cup {x}
        PROVE  Loan!Lend(x) /\ x \in Res
    BY <2>2, <2>3, <2>4, <2>5 DEF Loan!Lend, Device, Held
  <2>6. ASSUME NEW x \in Device, free' = free, Device' = Device \ {x}
        PROVE  Loan!GiveBack(x) /\ x \in Res
    BY <2>2, <2>3, <2>4, <2>6 DEF Loan!GiveBack, Device, Held
  <2>7. ASSUME NEW x \in Res \ (free \cup Device), free' = free \cup {x}, Device' = Device
        PROVE  Loan!Collect(x) /\ x \in Res
    BY <2>2, <2>3, <2>4, <2>7 DEF Loan!Collect, Device, Held
  <2>8. CASE UNCHANGED <<free, Device>>
    BY <2>2, <2>3, <2>8 DEF Loan!loan, Device, Held
  <2> QED BY <2>1, <2>5, <2>6, <2>7, <2>8 DEF Handed
<1> QED BY <1>1, <1>2, LoanInvariant, PTL DEF Spec, LendsCorrectly, Loan!LoanSpec
=============================================================================
