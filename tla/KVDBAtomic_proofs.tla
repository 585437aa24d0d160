--------------------------- MODULE KVDBAtomic_proofs ---------------------------
(***************************************************************************)
(* The proof that the key-value store of FlashDB implements KVStore: as    *)
(* long as it is sound, a name has one value, and only the status write    *)
(* that completes a call changes it.                                       *)
(*                                                                         *)
(* The hard part is the recovery.  After several interrupted changes a     *)
(* name may have more than one KV prepared for deletion, with different    *)
(* values, and the first one the iterators reach is the one stored.  Its   *)
(* value must be the one that is moved, while the collection shifts the    *)
(* oldest sector, and with it the order of the iterators.  Outdated says   *)
(* why this works: all of them lie in dirty sectors, ahead of the          *)
(* collection, in the order of the addresses.                              *)
(***************************************************************************)
EXTENDS KVDBSound_proofs

\* A KV prepared for deletion differs from what is stored: it is outdated.
Mixed(k) == \E l \in With(k, PRE_DELETE) : Kv(l).val # Stored(k)

StillDirty(l) == sector[l[1]].dirty \in {"TRUE", "GC"}

\* do_gc iterates over the sectors.
InLoop == pc \in GcPcs \ {"gc"} \/ job.why = "gc"

\* The iteration started at sector 0 and will still come to this place.
LoopAhead(l) ==
    IF InLoop THEN oldest <= gc.at /\ gc.at <= l[1] /\ gc.at + gc.left = SECTOR_NUM
    ELSE oldest = 0

Outdated ==
    in_recovery_check =>
      \A k \in Key : Mixed(k) => \A l \in With(k, PRE_DELETE) : StillDirty(l) /\ LoopAhead(l)

\* What is moved is what is in flash,
Copied == job.why \in {"gc", "recovery"} => Kv(job.from).val = job.val

\* and once its copy is being made, what is stored.
Newest ==
    /\ job.why \in {"gc", "recovery"}
    /\ \/ pc \in Preparing \cup Creating \cup Writing
       \/ pc = "move_kv" /\ job.was = WRITE
    => job.val = Stored(job.key)

Visited == job.why = "recovery" => it = <<Turn(job.from[1]), job.from[2]>>

\* An old KV is deleted only once its successor is in use.
Succeeded == pc = "delete" /\ job.why # "del" => With(job.key, WRITE) # {}

\* fdb_kv_del deletes the KV in use.
Discarded ==
    pc = "delete" /\ job.why = "del" => job.from \in With(job.key, WRITE) /\ job.val = NoValue

\* The sector of the KV that is replaced is dirty before its successor is there.
MadeDirty ==
    job.why = "set" /\ pc \in Creating \cup Writing \cup {"delete"} /\ job.from # NoLoc
      => StillDirty(job.from)

Formatted == \A s \in Sector : sector[s].ok => sector[s].dirty # "UNUSED"

\* The recovery collects until every sector has been looked at.
WholeFlash == gc.ret \in {"boot_gc", "boot_kv"} => gc.free = SECTOR_NUM * SecSize

Faithful ==
    /\ Outdated /\ Copied /\ Newest /\ Visited
    /\ Succeeded /\ Discarded /\ MadeDirty /\ Formatted /\ WholeFlash

\* The third inductive invariant, next to Structure, Room and SoundInv.
FaithfulInv == sound => Faithful

\* All of them.
Everything == Structure /\ Room /\ SoundInv /\ FaithfulInv /\ sound \in BOOLEAN

IsFirst(k, l) == \A m \in With(k, PRE_DELETE) \ {l} : Before(l, m)

\* What Stored says, without its choices.
StoredAt(k) ==
    /\ \A l \in With(k, WRITE) : Stored(k) = Kv(l).val
    /\ \A l \in With(k, PRE_DELETE) :
         With(k, WRITE) = {} /\ IsFirst(k, l) => Stored(k) = Kv(l).val
    /\ With(k, PRE_DELETE) # {} => \E l \in With(k, PRE_DELETE) : IsFirst(k, l)
    /\ With(k, WRITE) = {} /\ With(k, PRE_DELETE) = {} => Stored(k) = NoValue

\* set_kv or fdb_kv_del is at work on the job and has not taken effect.
Asking ==
    \/ job.why = "set" /\ pc \in Preparing \cup Creating \cup Writing
    \/ job.why = "del" /\ pc = "delete"

StoredStays == \A k \in Key : Stored(k)' = Stored(k)

\* A call begins.
CallMade ==
    /\ Pending = NoOp
    /\ \E k \in Key, v \in Value \cup {NoValue} : Pending' = [key |-> k, val |-> v]
    /\ StoredStays

\* A call takes effect.
CallDone ==
    /\ Pending # NoOp /\ Pending' = NoOp
    /\ \E k \in Key : /\ k = Pending.key
                      /\ Stored(k)' = Pending.val
                      /\ \A j \in Key \ {k} : Stored(j)' = Stored(j)

\* A value that was written is never written over.
LEMMA ValuesKept ==
    ASSUME Shape, Next, NEW l \in Places, l \in Places', Kv(l).part # "status"
    PROVE  Kv(l)'.val = Kv(l).val
  <1>t. TypeOK
    BY DEF Shape
  <1>k. \A m \in Places : Kv(m) \in KvType
    BY <1>t, PlaceFacts
  <1>1. CASE SameKvs
    BY <1>1 DEF SameKvs
  <1>2. CASE sector' = sector
    BY <1>1, <1>2, <1>t, SameFlash
  <1>3. CASE PreDelete
    BY <1>3, <1>t, PreDeleteFlash, AdvanceKeeps
  <1>4. CASE Delete
    BY <1>4, <1>t, DeleteFlash, AdvanceKeeps
  <1>5. CASE PreDeleteDirty
    BY <1>1, <1>5, FromDirty DEF PreDeleteDirty, At
  <1>6. CASE DeleteDirty
    BY <1>1, <1>6, DeleteDirtyEffect, FromDirty
  <1>7. CASE Use
    BY <1>1, <1>7, UseFlash
  <1>8. CASE PreWrite
    BY <1>8, PreWriteFlash
  <1>9. CASE WriteHeader \/ WriteData
    BY <1>9, <1>k, PartFlash DEF KvType
  <1>10. CASE Write
    BY <1>10, <1>k, WriteFlash DEF KvType
  <1>11. CASE GcSector
    BY <1>1, <1>11, GcSectorFlash
  <1>12. CASE GcErase \/ GcFormat
    BY <1>12, FormatFlash
  <1>13. CASE BootHdr
    BY <1>13, BootHdrFlash
  <1>14. CASE BootKv
    BY <1>1, <1>14, <1>k, BootKvFlash DEF KvType
  <1> QED
    BY <1>2, <1>3, <1>4, <1>5, <1>6, <1>7, <1>8, <1>9, <1>10, <1>11, <1>12, <1>13, <1>14,
       FlashSteps

\* The order of the iterators has no cycle of two.
LEMMA BeforeOnce ==
    ASSUME oldest \in Sector, NEW l \in Loc, NEW m \in Loc, Before(l, m), Before(m, l)
    PROVE  FALSE
  <1>1. l[1] \in Sector /\ l[2] \in Nat /\ m[1] \in Sector /\ m[2] \in Nat
    BY DEF Loc
  <1>2. Turn(l[1]) \in Nat /\ Turn(m[1]) \in Nat
    BY <1>1, TurnType
  <1> QED
    BY <1>1, <1>2 DEF Before

\* What is stored under a name: the KV in use, or else the first of those
\* prepared for deletion.
LEMMA StoredIs == TypeOK /\ Unique => \A k \in Key : StoredAt(k)
  <1> SUFFICES ASSUME TypeOK, Unique, NEW k \in Key PROVE StoredAt(k)
    OBVIOUS
  <1>1. \A st : With(k, st) \in SUBSET Loc
    BY WithIsPlaces, PlaceFacts
  <1>o. oldest \in Sector
    BY DEF TypeOK
  <1>2. \A l \in With(k, WRITE) : Stored(k) = Kv(l).val
    BY FirstOfOne DEF Stored
  <1>3. With(k, PRE_DELETE) # {} =>
          /\ FirstPlace(With(k, PRE_DELETE)) \in With(k, PRE_DELETE)
          /\ IsFirst(k, FirstPlace(With(k, PRE_DELETE)))
    BY <1>1, <1>o, FirstPlaceIsFirst DEF IsFirst
  <1>4. ASSUME NEW l \in With(k, PRE_DELETE), With(k, WRITE) = {}, IsFirst(k, l)
        PROVE  Stored(k) = Kv(l).val
    <2>1. PICK f \in With(k, PRE_DELETE) : f = FirstPlace(With(k, PRE_DELETE)) /\ IsFirst(k, f)
      BY <1>3
    <2>2. f = l
      BY <1>1, <1>4, <1>o, <2>1, BeforeOnce DEF IsFirst
    <2> QED
      BY <1>4, <2>1, <2>2 DEF Stored
  <1>5. With(k, WRITE) = {} /\ With(k, PRE_DELETE) = {} => Stored(k) = NoValue
    BY DEF Stored
  <1> QED
    BY <1>2, <1>3, <1>4, <1>5 DEF StoredAt

\* The same in the next state.
LEMMA StoredIsNext == (TypeOK /\ Unique => \A k \in Key : StoredAt(k))'
  BY StoredIs, PTL

\* Behind the oldest sector the iterators follow the addresses.
LEMMA PlainOrder ==
    TypeOK => \A l, m \in Loc : oldest <= l[1] /\ oldest <= m[1] =>
                (Before(l, m) <=> l[1] < m[1] \/ (l[1] = m[1] /\ l[2] < m[2]))
  <1> SUFFICES ASSUME oldest \in Sector, NEW l \in Loc, NEW m \in Loc, oldest <= l[1],
      oldest <= m[1]
               PROVE  Before(l, m) <=> l[1] < m[1] \/ (l[1] = m[1] /\ l[2] < m[2])
    BY DEF TypeOK
  <1>1. l[1] \in Sector /\ l[2] \in Nat /\ m[1] \in Sector /\ m[2] \in Nat
    BY DEF Loc
  <1>2. Turn(l[1]) = l[1] - oldest /\ Turn(m[1]) = m[1] - oldest
    <2>1. \A s \in Sector : Turn(s) = IF s >= oldest THEN s - oldest
            ELSE s + SECTOR_NUM - oldest
      BY SizeAssumption DEF Turn, Sector
    <2> QED
      BY <1>1, <2>1, SizeAssumption DEF Sector
  <1> QED
    BY <1>1, <1>2, SizeAssumption DEF Before, Sector

\* The same in the next state.
LEMMA PlainOrderNext ==
    (TypeOK => \A l, m \in Loc : oldest <= l[1] /\ oldest <= m[1] =>
                (Before(l, m) <=> l[1] < m[1] \/ (l[1] = m[1] /\ l[2] < m[2])))'
  BY PlainOrder, PTL

\* A KV of a name keeps its value as long as it is there.
LEMMA SameValue ==
    ASSUME Shape, Next, NEW k, NEW st, NEW l \in With(k, st), l \in Places'
    PROVE  Kv(l)'.val = Kv(l).val
  <1>1. l \in Places /\ Kv(l).part # "status"
    BY DEF With
  <1> QED
    BY <1>1, ValuesKept

\* As long as one KV stays in use, so does its value.
LEMMA StoredWhileInUse ==
    ASSUME Structure, Unique, Next, TypeOK', Unique', NEW k \in Key,
           NEW l \in With(k, WRITE), l \in With(k, WRITE)'
    PROVE  Stored(k)' = Stored(k)
  <1>1. Stored(k) = Kv(l).val
    BY StoredIs DEF StoredAt, Structure, Shape
  <1>2. Stored(k)' = Kv(l)'.val
    BY StoredIsNext DEF StoredAt
  <1>3. l \in Places'
    BY DEF With
  <1>4. Kv(l)'.val = Kv(l).val
    BY <1>3, SameValue DEF Structure
  <1> QED
    BY <1>1, <1>2, <1>4

\* As long as the same KVs are prepared for deletion, and a new oldest sector
\* does not reorder them, the first of them stays the first.
LEMMA StoredWhileMarked ==
    ASSUME Structure, Unique, Next, TypeOK', Unique', NEW k \in Key,
           With(k, WRITE) = {}, With(k, WRITE)' = {}, With(k, PRE_DELETE)' = With(k,
              PRE_DELETE),
           \/ oldest' = oldest
           \/ ~Mixed(k)
           \/ \A l \in With(k, PRE_DELETE) : oldest <= l[1] /\ oldest' <= l[1]
    PROVE  Stored(k)' = Stored(k)
  <1>t. TypeOK
    BY DEF Structure, Shape
  <1>s. StoredAt(k)
    BY <1>t, StoredIs
  <1>n. StoredAt(k)'
    BY StoredIsNext
  <1>v. \A l \in With(k, PRE_DELETE) : Kv(l)'.val = Kv(l).val
    <2>1. \A l \in With(k, PRE_DELETE) : l \in Places'
      BY DEF With
    <2> QED
      BY <2>1, SameValue DEF Structure
  <1>l. With(k, PRE_DELETE) \in SUBSET Loc
    BY <1>t, WithIsPlaces, PlaceFacts
  <1>1. CASE With(k, PRE_DELETE) = {}
    BY <1>1, <1>s, <1>n DEF StoredAt
  <1>2. CASE With(k, PRE_DELETE) # {} /\ ~Mixed(k)
    <2>1. PICK l \in With(k, PRE_DELETE)' : IsFirst(k, l)'
      BY <1>2, <1>n DEF StoredAt
    <2>2. Stored(k)' = Kv(l)'.val
      BY <2>1, <1>n DEF StoredAt
    <2> QED
      BY <1>2, <1>v, <2>2 DEF Mixed
  <1>3. CASE With(k, PRE_DELETE) # {} /\ Mixed(k)
    <2>1. PICK l \in With(k, PRE_DELETE) : IsFirst(k, l) /\ Stored(k) = Kv(l).val
      BY <1>3, <1>s DEF StoredAt
    <2>2. ASSUME NEW m \in With(k, PRE_DELETE)' \ {l} PROVE Before(l, m)'
      <3>1. Before(l, m) /\ m \in With(k, PRE_DELETE)
        BY <2>1, <2>2 DEF IsFirst
      <3>2. CASE oldest' = oldest
        BY <3>1, <3>2 DEF Before, Turn
      <3>3. CASE \A n \in With(k, PRE_DELETE) : oldest <= n[1] /\ oldest' <= n[1]
        <4>1. l[1] < m[1] \/ (l[1] = m[1] /\ l[2] < m[2])
          BY <1>t, <1>l, <3>1, <3>3, PlainOrder
        <4> QED
          BY <1>l, <3>1, <3>3, <4>1, PlainOrderNext
      <3> QED
        BY <1>3, <3>2, <3>3
    <2>3. Stored(k)' = Kv(l)'.val
      BY <2>2, <1>n DEF StoredAt, IsFirst
    <2> QED
      BY <1>v, <2>1, <2>3
  <1> QED
    BY <1>1, <1>2, <1>3

\* Outside the recovery only the KV at hand is prepared for deletion.
LEMMA OnlyHandled ==
    ASSUME NoneLeft, ~in_recovery_check, NEW k \in Key, NEW l \in With(k, PRE_DELETE)
    PROVE  l = job.from
  BY DEF NoneLeft, MustBeGone, Handled

\* Outside the recovery a KV prepared for deletion is what is stored, or has
\* its successor in use.
LEMMA UnmixedOutside ==
    ASSUME Structure, Sound, ~in_recovery_check, NEW k \in Key, With(k, WRITE) = {}
    PROVE  ~Mixed(k)
  <1>1. StoredAt(k)
    BY StoredIs DEF Structure, Shape, Sound
  <1>2. \A l, m \in With(k, PRE_DELETE) : l = m
    BY OnlyHandled DEF Sound
  <1>3. \A l \in With(k, PRE_DELETE) : Stored(k) = Kv(l).val
    BY <1>1, <1>2 DEF StoredAt, IsFirst
  <1> QED
    BY <1>3 DEF Mixed

\* No KV is in an erased sector.
LEMMA NoKvErased ==
    ASSUME TypeOK, NEW s \in Sector, sector[s] = Erased, NEW l \in Places
    PROVE  l[1] # s
  <1>1. SUFFICES ASSUME l[1] = s PROVE FALSE
    OBVIOUS
  <1>2. l[2] \in 1 .. Len(sector[l[1]].kv)
    BY PlaceFacts
  <1>3. Len(sector[l[1]].kv) = 0
    BY <1>1, FreshTyped
  <1> QED
    BY <1>2, <1>3

\* Only a formatted sector and a power cut move the oldest sector.
LEMMA OldestMoves ==
    ASSUME Structure, Next, ~GcFormat, ~PowerCut
    PROVE  oldest' = oldest
  BY DEF Next, Step, Call, NewKv, fdb_kv_set, fdb_kv_del, PreDelete, PreDeleteDirty, Use,
         PreWrite, WriteHeader, WriteData, WritePart, Write, Delete, DeleteDirty, Done, MoveKv,
         Gc, GcNotNeeded, GcSector, GcFinished, GcEnds, GcKv, GcErase, BootHdr, BootGc, BootKv,
         BootEnd, ram

\* Neither reorders outdated KVs: they lie behind the old oldest sector and
\* behind the new one.
LEMMA OrderKept ==
    ASSUME Structure, Outdated, in_recovery_check, NEW k \in Key, Mixed(k),
           NEW l \in With(k, PRE_DELETE), GcFormat \/ PowerCut
    PROVE  oldest <= l[1] /\ oldest' <= l[1]
  <1>t. TypeOK /\ Shape
    BY DEF Structure, Shape
  <1>1. l \in Places /\ l[1] \in Sector
    BY <1>t, WithIsPlaces, SectorOfPlace
  <1>2. LoopAhead(l)
    BY DEF Outdated
  <1>3. gc.at \in Sector /\ oldest \in Sector /\ SECTOR_NUM \in Nat
    BY <1>t, SizeAssumption DEF Shape, Registers, GcType, TypeOK
  <1>4. oldest <= l[1]
    BY <1>1, <1>2, <1>3 DEF LoopAhead, Sector
  <1>5. CASE PowerCut
    BY <1>1, <1>4, <1>5 DEF PowerCut, Sector
  <1>6. CASE GcFormat
    <2>1. pc = "gc_format" /\ oldest' = (gc.at + 1) % SECTOR_NUM
      BY <1>6 DEF GcFormat, At, get_next_sector_addr
    <2>2. sector[gc.at] = Erased
      BY <1>t, <2>1 DEF Shape, GcLoop
    <2>3. l[1] # gc.at
      BY <1>t, <1>1, <1>3, <2>2, NoKvErased
    <2>4. gc.at <= l[1]
      BY <1>2, <2>1 DEF LoopAhead, InLoop, GcPcs
    <2>5. gc.at + 1 \in Sector /\ gc.at + 1 <= l[1]
      BY <1>1, <1>3, <2>3, <2>4 DEF Sector
    <2>6. (gc.at + 1) % SECTOR_NUM = gc.at + 1
      BY <1>3, <2>5 DEF Sector
    <2> QED
      BY <1>4, <2>1, <2>5, <2>6
  <1> QED
    BY <1>5, <1>6

\* What is stored stays when the KVs of the name do.
LEMMA StoredKeptBySame ==
    ASSUME Structure, Sound, Faithful, Next, TypeOK', Unique', NEW k \in Key,
           With(k, WRITE)' = With(k, WRITE), With(k, PRE_DELETE)' = With(k, PRE_DELETE)
    PROVE  Stored(k)' = Stored(k)
  <1>u. Unique /\ Outdated
    BY DEF Sound, Faithful
  <1>1. CASE With(k, WRITE) # {}
    BY <1>u, <1>1, StoredWhileInUse
  <1>2. CASE With(k, WRITE) = {} /\ (~Mixed(k) \/ oldest' = oldest)
    BY <1>u, <1>2, StoredWhileMarked
  <1>3. CASE With(k, WRITE) = {} /\ Mixed(k) /\ oldest' # oldest
    <2>1. in_recovery_check
      BY <1>3, UnmixedOutside
    <2>2. GcFormat \/ PowerCut
      BY <1>3, OldestMoves
    <2>3. \A l \in With(k, PRE_DELETE) : oldest <= l[1] /\ oldest' <= l[1]
      BY <1>u, <1>3, <2>1, <2>2, OrderKept
    <2> QED
      BY <1>u, <1>3, <2>3, StoredWhileMarked
  <1> QED
    BY <1>1, <1>2, <1>3

\* A KV belongs to one name.
LEMMA OtherKey ==
    ASSUME NEW k, NEW j, k # j, NEW st, NEW tt, NEW l \in With(j, tt)
    PROVE  l \notin With(k, st)
  BY DEF With

\* The KV that do_gc has at hand is the first of its name: the others, when
\* outdated, lie ahead of the collection.
LEMMA FirstInGc ==
    ASSUME Structure, Sound, Outdated, in_recovery_check, job.why = "gc",
           NEW k \in Key, Mixed(k), NEW l \in Places, l = job.from,
           NEW m \in With(k, PRE_DELETE), m # l
    PROVE  Before(l, m)
  <1>t. TypeOK /\ Shape /\ Collected
    BY DEF Structure, Shape, Sound
  <1>1. l = <<gc.at, gc.i - 1>> /\ gc.at \in Sector /\ gc.i \in Nat
    BY <1>t DEF Shape, GcLoop, Registers, GcType
  <1>2. oldest <= gc.at /\ gc.at <= m[1]
    BY DEF Outdated, LoopAhead, InLoop
  <1>3. m[1] = gc.at => m[2] >= gc.i
    BY <1>t DEF Collected, Collecting, InUse, ToBeMoved
  <1>4. m \in Loc /\ l \in Loc /\ m[1] \in Sector /\ m[2] \in Nat /\ oldest \in Sector
    BY <1>t, WithIsPlaces, PlaceFacts, SectorOfPlace DEF TypeOK
  <1>5. l[1] < m[1] \/ (l[1] = m[1] /\ l[2] < m[2])
    BY <1>1, <1>2, <1>3, <1>4 DEF Sector
  <1>6. oldest <= l[1] /\ oldest <= m[1]
    BY <1>1, <1>2, <1>4, SizeAssumption DEF Sector
  <1> QED
    BY <1>t, <1>4, <1>5, <1>6, PlainOrder

\* Preparing a KV for deletion changes nothing that is stored.
LEMMA StoredKeptByMark ==
    ASSUME Structure, Sound, Faithful, PreDelete, Next, TypeOK', Unique', NEW k \in Key
    PROVE  Stored(k)' = Stored(k)
  <1>t. TypeOK /\ Shape /\ Unique /\ Alone /\ Collected /\ NoneLeft /\ Outdated
          /\ PRE_DELETE # WRITE
    BY DEF Structure, Shape, Sound, Faithful, PRE_DELETE, WRITE
  <1>p. pc = "pre_delete"
    BY ActionPc
  <1>1. PICK l \in Places, j \in Key : l = job.from /\ j = job.key /\ l \in With(j, WRITE)
    BY <1>t, <1>p, MarksUnique, WithIsPlaces
  <1>2. /\ With(k, WRITE)' = With(k, WRITE) \ {l}
        /\ With(k, PRE_DELETE)' = With(k, PRE_DELETE) \cup {m \in {l} : k = j}
    BY <1>t, <1>1, WithSteps
  <1>3. CASE k # j
    BY <1>1, <1>2, <1>3, OtherKey, StoredKeptBySame
  <1>4. CASE k = j
    <2>1. With(k, WRITE)' = {} /\ With(k, PRE_DELETE)' = With(k, PRE_DELETE) \cup {l}
      BY <1>t, <1>1, <1>2, <1>4 DEF Unique
    <2>2. StoredAt(k) /\ StoredAt(k)'
      BY <1>t, StoredIs, StoredIsNext
    <2>3. Stored(k) = Kv(l).val /\ l \notin With(k, PRE_DELETE)
      BY <1>t, <1>1, <1>4, <2>2 DEF StoredAt, With
    <2>4. Kv(l)'.val = Kv(l).val /\ \A m \in With(k, PRE_DELETE) : Kv(m)'.val = Kv(m).val
      <3>1. l \in Places' /\ \A m \in With(k, PRE_DELETE) : m \in Places'
        BY <2>1 DEF With
      <3> QED
        BY <1>t, <1>1, <3>1, SameValue
    <2>5. CASE ~Mixed(k)
      <3>1. PICK f \in With(k, PRE_DELETE) \cup {l} : IsFirst(k, f)'
        BY <2>1, <2>2 DEF StoredAt
      <3>2. Stored(k)' = Kv(f)'.val
        BY <2>1, <2>2, <3>1 DEF StoredAt
      <3> QED
        BY <2>3, <2>4, <2>5, <3>2 DEF Mixed
    <2>6. CASE Mixed(k)
      <3>1. ASSUME NEW m \in With(k, PRE_DELETE) PROVE Before(l, m)'
        <4>r. in_recovery_check
          BY <1>t, <1>1, <2>3, <3>1, OnlyHandled
        <4>g. job.why = "gc"
          <5>1. pc \notin BootPcs /\ pc \notin GcPcs /\ pc \in Preparing
            BY <1>p DEF BootPcs, GcPcs, Preparing
          <5>2. job.why \in {"set", "gc"}
            BY <1>t, <5>1 DEF Shape, Jobs
          <5>3. job.why = "set" => gc.ret = "idle"
            BY <1>t, <5>1, Empties DEF Shape, Modes, InGc
          <5> QED
            BY <1>t, <4>r, <5>1, <5>2, <5>3 DEF Shape, Modes
        <4>5. Before(l, m)
          BY <1>1, <2>3, <2>6, <3>1, <4>r, <4>g, <1>t, FirstInGc
        <4>6. oldest' = oldest
          BY DEF PreDelete
        <4> QED
          BY <4>5, <4>6 DEF Before, Turn
      <3>2. IsFirst(k, l)'
        BY <2>1, <3>1 DEF IsFirst
      <3> QED
        BY <2>1, <2>2, <2>3, <2>4, <3>2 DEF StoredAt
    <2> QED
      BY <2>5, <2>6
  <1> QED
    BY <1>3, <1>4

\* Moving a KV changes nothing that is stored.
LEMMA StoredKeptByMove ==
    ASSUME Structure, Sound, Faithful, Write, job.why # "set", Next, TypeOK', Unique',
        NEW k \in Key
    PROVE  Stored(k)' = Stored(k)
  <1>t. TypeOK /\ Shape /\ Unique /\ Alone /\ Collected
    BY DEF Structure, Shape, Sound
  <1>p. pc = "write" /\ pc \in Writing /\ pc \in JobPcs /\ pc \notin Deleting
    BY ActionPc DEF Writing, JobPcs, Deleting
  <1>w. job.why \in {"gc", "recovery"}
    BY <1>t, <1>p DEF Shape, Jobs, Registers, JobType
  <1>1. /\ With(k, PRE_DELETE)' = With(k, PRE_DELETE)
        /\ With(k, WRITE)' = With(k, WRITE) \cup {m \in {job.to} : k = job.key}
    BY <1>t, WithSteps
  <1>2. CASE k # job.key
    BY <1>1, <1>2, StoredKeptBySame
  <1>3. CASE k = job.key
    <2>1. PICK l \in Places :
             /\ l = job.to
             /\ Kv(l) = [key |-> job.key, val |-> job.val, status |-> PRE_WRITE,
                         part |-> "whole"]
             /\ Kv(l)' = [Kv(l) EXCEPT !.status = WRITE]
      BY <1>t, WriteFlash
    <2>2. Kv(l)'.val = job.val /\ l \in With(k, WRITE)'
      BY <1>1, <1>3, <2>1
    <2>3. Stored(k)' = job.val
      BY <2>2, StoredIsNext DEF StoredAt
    <2>4. job.val = Stored(k)
      BY <1>3, <1>p, <1>w DEF Faithful, Newest
    <2> QED
      BY <2>3, <2>4
  <1> QED
    BY <1>2, <1>3

\* Deleting a KV that has a successor changes nothing that is stored.
LEMMA StoredKeptByDelete ==
    ASSUME Structure, Sound, Faithful, Delete, job.why # "del", Next, TypeOK', Unique',
        NEW k \in Key
    PROVE  Stored(k)' = Stored(k)
  <1>t. TypeOK /\ Shape /\ Unique /\ Alone /\ Collected /\ WRITE # PRE_DELETE
    BY DEF Structure, Shape, Sound, WRITE, PRE_DELETE
  <1>p. pc = "delete" /\ pc \in JobPcs
    BY ActionPc DEF Deleting, JobPcs
  <1>1. PICK j \in Key : j = job.key
    BY <1>t, <1>p DEF Shape, Jobs
  <1>2. job.from \in With(j, PRE_DELETE)
    BY <1>t, <1>1, <1>p DEF Alone, AloneAt
  <1>3. /\ With(k, WRITE)' = With(k, WRITE) \ {job.from}
        /\ With(k, PRE_DELETE)' = With(k, PRE_DELETE) \ {job.from}
    BY <1>t, WithSteps DEF InUse
  <1>4. CASE k # j
    <2>1. job.from \notin With(k, WRITE) /\ job.from \notin With(k, PRE_DELETE)
      BY <1>2, <1>4 DEF With
    <2> QED
      BY <1>3, <2>1, StoredKeptBySame
  <1>5. CASE k = j
    <2>1. With(k, WRITE) # {}
      BY <1>1, <1>5, <1>p DEF Faithful, Succeeded
    <2>2. job.from \notin With(k, WRITE)
      BY <1>t, <1>2 DEF With
    <2> QED
      BY <1>t, <1>3, <2>1, <2>2, StoredWhileInUse
  <1> QED
    BY <1>4, <1>5

\* What is stored changes in two places: when the new KV of fdb_kv_set gets
\* its status WRITE, and when fdb_kv_del deletes.  Collection, recovery and
\* power cuts never change it.
LEMMA StoredKept ==
    ASSUME Structure, Sound, Faithful, Next, ~(Write /\ job.why = "set"), ~(Delete
             /\ job.why = "del")
    PROVE  \A k \in Key : Stored(k)' = Stored(k)
  <1>1. TypeOK' /\ Unique'
    BY NextTyped, NextUnique DEF Structure
  <1>2. CASE ~PreDelete /\ ~Write /\ ~Delete
    BY <1>1, <1>2, WithSteps, StoredKeptBySame DEF InUse, Sound
  <1> QED
    BY <1>1, <1>2, StoredKeptByMark, StoredKeptByMove, StoredKeptByDelete

\* A dirty sector stays dirty until it is formatted.
LEMMA DirtyStays ==
    ASSUME Shape, Next, NEW l \in Places, l \in Places', StillDirty(l)
    PROVE  StillDirty(l)'
  <1>t. TypeOK
    BY DEF Shape
  <1>s. l[1] \in Sector /\ sector[l[1]].dirty \in {"TRUE", "GC"}
    BY <1>t, SectorOfPlace DEF StillDirty
  <1> SUFFICES sector'[l[1]].dirty \in {"TRUE", "GC"}
    BY DEF StillDirty
  <1>1. CASE SameHeaders
    BY <1>1, <1>s DEF SameHeaders
  <1>2. CASE sector' = sector
    BY <1>2, <1>s
  <1>3. CASE PreDelete \/ PreWrite \/ WriteHeader \/ WriteData \/ Write \/ Delete \/ BootKv
    BY <1>1, <1>3, PreDeleteFlash, PreWriteFlash, PartFlash, WriteFlash, DeleteFlash,
       BootKvFlash
  <1>4. CASE PreDeleteDirty
    BY <1>s, <1>4, FromDirty DEF PreDeleteDirty, At
  <1>5. CASE DeleteDirty
    BY <1>s, <1>5, DeleteDirtyEffect, FromDirty
  <1>6. CASE Use
    BY <1>s, <1>6, UseFlash
  <1>7. CASE GcSector
    BY <1>s, <1>7, GcSectorFlash
  <1>8. CASE GcErase \/ GcFormat
    BY <1>s, <1>8, FormatFlash
  <1>9. CASE BootHdr
    BY <1>1, <1>s, <1>9, BootHdrFlash
  <1> QED
    BY <1>2, <1>3, <1>4, <1>5, <1>6, <1>7, <1>8, <1>9, FlashSteps

\* Every sector with a good header has a dirty status.
LEMMA NextFormatted ==
    ASSUME Shape, Formatted, Next
    PROVE  Formatted'
  <1>t. TypeOK
    BY DEF Shape
  <1> SUFFICES ASSUME NEW s \in Sector, sector'[s].ok PROVE sector'[s].dirty # "UNUSED"
    BY DEF Formatted
  <1>0. sector[s].ok => sector[s].dirty # "UNUSED"
    BY DEF Formatted
  <1>f. sector'[s] = Fresh => sector'[s].dirty # "UNUSED"
    BY DEF Fresh
  <1>e. sector'[s] # Erased
    BY DEF Erased
  <1>1. CASE SameHeaders
    BY <1>0, <1>1 DEF SameHeaders
  <1>2. CASE sector' = sector
    BY <1>0, <1>2
  <1>3. CASE PreDelete \/ PreWrite \/ WriteHeader \/ WriteData \/ Write \/ Delete \/ BootKv
    BY <1>1, <1>3, PreDeleteFlash, PreWriteFlash, PartFlash, WriteFlash, DeleteFlash,
       BootKvFlash
  <1>4. CASE PreDeleteDirty
    BY <1>0, <1>4, FromDirty DEF PreDeleteDirty, At
  <1>5. CASE DeleteDirty
    BY <1>0, <1>5, DeleteDirtyEffect, FromDirty
  <1>6. CASE Use
    BY <1>0, <1>6, UseFlash
  <1>7. CASE GcSector
    BY <1>0, <1>7, GcSectorFlash
  <1>8. CASE GcErase \/ GcFormat
    BY <1>0, <1>f, <1>e, <1>8, FormatFlash
  <1>9. CASE BootHdr
    BY <1>0, <1>1, <1>f, <1>9, BootHdrFlash
  <1> QED
    BY <1>2, <1>3, <1>4, <1>5, <1>6, <1>7, <1>8, <1>9, FlashSteps

\* A job of the collection or the recovery keeps its KV while it runs.
LEMMA SameJob ==
    ASSUME Shape, Next
    PROVE  pc' \in JobPcs /\ job'.why \in {"gc", "recovery"} =>
             \/ GcKv \/ BootKv
             \/ /\ pc \in JobPcs /\ job'.why = job.why /\ job'.from = job.from
                /\ job'.key = job.key /\ job'.val = job.val /\ job'.was = job.was
                /\ it' = it /\ oldest' = oldest
  <1> DEFINE SameOrMoved ==
        pc' \in JobPcs /\ job'.why \in {"gc", "recovery"} =>
                \/ GcKv \/ BootKv
                \/ /\ pc \in JobPcs /\ job'.why = job.why /\ job'.from = job.from
                   /\ job'.key = job.key /\ job'.val = job.val /\ job'.was = job.was
                   /\ it' = it /\ oldest' = oldest
  <1> USE DEF Shape, Jobs, JobPcs, Preparing, Creating, Writing, Deleting, GcPcs, BootPcs,
             CallPcs
  <1>1. ASSUME NEW k \in Key, NEW v \in ValueOf[k], fdb_kv_set(k, v) PROVE SameOrMoved
    BY <1>1, SetEffect
  <1>2. ASSUME NEW k \in Key, fdb_kv_del(k) PROVE SameOrMoved
    BY <1>2, DelEffect
  <1>3. ASSUME NewKv("new_kv") PROVE SameOrMoved
    BY <1>3, NewKvEffect DEF Create
  <1>4. ASSUME NewKv("new_kv_again") PROVE SameOrMoved
    BY <1>4, NewKvEffect DEF Create
  <1>5. ASSUME PreDelete PROVE SameOrMoved
    BY <1>5, PreDeleteFlash
  <1>6. ASSUME PreDeleteDirty PROVE SameOrMoved
    BY <1>6 DEF PreDeleteDirty, At, ram
  <1>7. ASSUME Use PROVE SameOrMoved
    BY <1>7 DEF Use, At, ram
  <1>8. ASSUME PreWrite PROVE SameOrMoved
    BY <1>8, PreWriteEffect DEF ram
  <1>9. ASSUME WriteHeader PROVE SameOrMoved
    BY <1>9, PartFlash DEF ram
  <1>10. ASSUME WriteData PROVE SameOrMoved
    BY <1>10, PartFlash DEF ram
  <1>11. ASSUME Write PROVE SameOrMoved
    BY <1>11, WriteEffect
  <1>12. ASSUME Delete PROVE SameOrMoved
    BY <1>12, DeleteEffect
  <1>13. ASSUME DeleteDirty PROVE SameOrMoved
    BY <1>13, DeleteDirtyEffect
  <1>14. ASSUME Done PROVE SameOrMoved
    BY <1>14, DoneEffect
  <1>15. ASSUME MoveKv PROVE SameOrMoved
    BY <1>15, MoveKvEffect DEF Create
  <1>16. ASSUME Gc PROVE SameOrMoved
    BY <1>16, GcEffect
  <1>17. ASSUME GcNotNeeded PROVE SameOrMoved
    BY <1>17, GcEndsEffect
  <1>18. ASSUME GcSector PROVE SameOrMoved
    BY <1>18, GcSectorEffect
  <1>19. ASSUME GcFinished PROVE SameOrMoved
    BY <1>19, GcEndsEffect
  <1>20. ASSUME GcKv PROVE SameOrMoved
    BY <1>20, GcKvEffect
  <1>21. ASSUME GcErase PROVE SameOrMoved
    BY <1>21 DEF GcErase, At
  <1>22. ASSUME GcFormat PROVE SameOrMoved
    BY <1>22, GcFormatEffect
  <1>23. ASSUME PowerCut PROVE SameOrMoved
    BY <1>23 DEF PowerCut
  <1>24. ASSUME BootHdr PROVE SameOrMoved
    BY <1>24 DEF BootHdr, At
  <1>25. ASSUME BootGc PROVE SameOrMoved
    BY <1>25, BootGcEffect
  <1>26. ASSUME BootKv PROVE SameOrMoved
    BY <1>26, BootKvEffect
  <1>27. ASSUME BootEnd PROVE SameOrMoved
    BY <1>27, BootEndEffect
  <1> QED
    BY <1>1, <1>2, <1>3, <1>4, <1>5, <1>6, <1>7, <1>8, <1>9, <1>10, <1>11, <1>12, <1>13, <1>14,
       <1>15, <1>16, <1>17, <1>18, <1>19, <1>20, <1>21, <1>22, <1>23, <1>24, <1>25, <1>26,
       <1>27 DEF Next, Step, Call

\* The recovery always collects for the size of the flash.
LEMMA NextWholeFlash ==
    ASSUME Shape, WholeFlash, Next
    PROVE  WholeFlash'
  <1> USE DEF WholeFlash, Shape, Registers, GcType
  <1>1. ASSUME NEW k \in Key, NEW v \in ValueOf[k], fdb_kv_set(k, v) PROVE WholeFlash'
    BY <1>1, SetEffect
  <1>2. ASSUME NEW k \in Key, fdb_kv_del(k) PROVE WholeFlash'
    BY <1>2, DelEffect
  <1>3. ASSUME NewKv("new_kv") PROVE WholeFlash'
    BY <1>3 DEF NewKv, NoGc
  <1>4. ASSUME NewKv("new_kv_again") PROVE WholeFlash'
    BY <1>4 DEF NewKv, NoGc
  <1>5. ASSUME PreDelete PROVE WholeFlash'
    BY <1>5, PreDeleteFlash
  <1>6. ASSUME PreDeleteDirty PROVE WholeFlash'
    BY <1>6 DEF PreDeleteDirty, At
  <1>7. ASSUME Use PROVE WholeFlash'
    BY <1>7 DEF Use, At
  <1>8. ASSUME PreWrite PROVE WholeFlash'
    BY <1>8, PreWriteEffect
  <1>9. ASSUME WriteHeader PROVE WholeFlash'
    BY <1>9, PartFlash
  <1>10. ASSUME WriteData PROVE WholeFlash'
    BY <1>10, PartFlash
  <1>11. ASSUME Write PROVE WholeFlash'
    BY <1>11, WriteEffect
  <1>12. ASSUME Delete PROVE WholeFlash'
    BY <1>12, DeleteEffect
  <1>13. ASSUME DeleteDirty PROVE WholeFlash'
    BY <1>13, DeleteDirtyEffect
  <1>14. ASSUME Done PROVE WholeFlash'
    BY <1>14 DEF Done, NoGc
  <1>15. ASSUME MoveKv PROVE WholeFlash'
    BY <1>15, MoveKvEffect DEF Create
  <1>16. ASSUME Gc PROVE WholeFlash'
    BY <1>16 DEF Gc
  <1>17. ASSUME GcNotNeeded PROVE WholeFlash'
    BY <1>17, Empties DEF GcNotNeeded, GcFinished, GcEnds
  <1>18. ASSUME GcSector PROVE WholeFlash'
    BY <1>18 DEF GcSector
  <1>19. ASSUME GcFinished PROVE WholeFlash'
    BY <1>19, Empties DEF GcNotNeeded, GcFinished, GcEnds
  <1>20. ASSUME GcKv PROVE WholeFlash'
    BY <1>20 DEF GcKv
  <1>21. ASSUME GcErase PROVE WholeFlash'
    BY <1>21 DEF GcErase, At
  <1>22. ASSUME GcFormat PROVE WholeFlash'
    BY <1>22 DEF GcFormat
  <1>23. ASSUME PowerCut PROVE WholeFlash'
    BY <1>23, Empties DEF PowerCut
  <1>24. ASSUME BootHdr PROVE WholeFlash'
    BY <1>24 DEF BootHdr, At
  <1>25. ASSUME BootGc PROVE WholeFlash'
    BY <1>25 DEF BootGc, NoGc
  <1>26. ASSUME BootKv PROVE WholeFlash'
    BY <1>26, BootKvEffect
  <1>27. ASSUME BootEnd PROVE WholeFlash'
    BY <1>27 DEF BootEnd, NoGc
  <1> QED
    BY <1>1, <1>2, <1>3, <1>4, <1>5, <1>6, <1>7, <1>8, <1>9, <1>10, <1>11, <1>12, <1>13, <1>14,
       <1>15, <1>16, <1>17, <1>18, <1>19, <1>20, <1>21, <1>22, <1>23, <1>24, <1>25, <1>26,
       <1>27 DEF Next, Step, Call

\* Where such a job comes from: the KV found, or the job before.
LEMMA JobStep ==
    ASSUME Shape, Next, job'.why \in {"gc", "recovery"}
    PROVE  /\ pc' \in JobPcs
           /\ \E l \in Places :
                /\ job'.from = l
                /\ \/ /\ GcKv \/ BootKv
                      /\ job'.key = Kv(l).key /\ job'.val = Kv(l).val /\ job'.was = Kv(l).status
                      /\ Kv(l).part = "whole" /\ Kv(l).status \in InUse
                      /\ sector' = sector /\ oldest' = oldest
                      /\ job'.why = IF GcKv THEN "gc" ELSE "recovery"
                      /\ BootKv => it' = <<Turn(l[1]), l[2]>>
                   \/ /\ pc \in JobPcs /\ job'.why = job.why /\ job.from = l
                           /\ job'.key = job.key
                      /\ job'.val = job.val /\ job'.was = job.was
                      /\ it' = it /\ oldest' = oldest
  <1>j. Jobs /\ Jobs' /\ Froms
    BY NextJobs DEF Shape
  <1>e. NoJob.why = "none" /\ PRE_DELETE # PRE_WRITE
    BY Empties DEF PRE_DELETE, PRE_WRITE
  <1>1. pc' \in JobPcs
    BY <1>j, <1>e DEF Jobs
  <1>2. CASE GcKv
    <2>1. pc \notin JobPcs
      BY <1>2, GcKvEffect DEF JobPcs, Preparing, Creating, Writing, Deleting
    <2>2. job.why = "none"
      BY <2>1, Quiet
    <2>3. \E i \in Nat : /\ <<gc.at, i>> \in Places /\ Movable(Kv(<<gc.at, i>>))
                         /\ job'.key = Kv(<<gc.at, i>>).key
                         /\ job'.val = Kv(<<gc.at, i>>).val
                         /\ job'.from = <<gc.at, i>>
                         /\ job'.was = Kv(<<gc.at, i>>).status /\ job'.why = "gc"
      BY <1>2, <2>2, GcKvEffect
    <2>4. PICK l \in Places : /\ Movable(Kv(l))
                         /\ job'.key = Kv(l).key
                         /\ job'.val = Kv(l).val
                         /\ job'.from = l
                         /\ job'.was = Kv(l).status /\ job'.why = "gc"
      BY <2>3
    <2>5. sector' = sector /\ oldest' = oldest
      BY <1>2, GcKvEffect DEF ram
    <2>6. ~BootKv
      BY <1>2 DEF GcKv, BootKv, At
    <2> QED
      BY <1>1, <1>2, <2>4, <2>5, <2>6 DEF Movable, InUse
  <1>3. CASE BootKv
    <2>1. pc \notin JobPcs
      BY <1>3, BootKvEffect DEF JobPcs, Preparing, Creating, Writing, Deleting
    <2>2. job.why = "none"
      BY <2>1, Quiet
    <2>3. PICK l \in Places :
                          /\ Kv(l).part = "whole" /\ Kv(l).status = PRE_DELETE
                          /\ job'.key = Kv(l).key /\ job'.val = Kv(l).val
                          /\ job'.from = l
                          /\ job'.was = PRE_DELETE /\ job'.why = "recovery"
                          /\ it' = <<Turn(l[1]), l[2]>>
                          /\ sector' = sector
      BY <1>3, <2>2, BootKvEffect
    <2>5. oldest' = oldest /\ ~GcKv
      BY <1>3, BootKvEffect DEF GcKv, At
    <2> QED
      BY <1>1, <1>3, <2>3, <2>5 DEF InUse
  <1>4. CASE ~GcKv /\ ~BootKv
    <2>1. /\ pc \in JobPcs /\ job'.why = job.why /\ job'.from = job.from /\ job'.key = job.key
          /\ job'.val = job.val /\ job'.was = job.was
          /\ it' = it /\ oldest' = oldest
      BY <1>1, <1>4, SameJob
    <2>2. pc # "done" /\ job.why # "set"
      BY <1>j, <2>1 DEF Jobs
    <2>3. job.from \in Places
      BY <1>j, <2>1, <2>2 DEF Froms
    <2> QED
      BY <1>1, <2>1, <2>3
  <1> QED
    BY <1>2, <1>3, <1>4

\* A job keeps the value it has read.
LEMMA NextCopied ==
    ASSUME Shape, Copied, Next
    PROVE  Copied'
  <1> SUFFICES ASSUME job'.why \in {"gc", "recovery"} PROVE Kv(job.from)'.val = job'.val
    BY DEF Copied
  <1>1. PICK l \in Places :
           /\ job'.from = l
           /\ \/ job'.val = Kv(l).val
              \/ job'.why = job.why /\ job.from = l /\ job'.val = job.val
    BY JobStep
  <1>2. Kv(l)'.val = Kv(l).val
    BY JobStep, Kept
  <1>3. job'.val = Kv(l).val
    BY <1>1 DEF Copied
  <1> QED
    BY <1>1, <1>2, <1>3 DEF Kv

\* The recovery's iterator stays at the KV of its job.
LEMMA NextVisited ==
    ASSUME Shape, Visited, Next
    PROVE  Visited'
  <1> SUFFICES ASSUME job'.why = "recovery" PROVE it' = <<Turn(job.from[1])', job'.from[2]>>
    BY DEF Visited
  <1>1. PICK l \in Places :
           /\ job'.from = l /\ oldest' = oldest
           /\ \/ it' = <<Turn(l[1]), l[2]>>
              \/ job'.why = job.why /\ job.from = l /\ it' = it
    BY JobStep
  <1>2. Turn(l[1])' = Turn(l[1])
    BY <1>1 DEF Turn
  <1> QED
    BY <1>1, <1>2 DEF Visited, Turn

\* What leads to the deletion of a KV.
LEMMA IntoDelete ==
    ASSUME Shape, Next
    PROVE  pc' = "delete" =>
             \/ Write
             \/ MoveKv /\ HasSuccessor(job.key) /\ job'.key = job.key /\ job'.why = job.why
             \/ \E k \in Key : fdb_kv_del(k)
  <1> DEFINE Ahead ==
         pc' = "delete" =>
                \/ Write
                \/ MoveKv /\ HasSuccessor(job.key) /\ job'.key = job.key /\ job'.why = job.why
                \/ \E k \in Key : fdb_kv_del(k)
  <1> USE DEF Shape, JobPcs, Preparing, Creating, Writing, Deleting, GcPcs, BootPcs, CallPcs
  <1>1. ASSUME NEW k \in Key, NEW v \in ValueOf[k], fdb_kv_set(k, v) PROVE Ahead
    BY <1>1, SetEffect
  <1>2. ASSUME NEW k \in Key, fdb_kv_del(k) PROVE Ahead
    BY <1>2, DelEffect
  <1>3. ASSUME NewKv("new_kv") PROVE Ahead
    BY <1>3, NewKvEffect DEF Create
  <1>4. ASSUME NewKv("new_kv_again") PROVE Ahead
    BY <1>4, NewKvEffect DEF Create
  <1>5. ASSUME PreDelete PROVE Ahead
    BY <1>5, PreDeleteFlash
  <1>6. ASSUME PreDeleteDirty PROVE Ahead
    BY <1>6, WhereNext DEF PreDeleteDirty, At
  <1>7. ASSUME Use PROVE Ahead
    BY <1>7 DEF Use, At
  <1>8. ASSUME PreWrite PROVE Ahead
    BY <1>8, PreWriteEffect
  <1>9. ASSUME WriteHeader PROVE Ahead
    BY <1>9, PartFlash
  <1>10. ASSUME WriteData PROVE Ahead
    BY <1>10, PartFlash
  <1>11. ASSUME Write PROVE Ahead
    BY <1>11, WriteEffect
  <1>12. ASSUME Delete PROVE Ahead
    BY <1>12, DeleteEffect
  <1>13. ASSUME DeleteDirty PROVE Ahead
    BY <1>13, DeleteDirtyEffect
  <1>14. ASSUME Done PROVE Ahead
    BY <1>14, DoneEffect
  <1>15. ASSUME MoveKv PROVE Ahead
    BY <1>15, MoveKvEffect DEF Create
  <1>16. ASSUME Gc PROVE Ahead
    BY <1>16, GcEffect
  <1>17. ASSUME GcNotNeeded PROVE Ahead
    BY <1>17, GcEndsEffect
  <1>18. ASSUME GcSector PROVE Ahead
    BY <1>18, GcSectorEffect
  <1>19. ASSUME GcFinished PROVE Ahead
    BY <1>19, GcEndsEffect
  <1>20. ASSUME GcKv PROVE Ahead
    BY <1>20, GcKvEffect
  <1>21. ASSUME GcErase PROVE Ahead
    BY <1>21 DEF GcErase, At
  <1>22. ASSUME GcFormat PROVE Ahead
    BY <1>22, GcFormatEffect
  <1>23. ASSUME PowerCut PROVE Ahead
    BY <1>23 DEF PowerCut
  <1>24. ASSUME BootHdr PROVE Ahead
    BY <1>24 DEF BootHdr, At
  <1>25. ASSUME BootGc PROVE Ahead
    BY <1>25, BootGcEffect
  <1>26. ASSUME BootKv PROVE Ahead
    BY <1>26, BootKvEffect
  <1>27. ASSUME BootEnd PROVE Ahead
    BY <1>27, BootEndEffect
  <1> QED
    BY <1>1, <1>2, <1>3, <1>4, <1>5, <1>6, <1>7, <1>8, <1>9, <1>10, <1>11, <1>12, <1>13, <1>14,
       <1>15, <1>16, <1>17, <1>18, <1>19, <1>20, <1>21, <1>22, <1>23, <1>24, <1>25, <1>26,
       <1>27 DEF Next, Step, Call

\* No old KV is deleted before its successor is in use.
LEMMA NextSucceeded ==
    ASSUME Structure, Collected, Next
    PROVE  Succeeded'
  <1>t. Shape /\ TypeOK
    BY DEF Structure, Shape
  <1> SUFFICES ASSUME pc' = "delete", job'.why # "del" PROVE With(job.key, WRITE)' # {}
    BY DEF Succeeded
  <1>1. CASE Write
    <2>1. job'.key = job.key /\ job.key \in Key
      BY <1>t, <1>1, WriteEffect
    <2>2. PICK k \in Key : k = job.key
      BY <2>1
    <2>3. job.to \in With(k, WRITE)'
      BY <1>1, <2>2, WithSteps
    <2> QED
      BY <2>1, <2>2, <2>3
  <1>2. CASE MoveKv /\ HasSuccessor(job.key) /\ job'.key = job.key
    <2>1. sector' = sector
      BY <1>t, <1>2, MoveKvEffect
    <2>2. With(job.key, WRITE) # {}
      BY <1>t, <1>2, FoundByScan DEF HasSuccessor
    <2>3. PICK l \in Places : l \in With(job.key, WRITE)
      BY <2>2, WithIsPlaces
    <2>4. l \in With(job.key, WRITE)'
      BY <1>2, <2>1, <2>3 DEF With, Places, Kv
    <2> QED
      BY <2>4
  <1>3. CASE \E k \in Key : fdb_kv_del(k)
    BY <1>t, <1>3, DelEffect
  <1> QED
    BY <1>t, <1>1, <1>2, <1>3, IntoDelete

\* fdb_kv_del deletes what fdb_kv_get would have read.
LEMMA NextDiscarded ==
    ASSUME Structure, Cache, Next
    PROVE  Discarded'
  <1>t. Shape /\ TypeOK
    BY DEF Structure, Shape
  <1> SUFFICES ASSUME pc' = "delete", job'.why = "del"
               PROVE  job'.from \in With(job.key, WRITE)' /\ job'.val = NoValue
    BY DEF Discarded
  <1>1. ~Write
    <2>1. Write => job'.why = job.why /\ pc = "write"
      BY <1>t, WriteEffect
    <2> QED
      BY <1>t, <2>1 DEF Shape, Jobs, Deleting
  <1>2. ~(MoveKv /\ job'.why = job.why)
    BY <1>t, MoveKvEffect
  <1>3. PICK k \in Key : fdb_kv_del(k)
    BY <1>t, <1>1, <1>2, IntoDelete
  <1>4. /\ pc = "idle" /\ job'.key = k /\ job'.from = find_kv(k) /\ find_kv(k) # NoLoc
        /\ sector' = sector
    BY <1>t, <1>3, DelEffect DEF fdb_kv_del
  <1>5. job'.val = NoValue
    BY <1>3 DEF fdb_kv_del, NoJob
  <1>6. job'.from \in With(k, WRITE)
    BY <1>4, FoundInUse
  <1>7. job'.from \in With(k, WRITE)'
    BY <1>4, <1>6 DEF With, Places, Kv
  <1> QED
    BY <1>4, <1>5, <1>7

\* What leads fdb_kv_set to its new KV.
LEMMA IntoReplacing ==
    ASSUME Shape, Next
    PROVE  job'.why = "set" /\ pc' \in Creating \cup Writing \cup {"delete"}
             /\ job'.from # NoLoc =>
             \/ PreDelete /\ pc' = Prepared /\ job' = job
             \/ PreDeleteDirty /\ job' = job
             \/ /\ pc \in Creating \cup Writing /\ job.why = "set" /\ job'.from = job.from
  <1> DEFINE Ahead ==
         job'.why = "set" /\ pc' \in Creating \cup Writing \cup {"delete"}
           /\ job'.from # NoLoc =>
                \/ PreDelete /\ pc' = Prepared /\ job' = job
                \/ PreDeleteDirty /\ job' = job
                \/ /\ pc \in Creating \cup Writing /\ job.why = "set" /\ job'.from = job.from
  <1> USE DEF Shape, Jobs, JobPcs, Preparing, Creating, Writing, Deleting, GcPcs, BootPcs,
             CallPcs
  <1>1. ASSUME NEW k \in Key, NEW v \in ValueOf[k], fdb_kv_set(k, v) PROVE Ahead
    BY <1>1, SetEffect
  <1>2. ASSUME NEW k \in Key, fdb_kv_del(k) PROVE Ahead
    BY <1>2, DelEffect
  <1>3. ASSUME NewKv("new_kv") PROVE Ahead
    BY <1>3, NewKvEffect
  <1>4. ASSUME NewKv("new_kv_again") PROVE Ahead
    BY <1>4, NewKvEffect
  <1>5. ASSUME PreDelete PROVE Ahead
    BY <1>5, PreDeleteFlash
  <1>6. ASSUME PreDeleteDirty PROVE Ahead
    BY <1>6 DEF PreDeleteDirty, At
  <1>7. ASSUME Use PROVE Ahead
    BY <1>7 DEF Use, At
  <1>8. ASSUME PreWrite PROVE Ahead
    BY <1>8, PreWriteEffect
  <1>9. ASSUME WriteHeader PROVE Ahead
    BY <1>9, PartFlash
  <1>10. ASSUME WriteData PROVE Ahead
    BY <1>10, PartFlash
  <1>11. ASSUME Write PROVE Ahead
    BY <1>11, WriteEffect
  <1>12. ASSUME Delete PROVE Ahead
    BY <1>12, DeleteEffect
  <1>13. ASSUME DeleteDirty PROVE Ahead
    BY <1>13, DeleteDirtyEffect
  <1>14. ASSUME Done PROVE Ahead
    BY <1>14, DoneEffect
  <1>15. ASSUME MoveKv PROVE Ahead
    BY <1>15, MoveKvEffect
  <1>16. ASSUME Gc PROVE Ahead
    BY <1>16, GcEffect
  <1>17. ASSUME GcNotNeeded PROVE Ahead
    BY <1>17, GcEndsEffect
  <1>18. ASSUME GcSector PROVE Ahead
    BY <1>18, GcSectorEffect
  <1>19. ASSUME GcFinished PROVE Ahead
    BY <1>19, GcEndsEffect
  <1>20. ASSUME GcKv PROVE Ahead
    BY <1>20, GcKvEffect
  <1>21. ASSUME GcErase PROVE Ahead
    BY <1>21 DEF GcErase, At
  <1>22. ASSUME GcFormat PROVE Ahead
    BY <1>22, GcFormatEffect
  <1>23. ASSUME PowerCut PROVE Ahead
    BY <1>23 DEF PowerCut
  <1>24. ASSUME BootHdr PROVE Ahead
    BY <1>24 DEF BootHdr, At
  <1>25. ASSUME BootGc PROVE Ahead
    BY <1>25, BootGcEffect
  <1>26. ASSUME BootKv PROVE Ahead
    BY <1>26, BootKvEffect
  <1>27. ASSUME BootEnd PROVE Ahead
    BY <1>27, BootEndEffect
  <1> QED
    BY <1>1, <1>2, <1>3, <1>4, <1>5, <1>6, <1>7, <1>8, <1>9, <1>10, <1>11, <1>12, <1>13, <1>14,
       <1>15, <1>16, <1>17, <1>18, <1>19, <1>20, <1>21, <1>22, <1>23, <1>24, <1>25, <1>26,
       <1>27 DEF Next, Step, Call

\* The old KV's sector is marked dirty before the new KV is written.
LEMMA NextMadeDirty ==
    ASSUME Shape, Formatted, MadeDirty, Next
    PROVE  MadeDirty'
  <1>t. TypeOK
    BY DEF Shape
  <1> SUFFICES ASSUME job'.why = "set", pc' \in Creating \cup Writing \cup {"delete"},
      job'.from # NoLoc
               PROVE  StillDirty(job.from)'
    BY DEF MadeDirty
  <1>p. pc' \in JobPcs
    BY DEF JobPcs, Deleting
  <1>1. CASE PreDelete /\ pc' = Prepared /\ job' = job
    <2>1. pc = "pre_delete" /\ SameHeaders /\ \E l \in Places : l = job.from
      BY <1>1, PreDeleteFlash
    <2>2. PICK l \in Places : l = job.from
      BY <2>1
    <2>3. sector[l[1]].dirty # "FALSE"
      <3>1. pc' # "pre_delete_dirty"
        BY DEF Creating, Writing
      <3> QED
        BY <1>1, <2>2, <3>1, PreDeleteFlash
    <2>4. l[1] \in Sector /\ sector[l[1]].ok /\ sector[l[1]] \in SectorType
      BY <1>t, <2>1, AllOk, SectorOfPlace, SectorTyped
    <2>5. sector[l[1]].dirty \in {"TRUE", "GC"}
      BY <2>3, <2>4 DEF Formatted, SectorType
    <2> QED
      BY <1>1, <2>1, <2>2, <2>4, <2>5 DEF StillDirty, SameHeaders
  <1>2. CASE PreDeleteDirty /\ job' = job
    <2>1. PICK s \in Sector : s = job.from[1] /\ sector'[s].dirty = "TRUE"
      BY <1>2, FromDirty DEF PreDeleteDirty, At
    <2> QED
      BY <1>2, <2>1 DEF StillDirty
  <1>3. CASE pc \in Creating \cup Writing /\ job.why = "set" /\ job'.from = job.from
    <2>1. pc \in JobPcs \ {"done"}
      BY <1>3 DEF JobPcs, Creating, Writing
    <2>2. PICK l \in Places : l = job.from
      BY <1>3, <2>1 DEF Shape, Froms
    <2>3. StillDirty(l) /\ l \in Places'
      BY <1>p, <1>3, <2>2, Kept DEF MadeDirty
    <2>4. StillDirty(l)'
      BY <2>3, DirtyStays
    <2> QED
      BY <1>3, <2>2, <2>4 DEF StillDirty
  <1> QED
    BY <1>1, <1>2, <1>3, IntoReplacing

\* What leads to the copy of a KV.
LEMMA IntoNewest ==
    ASSUME Shape, Next
    PROVE  pc' \in Preparing \cup Creating \cup Writing \cup {"move_kv"}
             /\ job'.why \in {"gc", "recovery"} =>
             \/ GcKv \/ BootKv
             \/ pc \in Preparing \cup Creating \cup Writing
             \/ MoveKv /\ ~HasSuccessor(job.key)
  <1> DEFINE Ahead ==
         pc' \in Preparing \cup Creating \cup Writing \cup {"move_kv"}
           /\ job'.why \in {"gc", "recovery"} =>
                \/ GcKv \/ BootKv
                \/ pc \in Preparing \cup Creating \cup Writing
                \/ MoveKv /\ ~HasSuccessor(job.key)
  <1> USE DEF Shape, Jobs, JobPcs, Preparing, Creating, Writing, Deleting, GcPcs, BootPcs,
             CallPcs
  <1>1. ASSUME NEW k \in Key, NEW v \in ValueOf[k], fdb_kv_set(k, v) PROVE Ahead
    BY <1>1, SetEffect
  <1>2. ASSUME NEW k \in Key, fdb_kv_del(k) PROVE Ahead
    BY <1>2, DelEffect
  <1>3. ASSUME NewKv("new_kv") PROVE Ahead
    BY <1>3, NewKvEffect DEF Create
  <1>4. ASSUME NewKv("new_kv_again") PROVE Ahead
    BY <1>4, NewKvEffect DEF Create
  <1>5. ASSUME PreDelete PROVE Ahead
    BY <1>5, PreDeleteFlash
  <1>6. ASSUME PreDeleteDirty PROVE Ahead
    BY <1>6 DEF PreDeleteDirty, At
  <1>7. ASSUME Use PROVE Ahead
    BY <1>7 DEF Use, At
  <1>8. ASSUME PreWrite PROVE Ahead
    BY <1>8, PreWriteEffect
  <1>9. ASSUME WriteHeader PROVE Ahead
    BY <1>9, PartFlash
  <1>10. ASSUME WriteData PROVE Ahead
    BY <1>10, PartFlash
  <1>11. ASSUME Write PROVE Ahead
    BY <1>11, WriteEffect
  <1>12. ASSUME Delete PROVE Ahead
    BY <1>12, DeleteEffect
  <1>13. ASSUME DeleteDirty PROVE Ahead
    BY <1>13, DeleteDirtyEffect
  <1>14. ASSUME Done PROVE Ahead
    BY <1>14, DoneEffect
  <1>15. ASSUME MoveKv PROVE Ahead
    BY <1>15, MoveKvEffect DEF Create
  <1>16. ASSUME Gc PROVE Ahead
    BY <1>16, GcEffect
  <1>17. ASSUME GcNotNeeded PROVE Ahead
    BY <1>17, GcEndsEffect
  <1>18. ASSUME GcSector PROVE Ahead
    BY <1>18, GcSectorEffect
  <1>19. ASSUME GcFinished PROVE Ahead
    BY <1>19, GcEndsEffect
  <1>20. ASSUME GcKv PROVE Ahead
    BY <1>20, GcKvEffect
  <1>21. ASSUME GcErase PROVE Ahead
    BY <1>21 DEF GcErase, At
  <1>22. ASSUME GcFormat PROVE Ahead
    BY <1>22, GcFormatEffect
  <1>23. ASSUME PowerCut PROVE Ahead
    BY <1>23 DEF PowerCut
  <1>24. ASSUME BootHdr PROVE Ahead
    BY <1>24 DEF BootHdr, At
  <1>25. ASSUME BootGc PROVE Ahead
    BY <1>25, BootGcEffect
  <1>26. ASSUME BootKv PROVE Ahead
    BY <1>26, BootKvEffect
  <1>27. ASSUME BootEnd PROVE Ahead
    BY <1>27, BootEndEffect
  <1> QED
    BY <1>1, <1>2, <1>3, <1>4, <1>5, <1>6, <1>7, <1>8, <1>9, <1>10, <1>11, <1>12, <1>13, <1>14,
       <1>15, <1>16, <1>17, <1>18, <1>19, <1>20, <1>21, <1>22, <1>23, <1>24, <1>25, <1>26,
       <1>27 DEF Next, Step, Call

\* What is moved is the value stored, never an older one: a KV prepared for
\* deletion is only moved when no successor is in use, and then it is the
\* first of its name in the order of the iterators.
LEMMA NextNewest ==
    ASSUME Structure, Sound, Faithful, Next
    PROVE  Newest'
  <1>t. /\ Shape /\ TypeOK /\ Unique /\ Alone /\ Resumed /\ NoneLeft /\ Newest /\ Copied
             /\ Visited
        /\ Outdated
        /\ WRITE # PRE_DELETE
    BY DEF Structure, Shape, Sound, Faithful, WRITE, PRE_DELETE
  <1> SUFFICES ASSUME job'.why \in {"gc", "recovery"},
                      \/ pc' \in Preparing \cup Creating \cup Writing
                      \/ pc' = "move_kv" /\ job'.was = WRITE
               PROVE  job'.val = Stored(job.key)'
    BY DEF Newest
  <1>k. job'.key \in Key
    BY <1>t, JobStep, NextJobs DEF Jobs
  <1>1. PICK k \in Key : k = job'.key
    BY <1>k
  <1>2. PICK l \in Places :
                /\ job'.from = l
                /\ \/ /\ GcKv \/ BootKv
                      /\ k = Kv(l).key /\ job'.val = Kv(l).val /\ job'.was = Kv(l).status
                      /\ Kv(l).part = "whole"
                   \/ /\ pc \in JobPcs /\ job'.why = job.why /\ job.from = l /\ k = job.key
                      /\ job'.val = job.val /\ job'.was = job.was
    BY <1>t, <1>1, JobStep
  <1>3. job'.val = Stored(k)
    <2>1. CASE GcKv
      <3>0. pc = "gc_kv"
        BY <1>t, <2>1, GcKvEffect
      <3>1. pc \notin JobPcs
        BY <3>0 DEF JobPcs, Preparing, Creating, Writing, Deleting
      <3>2. job'.was = WRITE
        BY <1>t, <2>1, GcKvEffect DEF Preparing, Creating, Writing
      <3>3. l \in With(k, WRITE)
        BY <1>2, <3>1, <3>2 DEF With
      <3> QED
        BY <1>t, <1>2, <3>1, <3>3, StoredIs DEF StoredAt
    <2>2. CASE BootKv
      <3>1. pc \notin JobPcs /\ job.why = "none"
        <4>1. pc \notin JobPcs
          BY <1>t, <2>2, BootKvEffect DEF JobPcs, Preparing, Creating, Writing, Deleting
        <4> QED
          BY <1>t, <4>1, Quiet
      <3>2. job'.was = PRE_DELETE /\ pc' = "move_kv"
        BY <1>t, <2>2, <3>1, BootKvEffect
      <3> QED
        BY <1>t, <3>2 DEF Preparing, Creating, Writing
    <2>3. CASE ~GcKv /\ ~BootKv /\ pc \in Preparing \cup Creating \cup Writing
      BY <1>t, <1>2, <2>3 DEF Newest
    <2>4. CASE ~GcKv /\ ~BootKv /\ MoveKv /\ ~HasSuccessor(job.key)
      <3>0. pc = "move_kv"
        BY <1>t, <2>4, MoveKvEffect
      <3>1. CASE job.was = WRITE
        BY <1>t, <1>2, <2>4, <3>0, <3>1 DEF Newest
      <3>2. CASE job.was = PRE_DELETE
        <4>1. in_recovery_check /\ With(k, WRITE) = {}
          BY <1>t, <1>2, <2>4, <3>2, FoundByScan DEF Resumed, HasSuccessor
        <4>2. l \in With(k, PRE_DELETE)
          <5>1. l # NoLoc
            BY <1>t, PlaceNotNoLoc
          <5> QED
            BY <1>t, <1>2, <2>4, <3>0, <5>1 DEF Alone, AloneAt, Replacing
        <4>3. job.val = Kv(l).val /\ job.from = l /\ job.why \in {"gc", "recovery"}
          BY <1>t, <1>2, <2>4 DEF Copied
        <4>4. CASE ~Mixed(k)
          BY <1>2, <2>4, <4>2, <4>3, <4>4 DEF Mixed
        <4>5. CASE Mixed(k)
          <5>1. ASSUME NEW m \in With(k, PRE_DELETE), m # l PROVE Before(l, m)
            <6>1. CASE job.why = "gc"
              BY <1>t, <4>1, <4>3, <4>5, <5>1, <6>1, FirstInGc
            <6>2. CASE job.why = "recovery"
              <7>1. ~Passed(m)
                BY <1>t, <4>3, <5>1, <6>2 DEF NoneLeft, MustBeGone, Handled
              <7>2. it[1] = Turn(l[1]) /\ it[2] = l[2]
                BY <1>t, <4>3, <6>2 DEF Visited
              <7>3. l[1] \in Sector /\ l[2] \in Nat /\ m[1] \in Sector /\ m[2] \in Nat
                BY <1>t, WithIsPlaces, SectorOfPlace
              <7>4. /\ Turn(l[1]) \in Nat /\ Turn(m[1]) \in Nat
                    /\ Turn(l[1]) = Turn(m[1]) => l[1] = m[1]
                BY <1>t, <7>3, TurnType DEF TypeOK
              <7> QED
                BY <7>1, <7>2, <7>3, <7>4 DEF Passed, Before
            <6> QED
              BY <4>3, <6>1, <6>2
          <5>2. Stored(k) = Kv(l).val
            BY <1>t, <4>1, <4>2, <5>1, StoredIs DEF StoredAt, IsFirst
          <5> QED
            BY <1>2, <2>4, <4>3, <5>2
        <4> QED
          BY <4>4, <4>5
      <3> QED
        BY <1>t, <3>1, <3>2 DEF Shape, Registers, JobType
    <2> QED
      BY <1>t, <2>1, <2>2, <2>3, <2>4, IntoNewest
  <1>4. Stored(k)' = Stored(k)
    <2>1. ~(Write /\ job.why = "set") /\ ~(Delete /\ job.why = "del")
      <3>1. job.why = "set" \/ job.why = "del" => GcKv \/ BootKv
        BY <1>2
      <3>2. GcKv \/ BootKv => ~Write /\ ~Delete
        BY DEF GcKv, BootKv, Write, Delete, At
      <3> QED
        BY <3>1, <3>2
    <2> QED
      BY <2>1, StoredKept
  <1> QED
    BY <1>1, <1>3, <1>4 DEF Stored, With

\* The steps that move do_gc over the sectors.
LEMMA LoopStep ==
    ASSUME Shape, Next
    PROVE  \/ Gc \/ GcSector \/ GcFinished \/ GcFormat \/ PowerCut
             \/ /\ (pc' \in GcPcs \ {"gc"} \/ job'.why = "gc") <=> InLoop
                /\ oldest' = oldest
                /\ InLoop => gc'.at = gc.at /\ gc'.left = gc.left
  <1> DEFINE Ahead ==
         \/ Gc \/ GcSector \/ GcFinished \/ GcFormat \/ PowerCut
                \/ /\ (pc' \in GcPcs \ {"gc"} \/ job'.why = "gc") <=> InLoop
                   /\ oldest' = oldest
                   /\ InLoop => gc'.at = gc.at /\ gc'.left = gc.left
  <1> USE DEF InLoop, Shape, Jobs, JobPcs, Preparing, Creating, Writing, Deleting, GcPcs,
     BootPcs, CallPcs
  <1>1. ASSUME NEW k \in Key, NEW v \in ValueOf[k], fdb_kv_set(k, v) PROVE Ahead
    BY <1>1, SetEffect
  <1>2. ASSUME NEW k \in Key, fdb_kv_del(k) PROVE Ahead
    BY <1>2, DelEffect, Empties
  <1>3. ASSUME NewKv("new_kv") PROVE Ahead
    BY <1>3, NewKvEffect, Empties DEF Create
  <1>4. ASSUME NewKv("new_kv_again") PROVE Ahead
    BY <1>4, NewKvEffect, Empties DEF Create
  <1>5. ASSUME PreDelete PROVE Ahead
    BY <1>5, PreDeleteFlash
  <1>6. ASSUME PreDeleteDirty PROVE Ahead
    BY <1>6, WhereNext DEF PreDeleteDirty, At, ram
  <1>7. ASSUME Use PROVE Ahead
    BY <1>7 DEF Use, At, ram
  <1>8. ASSUME PreWrite PROVE Ahead
    BY <1>8, PreWriteEffect DEF ram
  <1>9. ASSUME WriteHeader PROVE Ahead
    BY <1>9, PartFlash DEF ram
  <1>10. ASSUME WriteData PROVE Ahead
    BY <1>10, PartFlash DEF ram
  <1>11. ASSUME Write PROVE Ahead
    BY <1>11, WriteEffect
  <1>12. ASSUME Delete PROVE Ahead
    BY <1>12, DeleteEffect, Empties
  <1>13. ASSUME DeleteDirty PROVE Ahead
    BY <1>13, DeleteDirtyEffect, Empties DEF ram
  <1>14. ASSUME Done PROVE Ahead
    BY <1>14, DoneEffect, Empties DEF ram
  <1>15. ASSUME MoveKv PROVE Ahead
    BY <1>15, MoveKvEffect, Empties DEF Create
  <1>16. ASSUME Gc PROVE Ahead
    BY <1>16, GcEffect
  <1>17. ASSUME GcNotNeeded PROVE Ahead
    BY <1>17, GcEndsEffect, Empties DEF GcNotNeeded, At
  <1>18. ASSUME GcSector PROVE Ahead
    BY <1>18, GcSectorEffect
  <1>19. ASSUME GcFinished PROVE Ahead
    BY <1>19, GcEndsEffect
  <1>20. ASSUME GcKv PROVE Ahead
    BY <1>20, GcKvEffect DEF ram
  <1>21. ASSUME GcErase PROVE Ahead
    BY <1>21 DEF GcErase, At, ram
  <1>22. ASSUME GcFormat PROVE Ahead
    BY <1>22, GcFormatEffect
  <1>23. ASSUME PowerCut PROVE Ahead
    BY <1>23 DEF PowerCut
  <1>24. ASSUME BootHdr PROVE Ahead
    BY <1>24 DEF BootHdr, At, ram
  <1>25. ASSUME BootGc PROVE Ahead
    BY <1>25, BootGcEffect, Empties
  <1>26. ASSUME BootKv PROVE Ahead
    BY <1>26, BootKvEffect, Empties
  <1>27. ASSUME BootEnd PROVE Ahead
    BY <1>27, BootEndEffect, Empties
  <1> QED
    BY <1>1, <1>2, <1>3, <1>4, <1>5, <1>6, <1>7, <1>8, <1>9, <1>10, <1>11, <1>12, <1>13, <1>14,
       <1>15, <1>16, <1>17, <1>18, <1>19, <1>20, <1>21, <1>22, <1>23, <1>24, <1>25, <1>26,
       <1>27 DEF Next, Step, Call

\* Only a power cut starts a recovery.
LEMMA RecoveryStays ==
    ASSUME Next, ~PowerCut, in_recovery_check'
    PROVE  in_recovery_check
  BY DEF Next, Step, Call, NewKv, fdb_kv_set, fdb_kv_del, PreDelete, PreDeleteDirty, Use,
     PreWrite, WriteHeader, WriteData, WritePart, Write, Delete, DeleteDirty, Done, MoveKv, Gc,
     GcNotNeeded, GcSector, GcFinished, GcEnds, GcKv, GcErase, GcFormat, BootHdr, BootGc,
     BootKv, BootEnd, ram

\* No call of fdb_kv_set or fdb_kv_del is at work while the database opens.
LEMMA NoCallInRecovery ==
    ASSUME Shape, in_recovery_check
    PROVE  job.why # "set" /\ job.why # "del"
  <1>1. pc \in JobPcs => pc \notin BootPcs \cup GcPcs
    BY DEF JobPcs, Preparing, Creating, Writing, Deleting, BootPcs, GcPcs
  <1>2. pc \notin JobPcs => job.why = "none"
    BY Quiet
  <1> QED
    BY <1>1, <1>2 DEF Shape, Modes, InGc

\* A recovery adds no outdated KV.
LEMMA MixedBefore ==
    ASSUME Structure, Sound, Faithful, Next, ~PowerCut, in_recovery_check, NEW k \in Key,
        Mixed(k)'
    PROVE  /\ Mixed(k)
           /\ \A l \in With(k, PRE_DELETE)' :
                l \in With(k, PRE_DELETE) \/ (PreDelete /\ l = job.from)
  <1>t. Shape /\ TypeOK /\ Collected /\ Alone /\ Unique /\ WRITE # PRE_DELETE
    BY DEF Structure, Shape, Sound, WRITE, PRE_DELETE
  <1>c. job.why # "set" /\ job.why # "del"
    BY <1>t, NoCallInRecovery
  <1>s. Stored(k)' = Stored(k)
    BY <1>c, StoredKept
  <1>1. CASE ~PreDelete
    <2>1. With(k, PRE_DELETE)' \subseteq With(k, PRE_DELETE)
      BY <1>t, <1>1, WithSteps DEF InUse
    <2>2. PICK l \in With(k, PRE_DELETE)' : Kv(l)'.val # Stored(k)'
      BY DEF Mixed
    <2>3. l \in With(k, PRE_DELETE) /\ l \in Places'
      BY <2>1, <2>2 DEF With
    <2>4. Kv(l)'.val = Kv(l).val
      BY <1>t, <2>3, SameValue
    <2> QED
      BY <1>s, <2>1, <2>2, <2>3, <2>4 DEF Mixed
  <1>2. CASE PreDelete
    <2>0. job.from \in With(job.key, WRITE)
      BY <1>t, <1>2, ActionPc, MarksUnique
    <2>1. With(k, PRE_DELETE)' = With(k, PRE_DELETE) \cup {m \in {job.from} : k = job.key}
      BY <1>t, <1>2, <2>0, WithSteps
    <2>2. PICK l \in With(k, PRE_DELETE)' : Kv(l)'.val # Stored(k)'
      BY DEF Mixed
    <2>3. l \in Places'
      BY <2>2 DEF With
    <2>4. CASE l \in With(k, PRE_DELETE)
      <3>1. Kv(l)'.val = Kv(l).val
        BY <1>t, <2>3, <2>4, SameValue
      <3> QED
        BY <1>2, <1>s, <2>1, <2>2, <2>4, <3>1 DEF Mixed
    <2>5. CASE l = job.from /\ k = job.key
      <3>1. l \in With(k, WRITE)
        BY <2>0, <2>5
      <3>2. Kv(l)'.val = Kv(l).val
        BY <1>t, <2>3, <3>1, SameValue
      <3>3. Stored(k) = Kv(l).val
        BY <1>t, <3>1, StoredIs DEF StoredAt
      <3> QED
        BY <1>s, <2>2, <3>2, <3>3
    <2> QED
      BY <2>1, <2>2, <2>4, <2>5
  <1> QED
    BY <1>1, <1>2

\* The whole flash has at least the room of one sector.
LEMMA MoreThanOne == SECTOR_NUM * SecSize >= SecSize
  BY SizeAssumption

\* do_gc does not skip the dirty sector of a KV ahead of it.
LEMMA SectorAhead ==
    ASSUME Shape, pc = "gc_sector", NEW l \in Places, StillDirty(l), LoopAhead(l)
    PROVE  /\ l[1] - gc.at \in DirtyIn
           /\ \A n \in DirtyIn : (gc.at + n) % SECTOR_NUM = gc.at + n
  <1>1. InLoop
    BY DEF InLoop, GcPcs
  <1>2. gc.at <= l[1] /\ gc.at + gc.left = SECTOR_NUM
    BY <1>1 DEF LoopAhead
  <1>3. gc.at \in 0 .. SECTOR_NUM - 1 /\ l[1] \in 0 .. SECTOR_NUM - 1 /\ SECTOR_NUM \in Nat
        /\ gc.left \in 0 .. SECTOR_NUM
    BY SectorOfPlace, SizeAssumption DEF Shape, Registers, GcType, Sector
  <1>4. l[1] - gc.at \in 0 .. gc.left - 1
    BY <1>2, <1>3
  <1>5. \A n \in 0 .. gc.left - 1 : (gc.at + n) % SECTOR_NUM = gc.at + n
    <2>1. \A x \in 0 .. SECTOR_NUM - 1 : x % SECTOR_NUM = x
      BY <1>3
    <2>2. \A n \in 0 .. gc.left - 1 : gc.at + n \in 0 .. SECTOR_NUM - 1
      BY <1>2, <1>3
    <2> QED
      BY <2>1, <2>2
  <1>6. gc.at + (l[1] - gc.at) = l[1]
    BY <1>3
  <1> QED
    BY <1>4, <1>5, <1>6 DEF DirtyIn, StillDirty

\* do_gc reaches every outdated KV before it comes back to the oldest sector:
\* during recovery it looks at all the sectors, because it asks for more room
\* than the sectors have.
LEMMA AheadStays ==
    ASSUME Structure, Room, Sound, Faithful, Next, ~PowerCut, in_recovery_check,
           NEW k \in Key, Mixed(k), NEW l \in With(k, PRE_DELETE), l \in Places'
    PROVE  LoopAhead(l)'
  <1>t. Shape /\ TypeOK /\ Named /\ Outdated /\ WholeFlash
    BY DEF Structure, Shape, Faithful
  <1>1. StillDirty(l) /\ LoopAhead(l) /\ l \in Places
    BY <1>t, WithIsPlaces DEF Outdated
  <1>2. /\ gc.at \in 0 .. SECTOR_NUM - 1 /\ l[1] \in 0 .. SECTOR_NUM - 1 /\ SECTOR_NUM \in Nat
        /\ gc.left \in 0 .. SECTOR_NUM /\ oldest \in 0 .. SECTOR_NUM - 1
    BY <1>t, <1>1, SectorOfPlace, SizeAssumption DEF Shape, Registers, GcType, Sector, TypeOK
  <1>3. CASE Gc
    <2>1. pc = "gc" /\ pc' = "gc_sector" /\ gc'.left = SECTOR_NUM /\ gc'.at = oldest
            /\ oldest' = oldest
      BY <1>t, <1>3, GcEffect DEF ram
    <2>2. job.why = "none"
      BY <1>t, <2>1, Quiet DEF JobPcs, Preparing, Creating, Writing, Deleting
    <2>3. oldest = 0
      BY <1>1, <2>1, <2>2 DEF LoopAhead, InLoop
    <2> QED
      BY <1>2, <2>1, <2>3 DEF LoopAhead, InLoop, GcPcs
  <1>4. CASE GcSector
    <2>1. pc = "gc_sector" /\ pc' = "gc_kv" /\ oldest' = oldest
      BY <1>t, <1>4, GcSectorEffect DEF ram
    <2>2. /\ l[1] - gc.at \in DirtyIn
          /\ \A n \in DirtyIn : (gc.at + n) % SECTOR_NUM = gc.at + n
      BY <1>t, <1>1, <2>1, SectorAhead
    <2>3. PICK n \in DirtyIn : /\ \A m \in DirtyIn : n <= m
                               /\ gc' = [gc EXCEPT !.at = (gc.at + n) % SECTOR_NUM,
                                         !.left = @ - n, !.i = 1]
      <3>1. DirtyIn \subseteq Nat /\ DirtyIn # {}
        BY <2>2 DEF DirtyIn
      <3>2. \E n \in DirtyIn : \A m \in DirtyIn : n <= m
        BY <3>1, LeastNatural
      <3> QED
        BY <1>4, <3>2 DEF GcSector
    <2>4. gc'.at = gc.at + n /\ gc'.left = gc.left - n /\ n \in 0 .. gc.left - 1
            /\ gc.at + n <= l[1]
      <3>1. gc'.at = gc.at + n /\ gc'.left = gc.left - n
        BY <1>t, <2>2, <2>3 DEF Shape, Registers, GcType
      <3>2. n <= l[1] - gc.at /\ n \in 0 .. gc.left - 1
        BY <2>2, <2>3 DEF DirtyIn
      <3> QED
        BY <1>2, <3>1, <3>2
    <2>5. oldest <= gc.at /\ gc.at + gc.left = SECTOR_NUM
      BY <1>1, <2>1 DEF LoopAhead, InLoop, GcPcs
    <2> QED
      BY <1>2, <2>1, <2>4, <2>5 DEF LoopAhead, InLoop, GcPcs
  <1>5. CASE GcFinished
    <2>1. pc = "gc_sector" /\ DirtyIn = {}
      BY <1>5 DEF GcFinished, At
    <2> QED
      BY <1>t, <1>1, <2>1, SectorAhead
  <1>6. CASE GcFormat
    <2>1. /\ pc = "gc_format" /\ pc' = "gc_sector" /\ oldest' = (gc.at + 1) % SECTOR_NUM
          /\ gc'.at = (gc.at + 1) % SECTOR_NUM
          /\ \/ gc'.left = gc.left - 1
             \/ SecSize > gc.free \/ Remain(gc.last) > gc.free
      BY <1>t, <1>6 DEF GcFormat, At, get_next_sector_addr, Shape, Registers, GcType
    <2>2. gc.free = SECTOR_NUM * SecSize
      <3>1. gc.ret \in {"boot_gc", "boot_kv"}
        BY <1>t, <2>1, Quiet DEF GcPcs
      <3> QED
        BY <1>t, <3>1 DEF WholeFlash
    <2>3. Remain(gc.last) \in Int /\ Remain(gc.last) <= SecSize
      <3>1. PICK s \in Sector : s = gc.last
        BY <1>t DEF Shape, Registers, GcType
      <3> QED
        BY <1>t, <3>1, RemainBound
    <2>4. SecSize \in Nat /\ SECTOR_NUM * SecSize \in Nat /\ SECTOR_NUM * SecSize >= SecSize
      BY SizeAssumption, MoreThanOne
    <2>5. gc'.left = gc.left - 1
      BY <2>1, <2>2, <2>3, <2>4
    <2>6. l[1] # gc.at
      <3>1. sector[gc.at] = Erased /\ gc.at \in Sector
        BY <1>t, <2>1 DEF Shape, GcLoop, Registers, GcType
      <3>2. PICK s \in Sector : s = gc.at
        BY <3>1
      <3> QED
        BY <1>t, <1>1, <3>1, <3>2, NoKvErased
    <2>7. gc.at <= l[1] /\ gc.at + gc.left = SECTOR_NUM
      BY <1>1, <2>1 DEF LoopAhead, InLoop, GcPcs
    <2>8. gc.at + 1 <= l[1] /\ (gc.at + 1) % SECTOR_NUM = gc.at + 1
      BY <1>2, <2>6, <2>7
    <2> QED
      BY <1>2, <2>1, <2>5, <2>7, <2>8 DEF LoopAhead, InLoop, GcPcs
  <1>7. CASE ~Gc /\ ~GcSector /\ ~GcFinished /\ ~GcFormat
    BY <1>t, <1>1, <1>7, LoopStep DEF LoopAhead, InLoop
  <1> QED
    BY <1>3, <1>4, <1>5, <1>6, <1>7

\* When the power fails with an outdated KV left, its sector is dirty already.
LEMMA CutInDelete ==
    ASSUME Structure, Sound, Faithful, ~in_recovery_check, NEW k \in Key, Mixed(k),
           NEW l \in With(k, PRE_DELETE)
    PROVE  StillDirty(l)
  <1>t. /\ Shape /\ TypeOK /\ Alone /\ Unique /\ Resumed /\ NoneLeft /\ MadeDirty /\ Discarded
        /\ WRITE # PRE_DELETE
    BY DEF Structure, Shape, Sound, Faithful, WRITE, PRE_DELETE
  <1>1. l = job.from /\ pc \in JobPcs \ {"delete_dirty", "done"}
    BY <1>t DEF NoneLeft, MustBeGone, Handled
  <1>2. l \in Places /\ Kv(l).key = k /\ l # NoLoc
    BY <1>t, WithIsPlaces, PlaceNotNoLoc DEF With
  <1>3. job.key = k
    BY <1>t, <1>1, <1>2 DEF Shape, Froms
  <1>4. With(k, WRITE) # {}
    BY UnmixedOutside
  <1>5. AloneAt(k)
    BY <1>t, <1>3 DEF Alone
  <1>6. job.was = WRITE
    BY <1>t DEF Resumed, Shape, Registers, JobType
  <1>7. pc # "pre_delete"
    <2>1. l \notin With(k, WRITE)
      BY <1>t DEF With
    <2> QED
      BY <1>1, <1>5, <2>1 DEF AloneAt
  <1>8. pc = "delete"
    BY <1>1, <1>4, <1>5, <1>6, <1>7 DEF AloneAt, Replacing, JobPcs, Preparing, Deleting
  <1>9. CASE job.why = "set"
    BY <1>t, <1>1, <1>2, <1>8, <1>9 DEF MadeDirty
  <1>10. CASE job.why = "gc"
    <2>1. sector[gc.at].dirty = "GC" /\ job.from = <<gc.at, gc.i - 1>>
      BY <1>t, <1>10 DEF Shape, GcLoop
    <2>2. l[1] = gc.at
      BY <1>1, <2>1
    <2> QED
      BY <2>1, <2>2 DEF StillDirty
  <1>11. job.why # "del"
    <2>1. l \notin With(k, WRITE)
      BY <1>t DEF With
    <2> QED
      BY <1>t, <1>1, <1>3, <1>8, <2>1 DEF Discarded
  <1>12. job.why \in {"set", "del", "gc"}
    <2>1. job.why # "recovery" /\ job.why # "none"
      BY <1>t, <1>8 DEF Shape, Modes, Jobs, JobPcs, Deleting
    <2> QED
      BY <1>t, <2>1 DEF Shape, Registers, JobType
  <1> QED
    BY <1>9, <1>10, <1>11, <1>12

\* Outdated KVs stay in dirty sectors, ahead of the collection.
LEMMA NextOutdated ==
    ASSUME Structure, Room, Sound, Faithful, Next
    PROVE  Outdated'
  <1>t. Shape /\ TypeOK /\ Outdated /\ Collected /\ Alone
    BY DEF Structure, Shape, Sound, Faithful
  <1> SUFFICES ASSUME in_recovery_check', NEW k \in Key, Mixed(k)', NEW l \in With(k,
      PRE_DELETE)'
               PROVE  StillDirty(l)' /\ LoopAhead(l)'
    BY DEF Outdated
  <1>p. l \in Places'
    BY DEF With
  <1>1. CASE PowerCut
    <2>1. /\ sector' = sector /\ oldest' = 0 /\ pc' = "boot_hdr" /\ job'.why = "none"
      BY <1>1, Empties DEF PowerCut
    <2>2. LoopAhead(l)'
      BY <2>1 DEF LoopAhead, InLoop, GcPcs
    <2>3. ~Write /\ ~Delete
      BY <1>1, <2>1, <1>t, WriteEffect, DeleteEffect
    <2>4. Stored(k)' = Stored(k)
      BY <2>3, StoredKept
    <2>5. With(k, PRE_DELETE)' = With(k, PRE_DELETE) /\ \A m : Kv(m)' = Kv(m)
      BY <2>1 DEF With, Places, Kv
    <2>6. Mixed(k) /\ l \in With(k, PRE_DELETE)
      BY <2>4, <2>5 DEF Mixed
    <2>7. StillDirty(l)
      BY <1>t, <2>6, CutInDelete DEF Outdated
    <2> QED
      BY <2>1, <2>2, <2>7 DEF StillDirty
  <1>2. CASE ~PowerCut
    <2>1. in_recovery_check
      BY <1>2, RecoveryStays
    <2>2. Mixed(k) /\ (l \in With(k, PRE_DELETE) \/ (PreDelete /\ l = job.from))
      BY <1>2, <2>1, MixedBefore
    <2>3. CASE l \in With(k, PRE_DELETE)
      <3>1. StillDirty(l) /\ l \in Places
        BY <1>t, <2>1, <2>2, <2>3, WithIsPlaces DEF Outdated
      <3>2. StillDirty(l)'
        BY <1>t, <1>p, <3>1, DirtyStays
      <3>3. LoopAhead(l)'
        BY <1>2, <1>p, <2>1, <2>2, <2>3, AheadStays
      <3> QED
        BY <3>2, <3>3
    <2>4. CASE PreDelete /\ l = job.from
      <3>1. pc = "pre_delete" /\ l \in Places
        BY <1>t, <2>4, PreDeleteFlash
      <3>2. job.why = "gc"
        <4>1. job.why # "set"
          BY <1>t, <2>1, NoCallInRecovery
        <4> QED
          BY <1>t, <3>1, <4>1 DEF Shape, Jobs, Preparing
      <3>3. sector[gc.at].dirty = "GC" /\ l = <<gc.at, gc.i - 1>> /\ gc.at \in Sector
        BY <1>t, <2>4, <3>2 DEF Shape, GcLoop, Registers, GcType
      <3>4. StillDirty(l)
        BY <3>3 DEF StillDirty
      <3>5. StillDirty(l)'
        BY <1>t, <1>p, <3>1, <3>4, DirtyStays
      <3>6. PICK m \in With(k, PRE_DELETE) : TRUE
        BY <2>2 DEF Mixed
      <3>7. oldest <= gc.at /\ gc.at + gc.left = SECTOR_NUM
        BY <1>t, <2>1, <2>2, <3>2, <3>6 DEF Outdated, LoopAhead, InLoop
      <3>8. oldest' = oldest /\ gc' = gc /\ job' = job
        BY <1>t, <2>4, PreDeleteFlash
      <3>9. gc.at <= l[1]
        BY <3>3, SizeAssumption DEF Sector
      <3> QED
        BY <3>2, <3>5, <3>7, <3>8, <3>9 DEF LoopAhead, InLoop
    <2> QED
      BY <2>2, <2>3, <2>4
  <1> QED
    BY <1>1, <1>2

\* Every step keeps what the refinement needs.
LEMMA NextFaithful == Structure /\ Room /\ SoundInv /\ FaithfulInv /\ [Next]_vars
  => FaithfulInv'
  <1> SUFFICES ASSUME Structure, Room, SoundInv, FaithfulInv, [Next]_vars, sound'
        PROVE Faithful'
    BY DEF FaithfulInv
  <1>1. CASE Next
    <2>1. sound /\ Sound /\ Faithful
      BY <1>1, SoundBefore DEF SoundInv, FaithfulInv
    <2>2. Shape /\ Collected /\ Cache
      BY <2>1 DEF Structure, Sound
    <2>3. Copied' /\ Visited' /\ Succeeded' /\ Discarded'
      BY <1>1, <2>1, <2>2, NextCopied, NextVisited, NextSucceeded, NextDiscarded DEF Faithful
    <2>4. MadeDirty' /\ Formatted' /\ WholeFlash'
      BY <1>1, <2>1, <2>2, NextMadeDirty, NextFormatted, NextWholeFlash DEF Faithful
    <2>5. Outdated' /\ Newest'
      BY <1>1, <2>1, NextOutdated, NextNewest
    <2> QED
      BY <2>3, <2>4, <2>5 DEF Faithful
  <1>2. CASE UNCHANGED vars
    <2>1. Faithful
      BY <1>2 DEF FaithfulInv, vars, hist
    <2> USE <1>2 DEF vars, ram, hist
    <2>2. \A k, st : With(k, st)' = With(k, st)
      BY DEF With, Places, Kv
    <2>3. /\ \A l : Kv(l)' = Kv(l) /\ StillDirty(l)' = StillDirty(l)
               /\ LoopAhead(l)' = LoopAhead(l)
          /\ \A s : Turn(s)' = Turn(s)
      BY DEF Kv, StillDirty, LoopAhead, InLoop, Turn
    <2>4. \A S : FirstPlace(S)' = FirstPlace(S)
      BY DEF FirstPlace, Before, Turn
    <2>5. \A k : Stored(k)' = Stored(k)
      BY <2>2, <2>4 DEF Stored, Kv
    <2>6. Outdated'
      BY <2>1, <2>2, <2>3, <2>5 DEF Faithful, Outdated, Mixed
    <2>7. Newest' /\ Copied' /\ Visited'
      BY <2>1, <2>5 DEF Faithful, Newest, Copied, Visited, Turn, Kv
    <2>8. Succeeded' /\ Discarded'
      BY <2>1, <2>2 DEF Faithful, Succeeded, Discarded
    <2>9. MadeDirty' /\ Formatted' /\ WholeFlash'
      BY <2>1 DEF Faithful, MadeDirty, Formatted, WholeFlash, StillDirty
    <2> QED
      BY <2>6, <2>7, <2>8, <2>9 DEF Faithful
  <1> QED
    BY <1>1, <1>2

\* It holds of the empty flash of a first start.
LEMMA InitFaithful == Init => FaithfulInv
  <1> SUFFICES ASSUME Init PROVE Faithful
    BY DEF FaithfulInv
  <1>1. \A k, st : With(k, st) = {}
    <2>1. \A s \in Sector : DOMAIN sector[s].kv = {}
      BY DEF Init, Erased
    <2>2. Places = {}
      BY <2>1 DEF Places
    <2> QED
      BY <2>2 DEF With
  <1>2. Outdated
    BY <1>1 DEF Outdated, Mixed
  <1>3. Copied /\ Newest /\ Visited /\ MadeDirty /\ Discarded /\ Succeeded /\ WholeFlash
    BY Empties DEF Init, Copied, Newest, Visited, MadeDirty, Discarded, Succeeded, WholeFlash
  <1>4. Formatted
    BY DEF Init, Formatted, Erased
  <1> QED
    BY <1>2, <1>3, <1>4 DEF Faithful

\* The four inductive invariants together.
THEOREM FaithfulHolds == Spec => [](Structure /\ Room /\ SoundInv /\ FaithfulInv)
  <1>1. Init => FaithfulInv
    BY InitFaithful
  <1>2. Structure /\ Room /\ SoundInv /\ FaithfulInv /\ [Next]_vars => FaithfulInv'
    BY NextFaithful
  <1> QED
    BY <1>1, <1>2, RoomHolds, SoundHolds, PTL DEF Spec

\* The call that has not taken effect, by the phase of the job.
LEMMA PendingIs ==
    Pending = IF op # NoOp THEN op
              ELSE IF Asking THEN [key |-> job.key, val |-> job.val] ELSE NoOp
  BY DEF Pending, Asking, Preparing, Creating, Writing

\* The same in the next state.
LEMMA PendingIsNext ==
    (Pending = IF op # NoOp THEN op
               ELSE IF Asking THEN [key |-> job.key, val |-> job.val] ELSE NoOp)'
  BY PendingIs, PTL

\* A job of a call and a call that waits exclude each other.
LEMMA NotBoth ==
    ASSUME Shape, Asking
    PROVE  op = NoOp
  <1>0. pc \in JobPcs /\ job.why # "gc"
    BY DEF Asking, JobPcs, Deleting
  <1>1. pc \notin GcPcs /\ pc \notin {"new_kv", "new_kv_again"}
    BY <1>0 DEF JobPcs, Preparing, Creating, Writing, Deleting, GcPcs
  <1> QED
    BY <1>0, <1>1 DEF Shape, Modes, InGc

\* Between its beginning and its effect a call keeps its name and value.
LEMMA AskingStep ==
    ASSUME Shape, Next
    PROVE  pc \notin CallPcs /\ ~PowerCut =>
             \/ Write /\ job.why = "set"
             \/ Delete /\ job.why = "del"
             \/ /\ op' = op
                /\ (\/ job'.why = "set" /\ pc' \in Preparing \cup Creating \cup Writing
                    \/ job'.why = "del" /\ pc' = "delete") <=> Asking
                /\ Asking => job'.key = job.key /\ job'.val = job.val
  <1> DEFINE Ahead ==
         pc \notin CallPcs /\ ~PowerCut =>
                \/ Write /\ job.why = "set"
                \/ Delete /\ job.why = "del"
                \/ /\ op' = op
                   /\ (\/ job'.why = "set" /\ pc' \in Preparing \cup Creating \cup Writing
                       \/ job'.why = "del" /\ pc' = "delete") <=> Asking
                   /\ Asking => job'.key = job.key /\ job'.val = job.val
  <1> USE DEF Asking, Shape, Jobs, JobPcs, Preparing, Creating, Writing, Deleting, GcPcs,
     BootPcs, CallPcs
  <1>1. ASSUME NEW k \in Key, NEW v \in ValueOf[k], fdb_kv_set(k, v) PROVE Ahead
    BY <1>1, SetEffect
  <1>2. ASSUME NEW k \in Key, fdb_kv_del(k) PROVE Ahead
    BY <1>2, DelEffect
  <1>3. ASSUME NewKv("new_kv") PROVE Ahead
    BY <1>3, NewKvEffect DEF Create
  <1>4. ASSUME NewKv("new_kv_again") PROVE Ahead
    BY <1>4, NewKvEffect DEF Create
  <1>5. ASSUME PreDelete PROVE Ahead
    BY <1>5, PreDeleteFlash
  <1>6. ASSUME PreDeleteDirty PROVE Ahead
    BY <1>6, WhereNext DEF PreDeleteDirty, At
  <1>7. ASSUME Use PROVE Ahead
    BY <1>7 DEF Use, At
  <1>8. ASSUME PreWrite PROVE Ahead
    BY <1>8, PreWriteEffect
  <1>9. ASSUME WriteHeader PROVE Ahead
    BY <1>9, PartFlash
  <1>10. ASSUME WriteData PROVE Ahead
    BY <1>10, PartFlash
  <1>11. ASSUME Write PROVE Ahead
    BY <1>11, WriteEffect
  <1>12. ASSUME Delete PROVE Ahead
    BY <1>12, DeleteEffect
  <1>13. ASSUME DeleteDirty PROVE Ahead
    BY <1>13, DeleteDirtyEffect
  <1>14. ASSUME Done PROVE Ahead
    BY <1>14, DoneEffect
  <1>15. ASSUME MoveKv PROVE Ahead
    BY <1>15, MoveKvEffect DEF Create
  <1>16. ASSUME Gc PROVE Ahead
    BY <1>16, GcEffect
  <1>17. ASSUME GcNotNeeded PROVE Ahead
    BY <1>17, GcEndsEffect
  <1>18. ASSUME GcSector PROVE Ahead
    BY <1>18, GcSectorEffect
  <1>19. ASSUME GcFinished PROVE Ahead
    BY <1>19, GcEndsEffect
  <1>20. ASSUME GcKv PROVE Ahead
    BY <1>20, GcKvEffect
  <1>21. ASSUME GcErase PROVE Ahead
    BY <1>21 DEF GcErase, At
  <1>22. ASSUME GcFormat PROVE Ahead
    BY <1>22, GcFormatEffect
  <1>23. ASSUME PowerCut PROVE Ahead
    BY <1>23 DEF PowerCut
  <1>24. ASSUME BootHdr PROVE Ahead
    BY <1>24 DEF BootHdr, At
  <1>25. ASSUME BootGc PROVE Ahead
    BY <1>25, BootGcEffect
  <1>26. ASSUME BootKv PROVE Ahead
    BY <1>26, BootKvEffect
  <1>27. ASSUME BootEnd PROVE Ahead
    BY <1>27, BootEndEffect
  <1> QED
    BY <1>1, <1>2, <1>3, <1>4, <1>5, <1>6, <1>7, <1>8, <1>9, <1>10, <1>11, <1>12, <1>13, <1>14,
       <1>15, <1>16, <1>17, <1>18, <1>19, <1>20, <1>21, <1>22, <1>23, <1>24, <1>25, <1>26,
       <1>27 DEF Next, Step, Call

\* fdb_kv_set takes effect when its KV gets the status WRITE.
LEMMA WriteTakesEffect ==
    ASSUME Structure, Sound, Faithful, Next, Write, job.why = "set"
    PROVE  CallDone
  <1>t. Shape /\ TypeOK /\ Unique /\ Collected /\ TypeOK' /\ Unique'
    BY NextTyped, NextUnique DEF Structure, Shape, Sound
  <1>1. /\ pc = "write" /\ pc' \in {"done", "delete"} /\ job.key \in Key /\ op' = op
             /\ job' = job
    BY <1>t, WriteEffect
  <1>2. Asking /\ ~Asking' /\ op = NoOp
    BY <1>t, <1>1, NotBoth DEF Asking, Preparing, Creating, Writing
  <1>3. Pending = [key |-> job.key, val |-> job.val] /\ Pending' = NoOp
    BY <1>1, <1>2, PendingIs, PendingIsNext
  <1>4. PICK k \in Key : k = job.key
    BY <1>1
  <1>5. /\ \A j \in Key : /\ With(j, PRE_DELETE)' = With(j, PRE_DELETE)
                          /\ j # k => With(j, WRITE)' = With(j, WRITE)
        /\ job.to \in With(k, WRITE)'
    <2>1. \A j \in Key : /\ With(j, PRE_DELETE)' = With(j, PRE_DELETE)
                         /\ With(j, WRITE)' = With(j, WRITE) \cup {m \in {job.to} : j = job.key}
      BY <1>t, WithSteps
    <2> QED
      BY <1>4, <2>1
  <1>6. \A j \in Key \ {k} : Stored(j)' = Stored(j)
    BY <1>t, <1>5, StoredKeptBySame
  <1>7. Stored(k)' = job.val
    <2>1. PICK l \in Places :
             /\ l = job.to
             /\ Kv(l) = [key |-> job.key, val |-> job.val, status |-> PRE_WRITE,
                         part |-> "whole"]
             /\ Kv(l)' = [Kv(l) EXCEPT !.status = WRITE]
      BY <1>t, WriteFlash
    <2>2. Kv(l)'.val = job.val /\ l \in With(k, WRITE)'
      BY <1>5, <2>1
    <2> QED
      BY <1>t, <2>2, StoredIsNext DEF StoredAt
  <1>8. Pending # NoOp
    <2>1. job.key # NoValue
      BY <1>1, NameAssumption
    <2> QED
      BY <1>3, <2>1 DEF NoOp
  <1> QED
    BY <1>3, <1>4, <1>6, <1>7, <1>8 DEF CallDone

\* fdb_kv_del takes effect when its KV gets the status DELETED: no older KV
\* of the name comes back.
LEMMA DeleteTakesEffect ==
    ASSUME Structure, Sound, Faithful, Next, Delete, job.why = "del"
    PROVE  CallDone
  <1>t. /\ Shape /\ TypeOK /\ Unique /\ Collected /\ NoneLeft /\ Discarded /\ TypeOK' /\ Unique'
        /\ WRITE # PRE_DELETE
    BY NextTyped, NextUnique DEF Structure, Shape, Sound, Faithful, WRITE, PRE_DELETE
  <1>1. /\ pc = "delete" /\ pc' # "delete" /\ op' = op /\ pc \in JobPcs
        /\ job'.why \in {"del", "none"}
    BY <1>t, DeleteEffect, Empties DEF JobPcs, Deleting
  <1>2. Asking /\ ~Asking' /\ op = NoOp
    BY <1>t, <1>1, NotBoth DEF Asking
  <1>3. Pending = [key |-> job.key, val |-> job.val] /\ Pending' = NoOp
    BY <1>1, <1>2, PendingIs, PendingIsNext
  <1>4. PICK k \in Key : k = job.key
    BY <1>t, <1>1 DEF Shape, Jobs
  <1>5. job.from \in With(k, WRITE) /\ job.val = NoValue
    BY <1>t, <1>1, <1>4 DEF Discarded
  <1>6. \A j \in Key : /\ With(j, WRITE)' = With(j, WRITE) \ {job.from}
                       /\ With(j, PRE_DELETE)' = With(j, PRE_DELETE) \ {job.from}
    BY <1>t, WithSteps DEF InUse
  <1>7. ASSUME NEW j \in Key \ {k} PROVE Stored(j)' = Stored(j)
    <2>1. job.from \notin With(j, WRITE) /\ job.from \notin With(j, PRE_DELETE)
      BY <1>5, <1>7 DEF With
    <2> QED
      BY <1>t, <1>6, <2>1, StoredKeptBySame
  <1>8. Stored(k)' = NoValue
    <2>1. With(k, WRITE)' = {}
      BY <1>t, <1>5, <1>6 DEF Unique
    <2>2. ~in_recovery_check
      BY <1>t, NoCallInRecovery
    <2>3. With(k, PRE_DELETE)' = {}
      BY <1>t, <1>6, <2>2, OnlyHandled
    <2> QED
      BY <1>t, <2>1, <2>3, StoredIsNext DEF StoredAt
  <1>9. Pending # NoOp
    <2>1. job.key # NoValue
      BY <1>4, NameAssumption
    <2> QED
      BY <1>3, <2>1 DEF NoOp
  <1> QED
    BY <1>3, <1>4, <1>5, <1>7, <1>8, <1>9 DEF CallDone

\* A call asks for one value.
LEMMA CallSteps ==
    ASSUME Structure, Sound, Faithful, Next, Call
    PROVE  CallMade
  <1>t. Shape
    BY DEF Structure
  <1>1. pc = "idle"
    BY DEF Call, fdb_kv_set, fdb_kv_del, At
  <1>2. Pending = NoOp
    <2>1. op = NoOp /\ job.why = "none"
      BY <1>t, <1>1, Quiet DEF JobPcs, GcPcs, Preparing, Creating, Writing, Deleting
    <2> QED
      BY <2>1, PendingIs DEF Asking
  <1>3. StoredStays
    <2>1. ~Write /\ ~Delete
      BY <1>1 DEF Write, Delete, At
    <2> QED
      BY <2>1, StoredKept DEF StoredStays
  <1>4. ASSUME NEW k \in Key, NEW v \in ValueOf[k], fdb_kv_set(k, v)
        PROVE  Pending' = [key |-> k, val |-> v] /\ v \in Value
    <2>1. op' = [key |-> k, val |-> v] /\ v \in Value
      BY <1>4, SizeAssumption DEF fdb_kv_set
    <2>2. op' # NoOp
      BY <2>1, NameAssumption DEF NoOp
    <2> QED
      BY <2>1, <2>2, PendingIsNext
  <1>5. ASSUME NEW k \in Key, fdb_kv_del(k)
        PROVE  Pending' = [key |-> k, val |-> NoValue]
    <2>1. /\ op' = op /\ pc' = "delete" /\ job'.key = k /\ job'.val = NoValue
               /\ job'.why = "del"
      BY <1>5 DEF fdb_kv_del, NoJob
    <2>2. op = NoOp
      BY <1>t, <1>1, Quiet DEF JobPcs, GcPcs, Preparing, Creating, Writing, Deleting
    <2>3. Asking'
      BY <2>1 DEF Asking
    <2> QED
      BY <2>1, <2>2, <2>3, PendingIsNext
  <1>6. \E k \in Key, v \in Value \cup {NoValue} : Pending' = [key |-> k, val |-> v]
    <2>1. CASE \E k \in Key : \E v \in ValueOf[k] : fdb_kv_set(k, v)
      <3>1. PICK k \in Key : \E v \in ValueOf[k] : fdb_kv_set(k, v)
        BY <2>1
      <3>2. PICK v \in ValueOf[k] : fdb_kv_set(k, v)
        BY <3>1
      <3> QED
        BY <1>4, <3>2
    <2>2. CASE \E k \in Key : fdb_kv_del(k)
      BY <1>5, <2>2
    <2> QED
      BY <2>1, <2>2 DEF Call
  <1> QED
    BY <1>2, <1>3, <1>6 DEF CallMade

\* new_kv hands the call over to its job, waits for a collection, or fails.
LEMMA NewKvSteps ==
    ASSUME Structure, Sound, Faithful, Next, NEW p \in {"new_kv", "new_kv_again"}, NewKv(p)
    PROVE  StoredStays /\ (Pending' = Pending \/ Pending' = NoOp)
  <1>t. Shape
    BY DEF Structure
  <1>1. pc = p /\ op # NoOp /\ op \in [key: Key, val: Value]
    BY <1>t, NewKvEffect DEF Shape, Registers
  <1>2. Pending = op
    BY <1>1, PendingIs
  <1>3. StoredStays
    <2>1. ~Write /\ ~Delete
      BY <1>1 DEF Write, Delete, At
    <2> QED
      BY <2>1, StoredKept DEF StoredStays
  <1>q. job.why = "none"
    BY <1>t, <1>1, Quiet DEF JobPcs, Preparing, Creating, Writing, Deleting
  <1>4. CASE op' = op
    BY <1>1, <1>2, <1>3, <1>4, PendingIsNext
  <1>5. CASE op' = NoOp /\ job' = job
    BY <1>3, <1>5, <1>q, PendingIsNext DEF Asking
  <1>6. CASE /\ op' = NoOp /\ job'.key = op.key /\ job'.val = op.val /\ job'.why = "set"
             /\ pc' \in {"use", "pre_write", "pre_delete"}
    <2>1. Asking'
      BY <1>6 DEF Asking, Preparing, Creating, Writing
    <2>2. Pending' = [key |-> op.key, val |-> op.val]
      BY <1>6, <2>1, PendingIsNext
    <2>3. op = [key |-> op.key, val |-> op.val]
      BY <1>1
    <2> QED
      BY <1>2, <1>3, <2>2, <2>3
  <1> QED
    BY <1>t, <1>4, <1>5, <1>6, NewKvEffect DEF Create

\* Every step of the sound store is a step of KVStore or none.
LEMMA StoreSteps ==
    ASSUME Structure, Sound, Faithful, Next
    PROVE  \/ CallMade \/ CallDone
           \/ StoredStays /\ (Pending' = Pending \/ Pending' = NoOp)
  <1>t. Shape
    BY DEF Structure
  <1>1. CASE pc \in CallPcs /\ ~PowerCut
    BY <1>1, StepAt, CallSteps, NewKvSteps DEF CallPcs
  <1>2. CASE PowerCut
    <2>1. op' = NoOp /\ ~Asking' /\ pc' = "boot_hdr"
      BY <1>2, Empties DEF PowerCut, Asking
    <2>2. ~Write /\ ~Delete
      BY <1>t, <2>1, WriteEffect, DeleteEffect
    <2> QED
      BY <2>1, <2>2, PendingIsNext, StoredKept DEF StoredStays
  <1>3. CASE Write /\ job.why = "set"
    BY <1>3, WriteTakesEffect
  <1>4. CASE Delete /\ job.why = "del"
    BY <1>4, DeleteTakesEffect
  <1>5. CASE pc \notin CallPcs /\ ~PowerCut /\ ~(Write /\ job.why = "set") /\ ~(Delete
               /\ job.why = "del")
    <2>1. /\ op' = op /\ (Asking' <=> Asking)
          /\ Asking => job'.key = job.key /\ job'.val = job.val
      BY <1>t, <1>5, AskingStep DEF Asking
    <2>2. Pending' = Pending
      BY <2>1, PendingIs, PendingIsNext
    <2> QED
      BY <1>5, <2>2, StoredKept DEF StoredStays
  <1> QED
    BY <1>1, <1>2, <1>3, <1>4, <1>5

\* sound is a truth value.
LEMMA SoundIsBoolean == Spec => [](sound \in BOOLEAN)
  <1>1. Init => sound \in BOOLEAN
    BY DEF Init
  <1>2. sound \in BOOLEAN /\ [Next]_vars => (sound \in BOOLEAN)'
    BY DEF Next, Step, Call, NewKv, fdb_kv_set, fdb_kv_del, PreDelete, PreDeleteDirty, Use,
       PreWrite,
         WriteHeader, WriteData, WritePart, Write, Delete, DeleteDirty, Done, MoveKv, Gc,
            GcNotNeeded,
         GcSector, GcFinished, GcEnds, GcKv, GcErase, GcFormat, BootHdr, BootGc, BootKv,
            BootEnd,
         PowerCut, hist, vars
  <1> QED
    BY <1>1, <1>2, PTL DEF Spec

\* Nothing is stored at the first start.
LEMMA InitStores == Init => Store!Init
  <1> SUFFICES ASSUME Init PROVE Store!Init
    OBVIOUS
  <1>1. \A k \in Key : Stored(k) = NoValue
    <2>1. \A s \in Sector : DOMAIN sector[s].kv = {}
      BY DEF Init, Erased
    <2>2. \A k, st : With(k, st) = {}
      BY <2>1 DEF Places, With
    <2> QED
      BY <2>2 DEF Stored
  <1>2. Pending = NoOp
    BY Empties DEF Init, Pending
  <1>3. sound = TRUE
    BY DEF Init
  <1> QED
    BY <1>1, <1>2, <1>3 DEF Store!Init, Store!Nothing, NoOp

\* The step of the refinement.
LEMMA NextStores ==
    ASSUME Everything, [Next]_vars, sound' \in BOOLEAN
    PROVE  [Store!Next]_(Store!vars)
  <1> DEFINE K == [k \in Key |-> Stored(k)]
  <1>0. sound \in BOOLEAN
    BY DEF Everything
  <1>1. CASE ~sound
    BY <1>1 DEF Store!Next
  <1>2. CASE ~sound'
    BY <1>2 DEF Store!Next, Store!Breaks
  <1>3. CASE sound /\ sound' /\ Next
    <2>0. sound' = sound
      BY <1>0, <1>3
    <2>1. Structure /\ Sound /\ Faithful
      BY <1>3 DEF Everything, SoundInv, FaithfulInv
    <2>2. CASE CallMade
      <3>1. [k \in Key |-> Stored(k)'] = [k \in Key |-> Stored(k)]
        BY <2>2 DEF CallMade, StoredStays
      <3>2. PICK k \in Key, v \in Value \cup {NoValue} :
                    Pending' = [key |-> k, val |-> v] /\ Pending = NoOp
        BY <2>2 DEF CallMade
      <3>3. Store!Ask(k, v)
        BY <2>0, <3>1, <3>2 DEF Store!Ask, Store!Nothing, NoOp
      <3> QED
        BY <3>3 DEF Store!Next
    <2>3. CASE CallDone
      <3>1. PICK k \in Key : /\ k = Pending.key
                      /\ Stored(k)' = Pending.val
                      /\ \A j \in Key \ {k} : Stored(j)' = Stored(j)
        BY <2>3 DEF CallDone
      <3>2. [j \in Key |-> Stored(j)'] = [[j \in Key |-> Stored(j)] EXCEPT ![k] = Pending.val]
        BY <3>1
      <3>3. Store!TakesEffect
        BY <2>0, <2>3, <3>1, <3>2 DEF CallDone, Store!TakesEffect, Store!Nothing, NoOp
      <3> QED
        BY <3>3 DEF Store!Next
    <2>4. CASE StoredStays /\ (Pending' = Pending \/ Pending' = NoOp)
      <3>1. [k \in Key |-> Stored(k)'] = [k \in Key |-> Stored(k)]
        BY <2>4 DEF StoredStays
      <3> QED
        BY <2>0, <2>4, <3>1 DEF Store!Next, Store!Fails, Store!Nothing, Store!vars, NoOp
    <2> QED
      BY <1>3, <2>1, <2>2, <2>3, <2>4, StoreSteps
  <1>4. CASE UNCHANGED vars
    <2> USE <1>4 DEF vars, ram, hist
    <2>1. \A k, st : With(k, st)' = With(k, st)
      BY DEF With, Places, Kv
    <2>2. \A S : FirstPlace(S)' = FirstPlace(S)
      BY DEF FirstPlace, Before, Turn
    <2>3. \A k : Stored(k)' = Stored(k)
      BY <2>1, <2>2 DEF Stored, Kv
    <2>4. Pending' = Pending
      BY DEF Pending
    <2>5. [k \in Key |-> Stored(k)'] = [k \in Key |-> Stored(k)]
      BY <2>3
    <2> QED
      BY <2>4, <2>5 DEF Store!vars
  <1> QED
    BY <1>1, <1>2, <1>3, <1>4

\* FlashDB's store is an atomic map: a call of fdb_kv_set or fdb_kv_del takes
\* effect at one moment or not at all, and neither garbage collection nor
\* recovery nor a power cut at any moment ever changes what is stored, for any
\* number of keys, values, sectors and power cuts, as long as the store is
\* sound.
THEOREM StoreIsAtomicThm == Spec => StoreIsAtomic
  <1>1. Spec => []Everything
    BY FaithfulHolds, SoundIsBoolean, PTL DEF Everything
  <1>2. Everything /\ Everything' /\ [Next]_vars => [Store!Next]_(Store!vars)
    BY NextStores DEF Everything
  <1> QED
    BY <1>1, <1>2, InitStores, PTL DEF Spec, StoreIsAtomic, Store!Spec
===============================================================================
