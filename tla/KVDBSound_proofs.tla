---------------------------- MODULE KVDBSound_proofs ----------------------------
(***************************************************************************)
(* Proofs about what the key-value store of FlashDB finds again: as long   *)
(* as no recovery ended early or without room, a name has one KV in use,   *)
(* the cache leads to it, and no collection or recovery leaves one behind. *)
(***************************************************************************)
EXTENDS KVDB_proofs

InUse == {WRITE, PRE_DELETE}

\* The old KV of the job is prepared for deletion, its successor not yet in use.
Replacing == pc \in {"pre_delete_dirty", "move_kv"} \cup Creating \cup Writing

Unique == \A k \in Key : \A l, m \in With(k, WRITE) : l = m

\* What the name of the job has in the flash, phase by phase.
AloneAt(k) ==
    /\ pc \in Creating \cup Writing => With(k, WRITE) = {}
    /\ Replacing /\ job.was = WRITE => With(k, WRITE) = {}
    /\ pc = "pre_delete" => job.from \in With(k, WRITE)
    /\ Replacing /\ job.from # NoLoc => job.from \in With(k, PRE_DELETE)
    /\ pc = "delete" /\ job.why # "del" => job.from \in With(k, PRE_DELETE)

Alone == \A k \in Key : k = job.key => AloneAt(k)

\* Only the recovery takes up a KV that was marked before.
Resumed == job.was = PRE_DELETE => in_recovery_check

Handled(l) == l = job.from /\ pc \in JobPcs \ {"delete_dirty", "done"}

\* Where no half-deleted KV may be left but the one at hand.
MustBeGone(l) ==
    \/ ~in_recovery_check
    \/ pc = "boot_end" /\ ~gc_request
    \/ (pc = "boot_kv" \/ job.why = "recovery") /\ Passed(l)

NoneLeft == \A k \in Key : \A l \in With(k, PRE_DELETE) : MustBeGone(l) => Handled(l)

\* A cached address is that of the KV in use, or of the one being replaced.
CacheAt(k) ==
    \/ kv_cache[k] = NoLoc
    \/ kv_cache[k] \in With(k, WRITE)
    \/ Replacing /\ job.was = WRITE /\ k = job.key /\ kv_cache[k] = job.from

Cache == \A k \in Key : CacheAt(k)

\* last_is_complete_del belongs to the replacement that is under way.
Flag == last_is_complete_del =>
           /\ Replacing \/ pc = "delete"
           /\ job.why \in {"set", "gc"} /\ job.was = WRITE /\ job.from # NoLoc

Collecting == pc \in {"gc_kv", "gc_erase"} \/ job.why = "gc"

ToBeMoved(l) ==
    l[1] = gc.at => \/ pc # "gc_erase" /\ l[2] >= gc.i
                    \/ job.why = "gc" /\ l = job.from /\ pc # "delete_dirty"

\* A KV in use in the sector that is collected is still ahead of do_gc.
Collected == Collecting => \A k \in Key, st \in InUse : \A l \in With(k, st) : ToBeMoved(l)

Sound == Unique /\ Alone /\ Resumed /\ NoneLeft /\ Cache /\ Flag /\ Collected

\* The inductive invariant, next to Structure.
SoundInv == sound => Sound

\* Writing one KV adds and takes away that KV only.
LEMMA Rewritten ==
    ASSUME NEW l \in Places, NEW y, Places' = Places, Kv(l)' = y,
           \A m \in Places \ {l} : Kv(m)' = Kv(m)
    PROVE  \A k, st : With(k, st)' = (With(k, st) \ {l})
                \cup {m \in {l} : y.key = k /\ y.part = "whole" /\ y.status = st}
  <1> SUFFICES ASSUME NEW k, NEW st
               PROVE  With(k, st)' = (With(k, st) \ {l})
                        \cup {m \in {l} : y.key = k /\ y.part = "whole" /\ y.status = st}
    OBVIOUS
  <1>1. With(k, st)' = {m \in Places : Kv(m)'.key = k /\ Kv(m)'.part = "whole"
          /\ Kv(m)'.status = st}
    BY DEF With
  <1>2. With(k, st) = {m \in Places : Kv(m).key = k /\ Kv(m).part = "whole"
          /\ Kv(m).status = st}
    BY DEF With
  <1>3. \A m \in Places : m \in With(k, st)' <=>
          IF m = l THEN y.key = k /\ y.part = "whole" /\ y.status = st ELSE m \in With(k, st)
    BY <1>1, <1>2
  <1> QED
    BY <1>1, <1>2, <1>3

\* Without a write the KVs of a name stay.
LEMMA SameWith == SameKvs => \A k, st : With(k, st)' = With(k, st)
  BY DEF SameKvs, With

\* A place is a sector and a positive index.
LEMMA SectorOfPlace == ASSUME TypeOK, NEW l \in Places PROVE l = <<l[1], l[2]>>
  /\ l[1] \in Sector /\ l[2] \in Nat /\ l[2] > 0
  <1>1. l \in Loc
    BY PlaceFacts
  <1> QED
    BY <1>1 DEF Loc

\* How the KVs in use of a name change: by the three status writes only.
LEMMA WithSteps ==
    ASSUME Structure, Collected, Next
    PROVE  /\ ~PreDelete /\ ~Write /\ ~Delete
                => \A k \in Key, st \in InUse : With(k, st)' = With(k, st)
           /\ Delete => \A k \in Key, st \in InUse : With(k, st)' = With(k, st) \ {job.from}
           /\ Write => \A k \in Key : /\ With(k, PRE_DELETE)' = With(k, PRE_DELETE)
                                      /\ With(k, WRITE)' = With(k,
                                          WRITE) \cup {m \in {job.to} : k = job.key}
           /\ PreDelete /\ job.from \in With(job.key, WRITE) =>
                \A k \in Key : /\ With(k, WRITE)' = With(k, WRITE) \ {job.from}
                               /\ With(k, PRE_DELETE)' = With(k,
                                   PRE_DELETE) \cup {m \in {job.from} : k = job.key}
  <1>t. TypeOK /\ Named /\ Shape
    BY DEF Structure, Shape
  <1>k. \A l \in Places : Kv(l) \in KvType /\ Kv(l).status \in Nat
    BY <1>t, PlaceFacts DEF KvType, PRE_WRITE, ERR_HDR
  <1>s. PRE_WRITE = 1 /\ WRITE = 2 /\ PRE_DELETE = 3 /\ DELETED = 4 /\ ERR_HDR = 5
          /\ InUse = {2, 3}
    BY DEF PRE_WRITE, WRITE, PRE_DELETE, DELETED, ERR_HDR, InUse
  <1>1. ASSUME PreDelete, job.from \in With(job.key, WRITE), NEW k \in Key
        PROVE  /\ With(k, WRITE)' = With(k, WRITE) \ {job.from}
               /\ With(k, PRE_DELETE)' = With(k,
                                              PRE_DELETE) \cup {m \in {job.from} : k = job.key}
    <2>1. PICK l \in Places : /\ l = job.from /\ Kv(l)' = Advance(l, PRE_DELETE)
                 /\ Places' = Places
                              /\ \A m \in Places \ {l} : Kv(m)' = Kv(m)
      BY <1>1, <1>t, PreDeleteFlash
    <2>2. Kv(l).key = job.key /\ Kv(l).part = "whole" /\ Kv(l).status = WRITE
      BY <1>1, <2>1 DEF With
    <2>3. \A st : With(k, st)' = (With(k, st) \ {l})
                  \cup {m \in {l} : Kv(l).key = k /\ Kv(l).part = "whole" /\ PRE_DELETE = st}
      <3> DEFINE y == Advance(l, PRE_DELETE)
      <3>1. y.key = Kv(l).key /\ y.part = Kv(l).part /\ y.status = PRE_DELETE
        BY <1>t, <1>s, <2>2, AdvanceKeeps
      <3>2. Kv(l)' = y
        BY <2>1
      <3> HIDE DEF y
      <3>3. \A st : With(k, st)' = (With(k, st) \ {l}) \cup {m \in {l} : y.key = k
              /\ y.part = "whole" /\ y.status = st}
        BY <2>1, <3>2, Rewritten
      <3> QED
        BY <3>1, <3>3
    <2>4. l \notin With(k, PRE_DELETE)
      BY <2>2, <1>s DEF With
    <2>5. WRITE # PRE_DELETE
      BY <1>s
    <2> QED
      BY <2>1, <2>2, <2>3, <2>4, <2>5
  <1>2. ASSUME Delete, NEW k \in Key, NEW st \in InUse
        PROVE  With(k, st)' = With(k, st) \ {job.from}
    <2>1. PICK l \in Places : /\ l = job.from /\ Kv(l)' = Advance(l, DELETED)
                 /\ Places' = Places
                              /\ \A m \in Places \ {l} : Kv(m)' = Kv(m)
      BY <1>2, <1>t, DeleteFlash
    <2> DEFINE y == Advance(l, DELETED)
    <2>2. y.status # st
      BY <1>t, <1>s, <1>k, AdvanceKeeps
    <2>3. Kv(l)' = y
      BY <2>1
    <2> HIDE DEF y
    <2>4. With(k, st)' = (With(k, st) \ {l}) \cup {m \in {l} : y.key = k
            /\ y.part = "whole" /\ y.status = st}
      BY <2>1, <2>3, Rewritten
    <2> QED
      BY <2>1, <2>2, <2>4
  <1>3. ASSUME Write, NEW k \in Key
        PROVE  /\ With(k, PRE_DELETE)' = With(k, PRE_DELETE)
               /\ With(k, WRITE)' = With(k, WRITE) \cup {m \in {job.to} : k = job.key}
    <2>1. PICK l \in Places :
             /\ l = job.to /\ Places' = Places
             /\ Kv(l) = [key |-> job.key, val |-> job.val, status |-> PRE_WRITE,
                         part |-> "whole"]
             /\ Kv(l)' = [Kv(l) EXCEPT !.status = WRITE]
             /\ \A m \in Places \ {l} : Kv(m)' = Kv(m)
      BY <1>3, <1>t, WriteFlash
    <2> DEFINE y == [Kv(l) EXCEPT !.status = WRITE]
    <2>2. y.key = job.key /\ y.part = "whole" /\ y.status = WRITE
      BY <2>1
    <2>3. Kv(l)' = y
      BY <2>1
    <2> HIDE DEF y
    <2>4. \A st : With(k, st)' = (With(k, st) \ {l}) \cup {m \in {l} : y.key = k
            /\ y.part = "whole" /\ y.status = st}
      BY <2>1, <2>3, Rewritten
    <2>5. l \notin With(k, PRE_DELETE) /\ l \notin With(k, WRITE)
      BY <2>1, <1>s DEF With
    <2>6. WRITE # PRE_DELETE
      BY <1>s
    <2> QED
      BY <2>1, <2>2, <2>4, <2>5, <2>6
  <1>4. ASSUME ~PreDelete, ~Write, ~Delete, NEW k \in Key, NEW st \in InUse
        PROVE  With(k, st)' = With(k, st)
    <2>1. CASE SameKvs
      BY <2>1, SameWith
    <2>2. CASE sector' = sector
      BY <2>1, <2>2, <1>t, SameFlash
    <2>3. CASE PreDeleteDirty
      <3>1. pc = "pre_delete_dirty" /\ MakeDirty
        BY <2>3 DEF PreDeleteDirty, At
      <3> QED
        BY <1>t, <2>1, <3>1, FromDirty
    <2>4. CASE DeleteDirty
      BY <1>t, <2>1, <2>4, DeleteDirtyEffect, FromDirty
    <2>5. CASE Use
      BY <1>t, <2>1, <2>5, UseFlash
    <2>6. CASE GcSector
      BY <1>t, <2>1, <2>6, GcSectorFlash
    <2>7. CASE PreWrite
      <3>1. PICK l \in Loc :
               /\ l \notin Places /\ Places' = Places \cup {l}
               /\ Kv(l)' = NewKvRecord(job.key, job.val)
               /\ \A m \in Places : Kv(m)' = Kv(m)
        BY <1>t, <2>7, PreWriteFlash
      <3>2. Kv(l)'.part = "status"
        BY <3>1 DEF NewKvRecord
      <3> QED
        BY <3>1, <3>2 DEF With
    <2>8. CASE WriteHeader \/ WriteData
      <3>1. PICK l \in Places :
              /\ l = job.to /\ Places' = Places
              /\ Kv(l)' = [Kv(l) EXCEPT !.part = IF pc = "header" THEN "header" ELSE "whole"]
              /\ \A m \in Places \ {l} : Kv(m)' = Kv(m)
        BY <1>t, <2>8, PartFlash
      <3>2. Kv(l).status = PRE_WRITE
        <4>1. pc \in {"header", "data"}
          BY <1>t, <2>8, PartFlash
        <4> QED
          BY <4>1, <3>1, <1>t DEF Shape, Tos, Writing
      <3> DEFINE y == [Kv(l) EXCEPT !.part = IF pc = "header" THEN "header" ELSE "whole"]
      <3>3. y.status = PRE_WRITE
        BY <1>k, <3>2 DEF KvType
      <3>4. Kv(l)' = y
        BY <3>1
      <3> HIDE DEF y
      <3>5. With(k, st)' = (With(k, st) \ {l}) \cup {m \in {l} : y.key = k
              /\ y.part = "whole" /\ y.status = st}
        BY <3>1, <3>4, Rewritten
      <3>6. l \notin With(k, st)
        BY <3>2, <1>s DEF With
      <3> QED
        BY <3>3, <3>5, <3>6, <1>s
    <2>9. CASE BootKv
      <3>1. CASE \E l \in Places :
                   /\ Kv(l).status = PRE_WRITE /\ Places' = Places
                   /\ Kv(l)' = [Kv(l) EXCEPT !.status = ERR_HDR]
                   /\ \A m \in Places \ {l} : Kv(m)' = Kv(m)
        <4>1. PICK l \in Places :
                   /\ Kv(l).status = PRE_WRITE /\ Places' = Places
                   /\ Kv(l)' = [Kv(l) EXCEPT !.status = ERR_HDR]
                   /\ \A m \in Places \ {l} : Kv(m)' = Kv(m)
          BY <3>1
        <4> DEFINE y == [Kv(l) EXCEPT !.status = ERR_HDR]
        <4>2. y.status = ERR_HDR
          BY <1>k DEF KvType
        <4>3. Kv(l)' = y
          BY <4>1
        <4> HIDE DEF y
        <4>4. With(k, st)' = (With(k, st) \ {l}) \cup {m \in {l} : y.key = k
                /\ y.part = "whole" /\ y.status = st}
          BY <4>1, <4>3, Rewritten
        <4>5. l \notin With(k, st)
          BY <4>1, <1>s DEF With
        <4> QED
          BY <4>2, <4>4, <4>5, <1>s
      <3> QED
        BY <1>t, <2>1, <2>9, <3>1, BootKvFlash
    <2>10. CASE GcErase \/ GcFormat
      <3>1. PICK s \in Sector :
                /\ s = gc.at /\ Places' = {l \in Places : l[1] # s}
                /\ \A l \in Places' : Kv(l)' = Kv(l)
        BY <1>t, <2>10, FormatFlash
      <3>2. \A l \in With(k, st) : l[1] # s
        <4>1. CASE GcErase
          <5>1. pc = "gc_erase"
            BY <4>1 DEF GcErase, At
          <5>2. job.why # "gc"
            BY <1>t, <5>1, Quiet DEF JobPcs, Preparing, Creating, Writing, Deleting
          <5> QED
            BY <3>1, <5>1, <5>2 DEF Collected, Collecting, ToBeMoved, InUse
        <4>2. CASE GcFormat
          <5>1. sector[s] = Erased
            BY <1>t, <3>1, <4>2 DEF GcFormat, At, Shape, GcLoop
          <5>2. sector[s].kv = <<>>
            BY <5>1, FreshTyped
          <5>3. ASSUME NEW l \in Places, l[1] = s PROVE FALSE
            <6>1. l[2] \in 1 .. Len(sector[l[1]].kv)
              BY <1>t, PlaceFacts
            <6>2. Len(sector[l[1]].kv) = 0
              BY <5>2, <5>3
            <6> QED
              BY <6>1, <6>2
          <5> QED
            BY <5>3, WithIsPlaces
        <4> QED
          BY <2>10, <4>1, <4>2
      <3> QED
        BY <3>1, <3>2 DEF With
    <2>11. CASE BootHdr
      <3>1. CASE /\ Places \subseteq Places'
                 /\ \A l \in Places : Kv(l)' = IF Kv(l).part = "status" THEN Burnt ELSE Kv(l)
                 /\ \A l \in Places' \ Places : Kv(l)' = Burnt
        <4>1. Burnt.part = "status"
          BY DEF Burnt
        <4> QED
          BY <3>1, <4>1 DEF With
      <3>2. CASE \E s \in Sector :
                      /\ ~sector[s].ok
                      /\ Places' = {l \in Places : l[1] # s}
                      /\ \A l \in Places' : Kv(l)' = Kv(l)
        <4>1. PICK s \in Sector :
                      /\ ~sector[s].ok
                      /\ Places' = {l \in Places : l[1] # s}
                      /\ \A l \in Places' : Kv(l)' = Kv(l)
          BY <3>2
        <4>2. sector[s].kv = <<>>
          BY <1>t, <4>1, FreshTyped DEF Shape, GcLoop
        <4>3. ASSUME NEW l \in Places, l[1] = s PROVE FALSE
          <5>1. l[2] \in 1 .. Len(sector[l[1]].kv)
            BY <1>t, PlaceFacts
          <5>2. Len(sector[l[1]].kv) = 0
            BY <4>2, <4>3
          <5> QED
            BY <5>1, <5>2
        <4>4. Places' = Places
          BY <4>1, <4>3
        <4> QED
          BY <4>1, <4>4 DEF With
      <3> QED
        BY <1>t, <2>11, <3>1, <3>2, BootHdrFlash
    <2> QED
      BY <1>4, <1>t, <2>2, <2>3, <2>4, <2>5, <2>6, <2>7, <2>8, <2>9, <2>10, <2>11, FlashSteps
  <1> QED
    BY <1>1, <1>2, <1>3, <1>4

\* sound is never set again.
LEMMA SoundBefore == ASSUME Next, sound' PROVE sound
  BY DEF Next, Step, Call, NewKv, fdb_kv_set, fdb_kv_del, PreDelete, PreDeleteDirty, Use,
     PreWrite, WriteHeader, WriteData, WritePart, Write, Delete, DeleteDirty, Done, MoveKv, Gc,
     GcNotNeeded, GcSector, GcFinished, GcEnds, GcKv, GcErase, GcFormat, BootHdr, BootGc,
     BootKv, BootEnd, PowerCut, hist

\* The steps of a job and their pc.
LEMMA ActionPc ==
    /\ PreDelete => pc = "pre_delete"
    /\ PreDeleteDirty => pc = "pre_delete_dirty"
    /\ Use => pc = "use"
    /\ PreWrite => pc = "pre_write"
    /\ Write => pc = "write"
    /\ Delete => pc = "delete"
    /\ DeleteDirty => pc = "delete_dirty"
  BY DEF PreDelete, PreDeleteDirty, Use, PreWrite, Write, Delete, DeleteDirty, At

\* Every step leaves a name with at most one KV in use.
LEMMA NextUnique ==
    ASSUME Structure, Sound, Next
    PROVE  Unique'
  <1>0. Unique /\ Alone /\ Collected
    BY DEF Sound
  <1> SUFFICES ASSUME NEW k \in Key, NEW l \in With(k, WRITE)', NEW m \in With(k, WRITE)'
               PROVE  l = m
    BY DEF Unique
  <1>1. CASE Write
    <2>1. With(k, WRITE)' = With(k, WRITE) \cup {n \in {job.to} : k = job.key}
      BY <1>0, <1>1, WithSteps
    <2>2. k = job.key => With(k, WRITE) = {}
      BY <1>0, <1>1, ActionPc DEF Alone, AloneAt, Writing
    <2> QED
      BY <1>0, <2>1, <2>2 DEF Unique
  <1>2. CASE ~Write
    <2>1. With(k, WRITE)' \subseteq With(k, WRITE)
      <3>1. CASE PreDelete
        <4>1. job.from \in With(job.key, WRITE)
          <5>1. PICK j \in Key : j = job.key
            BY <3>1, ActionPc DEF Structure, Shape, Jobs, JobPcs, Preparing
          <5>2. job.from \in With(j, WRITE)
            BY <1>0, <3>1, <5>1, ActionPc DEF Alone, AloneAt
          <5> QED
            BY <5>1, <5>2
        <4> QED
          BY <1>0, <3>1, <4>1, WithSteps
      <3> QED
        BY <1>0, <1>2, <3>1, WithSteps DEF InUse
    <2> QED
      BY <1>0, <2>1 DEF Unique
  <1> QED
    BY <1>1, <1>2

\* PreDelete marks the KV in use of the job's name.
LEMMA MarksUnique ==
    ASSUME Structure, Alone, pc = "pre_delete"
    PROVE  job.from \in With(job.key, WRITE) /\ job.key \in Key
  <1>1. job.key \in Key
    BY DEF Structure, Shape, Jobs, JobPcs, Preparing
  <1>2. PICK k \in Key : k = job.key
    BY <1>1
  <1>3. job.from \in With(k, WRITE)
    BY <1>2 DEF Alone, AloneAt
  <1> QED
    BY <1>1, <1>2, <1>3

\* Only the recovery takes up a KV that was marked before.
LEMMA NextResumed ==
    ASSUME Structure, Sound, Next
    PROVE  Resumed'
  <1> USE DEF Resumed, Sound
  <1>s. Shape /\ WRITE # PRE_DELETE
    BY DEF Structure, WRITE, PRE_DELETE
  <1>1. ASSUME NEW k \in Key, NEW v \in ValueOf[k], fdb_kv_set(k, v) PROVE Resumed'
    BY <1>1, SetEffect, <1>s
  <1>2. ASSUME NEW k \in Key, fdb_kv_del(k) PROVE Resumed'
    BY <1>2, DelEffect, <1>s
  <1>3. ASSUME NewKv("new_kv") PROVE Resumed'
    BY <1>3, NewKvEffect, <1>s
  <1>4. ASSUME NewKv("new_kv_again") PROVE Resumed'
    BY <1>4, NewKvEffect, <1>s
  <1>5. ASSUME PreDelete PROVE Resumed'
    BY <1>5, PreDeleteFlash, <1>s
  <1>6. ASSUME PreDeleteDirty PROVE Resumed'
    BY <1>6, <1>s DEF PreDeleteDirty, ram
  <1>7. ASSUME Use PROVE Resumed'
    BY <1>7, <1>s DEF Use, ram
  <1>8. ASSUME PreWrite PROVE Resumed'
    BY <1>8, PreWriteEffect, <1>s DEF ram
  <1>9. ASSUME WriteHeader PROVE Resumed'
    BY <1>9, PartFlash, <1>s DEF ram
  <1>10. ASSUME WriteData PROVE Resumed'
    BY <1>10, PartFlash, <1>s DEF ram
  <1>11. ASSUME Write PROVE Resumed'
    BY <1>11, WriteEffect, <1>s
  <1>12. ASSUME Delete PROVE Resumed'
    BY <1>12, DeleteEffect, <1>s, Empties
  <1>13. ASSUME DeleteDirty PROVE Resumed'
    BY <1>13, DeleteDirtyEffect, <1>s, Empties DEF ram
  <1>14. ASSUME Done PROVE Resumed'
    BY <1>14, DoneEffect, <1>s, Empties
  <1>15. ASSUME MoveKv PROVE Resumed'
    BY <1>15, MoveKvEffect, <1>s, Empties
  <1>16. ASSUME Gc PROVE Resumed'
    BY <1>16, GcEffect, <1>s DEF ram
  <1>17. ASSUME GcNotNeeded PROVE Resumed'
    BY <1>17, GcEndsEffect, <1>s
  <1>18. ASSUME GcSector PROVE Resumed'
    BY <1>18, GcSectorEffect, <1>s DEF ram
  <1>19. ASSUME GcFinished PROVE Resumed'
    BY <1>19, GcEndsEffect, <1>s
  <1>20. ASSUME GcKv PROVE Resumed'
    <2>1. CASE UNCHANGED job
      BY <1>20, <2>1, <1>s, GcKvEffect DEF ram
    <2>2. CASE \E i \in Nat : /\ <<gc.at, i>> \in Places /\ Movable(Kv(<<gc.at, i>>))
                              /\ job'.key = Kv(<<gc.at, i>>).key /\ job'.key \in Key
                              /\ job'.was = Kv(<<gc.at, i>>).status
      <3>1. PICK l \in Places : Movable(Kv(l)) /\ job'.key = Kv(l).key /\ job'.key \in Key
                   /\ job'.was = Kv(l).status
        BY <2>2
      <3>2. pc = "gc_kv" /\ in_recovery_check' = in_recovery_check
        BY <1>20, <1>s, GcKvEffect DEF ram
      <3>3. PICK k \in Key : k = Kv(l).key
        BY <3>1
      <3>4. job'.was = PRE_DELETE => l \in With(k, PRE_DELETE)
        BY <3>1, <3>3 DEF With, Movable
      <3>5. ~in_recovery_check => \A m \in With(k, PRE_DELETE) : Handled(m)
        BY DEF Sound, NoneLeft, MustBeGone
      <3>6. ~Handled(l)
        BY <3>2 DEF Handled, JobPcs, Preparing, Creating, Writing, Deleting
      <3> QED
        BY <3>2, <3>4, <3>5, <3>6
    <2> QED
      BY <1>20, <1>s, <2>1, <2>2, GcKvEffect
  <1>21. ASSUME GcErase PROVE Resumed'
    BY <1>21, <1>s DEF GcErase, ram
  <1>22. ASSUME GcFormat PROVE Resumed'
    BY <1>22, GcFormatEffect, <1>s
  <1>23. ASSUME PowerCut PROVE Resumed'
    BY <1>23, <1>s DEF PowerCut
  <1>24. ASSUME BootHdr PROVE Resumed'
    BY <1>24, <1>s DEF BootHdr, ram
  <1>25. ASSUME BootGc PROVE Resumed'
    BY <1>25, BootGcEffect, <1>s
  <1>26. ASSUME BootKv PROVE Resumed'
    <2>1. in_recovery_check' = in_recovery_check /\ in_recovery_check
      BY <1>26, <1>s, BootKvEffect, Quiet DEF JobPcs, Preparing, Creating, Writing, Deleting,
         GcPcs, BootPcs
    <2> QED
      BY <2>1
  <1>27. ASSUME BootEnd PROVE Resumed'
    <2>1. job' = job /\ job.was = WRITE
      BY <1>27, <1>s, BootEndEffect, Quiet DEF JobPcs, Preparing, Creating, Writing, Deleting
    <2> QED
      BY <2>1, <1>s
  <1> QED
    BY <1>1, <1>2, <1>3, <1>4, <1>5, <1>6, <1>7, <1>8, <1>9, <1>10, <1>11, <1>12, <1>13, <1>14,
       <1>15, <1>16, <1>17, <1>18, <1>19, <1>20, <1>21, <1>22, <1>23, <1>24, <1>25, <1>26,
       <1>27 DEF Next, Step, Call

\* last_is_complete_del is set between a PreDelete and its Delete only.
LEMMA NextFlag ==
    ASSUME Structure, Sound, sound', Next
    PROVE  Flag'
  <1> USE DEF Flag, Sound, Structure, Shape, Jobs, Replacing, JobPcs, Preparing, Creating,
     Writing, Deleting, GcPcs, BootPcs, CallPcs
  <1>s. Shape /\ WRITE # PRE_DELETE
    BY DEF Structure, WRITE, PRE_DELETE
  <1>1. ASSUME NEW k \in Key, NEW v \in ValueOf[k], fdb_kv_set(k, v) PROVE Flag'
    BY <1>1, SetEffect, <1>s
  <1>2. ASSUME NEW k \in Key, fdb_kv_del(k) PROVE Flag'
    BY <1>2, DelEffect, <1>s
  <1>3. ASSUME NewKv("new_kv") PROVE Flag'
    BY <1>3, NewKvEffect, <1>s
  <1>4. ASSUME NewKv("new_kv_again") PROVE Flag'
    BY <1>4, NewKvEffect, <1>s
  <1>5. ASSUME PreDelete PROVE Flag'
    <2>1. pc = "pre_delete" /\ job' = job
            /\ pc' \in {"pre_delete_dirty", "use", "pre_write", "move_kv"}
      BY <1>5, <1>s, PreDeleteFlash
    <2>2. job.why \in {"set", "gc"} /\ job.was = WRITE
      BY <2>1, <1>s
    <2>3. job.from # NoLoc
      BY <1>5, <1>s, PreDeleteFlash, PlaceNotNoLoc
    <2> QED
      BY <2>1, <2>2, <2>3
  <1>6. ASSUME PreDeleteDirty PROVE Flag'
    BY <1>6, <1>s, WhereNext DEF PreDeleteDirty, At, ram
  <1>7. ASSUME Use PROVE Flag'
    BY <1>7, <1>s DEF Use, ram
  <1>8. ASSUME PreWrite PROVE Flag'
    BY <1>8, PreWriteEffect, <1>s DEF ram
  <1>9. ASSUME WriteHeader PROVE Flag'
    BY <1>9, PartFlash, <1>s DEF ram
  <1>10. ASSUME WriteData PROVE Flag'
    BY <1>10, PartFlash, <1>s DEF ram
  <1>11. ASSUME Write PROVE Flag'
    BY <1>11, WriteEffect, <1>s
  <1>12. ASSUME Delete PROVE Flag'
    BY <1>12, DeleteEffect, <1>s
  <1>13. ASSUME DeleteDirty PROVE Flag'
    BY <1>13, DeleteDirtyEffect, <1>s DEF ram
  <1>14. ASSUME Done PROVE Flag'
    BY <1>14, DoneEffect, <1>s DEF ram
  <1>15. ASSUME MoveKv PROVE Flag'
    BY <1>15, MoveKvEffect, <1>s DEF Create
  <1>16. ASSUME Gc PROVE Flag'
    BY <1>16, GcEffect, <1>s DEF ram
  <1>17. ASSUME GcNotNeeded PROVE Flag'
    BY <1>17, GcEndsEffect, <1>s
  <1>18. ASSUME GcSector PROVE Flag'
    BY <1>18, GcSectorEffect, <1>s DEF ram
  <1>19. ASSUME GcFinished PROVE Flag'
    BY <1>19, GcEndsEffect, <1>s
  <1>20. ASSUME GcKv PROVE Flag'
    BY <1>20, GcKvEffect, <1>s DEF ram
  <1>21. ASSUME GcErase PROVE Flag'
    BY <1>21, <1>s DEF GcErase, At, ram
  <1>22. ASSUME GcFormat PROVE Flag'
    BY <1>22, GcFormatEffect, <1>s
  <1>23. ASSUME PowerCut PROVE Flag'
    BY <1>23, <1>s DEF PowerCut
  <1>24. ASSUME BootHdr PROVE Flag'
    BY <1>24, <1>s DEF BootHdr, At, ram
  <1>25. ASSUME BootGc PROVE Flag'
    BY <1>25, BootGcEffect, <1>s
  <1>26. ASSUME BootKv PROVE Flag'
    BY <1>26, BootKvEffect, <1>s
  <1>27. ASSUME BootEnd PROVE Flag'
    BY <1>27, BootEndEffect, <1>s
  <1> QED
    BY <1>1, <1>2, <1>3, <1>4, <1>5, <1>6, <1>7, <1>8, <1>9, <1>10, <1>11, <1>12, <1>13, <1>14,
       <1>15, <1>16, <1>17, <1>18, <1>19, <1>20, <1>21, <1>22, <1>23, <1>24, <1>25, <1>26,
       <1>27 DEF Next, Step, Call

\* Between calls find_kv answers with the KV in use: a cached address is
\* never one of a deleted KV.
LEMMA FoundInUse ==
    ASSUME Structure, Cache, pc \in {"idle", "new_kv", "new_kv_again"}, NEW k \in Key,
           find_kv(k) # NoLoc
    PROVE  find_kv(k) \in With(k, WRITE)
  <1>1. kv_cache[k] = NoLoc \/ kv_cache[k] \in With(k, WRITE)
    BY DEF Cache, CacheAt, Replacing, Creating, Writing
  <1>2. CASE InCache(k)
    <2>1. kv_cache[k] # NoLoc
      BY <1>2, PlaceNotNoLoc DEF InCache, Structure, Shape
    <2> QED
      BY <1>1, <1>2, <2>1 DEF find_kv
  <1>3. CASE ~InCache(k)
    BY <1>3, FoundByScan DEF find_kv, Structure, Shape
  <1> QED
    BY <1>2, <1>3

\* Every step keeps what the job's name has in the flash.
LEMMA NextAlone ==
    ASSUME Structure, Sound, sound', Next
    PROVE  Alone'
  <1>s. /\ Shape /\ WRITE # PRE_DELETE /\ InUse = {WRITE, PRE_DELETE} /\ Structure /\ Collected
        /\ Alone /\ Unique /\ Cache /\ Resumed
    BY DEF Structure, WRITE, PRE_DELETE, InUse, Sound
  <1>j. \A k \in Key : k = job.key => AloneAt(k)
    BY <1>s DEF Alone
  <1>n. Jobs /\ Jobs'
    BY <1>s, NextJobs DEF Shape
  <1>v. pc' \notin JobPcs \/ (pc' = "delete" /\ job'.why = "del")
          \/ pc' \in {"done", "delete_dirty"} => Alone'
    BY DEF Alone, AloneAt, JobPcs, Preparing, Creating, Writing, Deleting, Replacing
  <1> SUFFICES ASSUME NEW k \in Key, k = job'.key, pc' \in JobPcs, pc' \notin {"done",
      "delete_dirty"}, ~(pc' = "delete" /\ job'.why = "del")
               PROVE  AloneAt(k)'
    BY <1>v DEF Alone
  <1>1. ASSUME NEW j \in Key, NEW v \in ValueOf[j], fdb_kv_set(j, v) PROVE AloneAt(k)'
    BY <1>1, SetEffect, <1>s DEF JobPcs, Preparing, Creating, Writing, Deleting
  <1>2. ASSUME NEW j \in Key, fdb_kv_del(j) PROVE AloneAt(k)'
    BY <1>2, DelEffect, <1>s
  <1>3. ASSUME NewKv("new_kv") PROVE AloneAt(k)'
    <2>1. \A st \in InUse : With(k, st)' = With(k, st)
      BY <1>3, <1>s, WithSteps, NewKvEffect, ActionPc
    <2>2. PICK to \in Sector, old \in Places \cup {NoLoc} :
             /\ old = find_kv(op.key)
             /\ old = NoLoc => With(op.key, WRITE) = {}
             /\ job'.key = op.key /\ job'.from = old /\ job'.was = WRITE /\ job'.why = "set"
             /\ pc' = IF old = NoLoc THEN Create(to) ELSE "pre_delete"
      BY <1>3, <1>s, NewKvEffect DEF JobPcs, Preparing, Creating, Writing, Deleting
    <2>3. pc' \in {"use", "pre_write", "pre_delete"} /\ (pc' = "pre_delete" <=> old # NoLoc)
      BY <2>2, <1>s, WhereNext
    <2>4. old # NoLoc => old \in With(k, WRITE)
      BY <1>3, <1>s, <2>2, NewKvEffect, FoundInUse
    <2> QED
      BY <2>1, <2>2, <2>3, <2>4, <1>s DEF AloneAt, Creating, Writing, Replacing
  <1>4. ASSUME NewKv("new_kv_again") PROVE AloneAt(k)'
    <2>1. \A st \in InUse : With(k, st)' = With(k, st)
      BY <1>4, <1>s, WithSteps, NewKvEffect, ActionPc
    <2>2. PICK to \in Sector, old \in Places \cup {NoLoc} :
             /\ old = find_kv(op.key)
             /\ old = NoLoc => With(op.key, WRITE) = {}
             /\ job'.key = op.key /\ job'.from = old /\ job'.was = WRITE /\ job'.why = "set"
             /\ pc' = IF old = NoLoc THEN Create(to) ELSE "pre_delete"
      BY <1>4, <1>s, NewKvEffect DEF JobPcs, Preparing, Creating, Writing, Deleting
    <2>3. pc' \in {"use", "pre_write", "pre_delete"} /\ (pc' = "pre_delete" <=> old # NoLoc)
      BY <2>2, <1>s, WhereNext
    <2>4. old # NoLoc => old \in With(k, WRITE)
      BY <1>4, <1>s, <2>2, NewKvEffect, FoundInUse
    <2> QED
      BY <2>1, <2>2, <2>3, <2>4, <1>s DEF AloneAt, Creating, Writing, Replacing
  <1>5. ASSUME PreDelete PROVE AloneAt(k)'
    <2>1. /\ pc = "pre_delete" /\ job' = job
               /\ pc' \in {"pre_delete_dirty", "use", "pre_write", "move_kv"}
          /\ job.was = WRITE /\ job.from \in With(k, WRITE)
      BY <1>5, <1>s, <1>j, <1>n, PreDeleteFlash DEF AloneAt, Jobs, Preparing
    <2>2. /\ With(k, WRITE)' = With(k, WRITE) \ {job.from}
          /\ With(k, PRE_DELETE)' = With(k, PRE_DELETE) \cup {job.from}
      BY <1>5, <1>s, <2>1, WithSteps, MarksUnique
    <2>3. With(k, WRITE)' = {}
      BY <2>1, <2>2, <1>s DEF Unique
    <2> QED
      BY <2>1, <2>2, <2>3 DEF AloneAt
  <1>6. ASSUME PreDeleteDirty PROVE AloneAt(k)'
    <2>1. /\ pc = "pre_delete_dirty" /\ job' = job
               /\ pc' \in {"use", "pre_write", "move_kv"} /\ job.was = WRITE
      BY <1>6, <1>s, <1>n, WhereNext DEF PreDeleteDirty, At, Jobs, Preparing
    <2>2. \A st \in InUse : With(k, st)' = With(k, st)
      BY <1>6, <1>s, <2>1, WithSteps, ActionPc
    <2>3. AloneAt(k)
      BY <1>j, <2>1
    <2> QED
      BY <2>1, <2>2, <2>3, <1>s DEF AloneAt, Replacing
  <1>7. ASSUME Use PROVE AloneAt(k)'
    <2>1. /\ pc \in Creating \cup Writing /\ pc' \in Creating \cup Writing
          /\ pc \notin {"pre_delete", "write", "delete"}
          /\ job'.key = job.key /\ job'.from = job.from /\ job'.was = job.was
               /\ job'.why = job.why
      BY <1>7, <1>s DEF Creating, Writing, Use, At
    <2>2. \A st \in InUse : With(k, st)' = With(k, st)
      BY <1>7, <1>s, <2>1, WithSteps, ActionPc
    <2>3. AloneAt(k)
      BY <1>j, <2>1
    <2> QED
      BY <2>1, <2>2, <2>3, <1>s DEF AloneAt, Creating, Writing, Replacing
  <1>8. ASSUME PreWrite PROVE AloneAt(k)'
    <2>1. /\ pc \in Creating \cup Writing /\ pc' \in Creating \cup Writing
          /\ pc \notin {"pre_delete", "write", "delete"}
          /\ job'.key = job.key /\ job'.from = job.from /\ job'.was = job.was
               /\ job'.why = job.why
      BY <1>8, <1>s, PreWriteEffect DEF Creating, Writing
    <2>2. \A st \in InUse : With(k, st)' = With(k, st)
      BY <1>8, <1>s, <2>1, WithSteps, ActionPc
    <2>3. AloneAt(k)
      BY <1>j, <2>1
    <2> QED
      BY <2>1, <2>2, <2>3, <1>s DEF AloneAt, Creating, Writing, Replacing
  <1>9. ASSUME WriteHeader PROVE AloneAt(k)'
    <2>1. /\ pc \in Creating \cup Writing /\ pc' \in Creating \cup Writing
          /\ pc \notin {"pre_delete", "write", "delete"}
          /\ job'.key = job.key /\ job'.from = job.from /\ job'.was = job.was
               /\ job'.why = job.why
      BY <1>9, <1>s, PartFlash DEF Creating, Writing
    <2>2. \A st \in InUse : With(k, st)' = With(k, st)
      BY <1>9, <1>s, <2>1, WithSteps, ActionPc
    <2>3. AloneAt(k)
      BY <1>j, <2>1
    <2> QED
      BY <2>1, <2>2, <2>3, <1>s DEF AloneAt, Creating, Writing, Replacing
  <1>10. ASSUME WriteData PROVE AloneAt(k)'
    <2>1. /\ pc \in Creating \cup Writing /\ pc' \in Creating \cup Writing
          /\ pc \notin {"pre_delete", "write", "delete"}
          /\ job'.key = job.key /\ job'.from = job.from /\ job'.was = job.was
               /\ job'.why = job.why
      BY <1>10, <1>s, PartFlash DEF Creating, Writing
    <2>2. \A st \in InUse : With(k, st)' = With(k, st)
      BY <1>10, <1>s, <2>1, WithSteps, ActionPc
    <2>3. AloneAt(k)
      BY <1>j, <2>1
    <2> QED
      BY <2>1, <2>2, <2>3, <1>s DEF AloneAt, Creating, Writing, Replacing
  <1>11. ASSUME Write PROVE AloneAt(k)'
    <2>1. pc = "write" /\ job' = job /\ pc' = "delete" /\ job.from # NoLoc
      BY <1>11, <1>s, WriteEffect
    <2>2. With(k, PRE_DELETE)' = With(k, PRE_DELETE)
      BY <1>11, <1>s, WithSteps
    <2>3. AloneAt(k)
      BY <1>j, <2>1
    <2> QED
      BY <2>1, <2>2, <2>3 DEF AloneAt, Creating, Writing, Replacing
  <1>12. ASSUME Delete PROVE AloneAt(k)'
    BY <1>12, DeleteEffect, <1>s DEF JobPcs, Preparing, Creating, Writing, Deleting
  <1>13. ASSUME DeleteDirty PROVE AloneAt(k)'
    BY <1>13, DeleteDirtyEffect, <1>s DEF JobPcs, Preparing, Creating, Writing, Deleting
  <1>14. ASSUME Done PROVE AloneAt(k)'
    BY <1>14, DoneEffect, <1>s DEF JobPcs, Preparing, Creating, Writing, Deleting
  <1>15. ASSUME MoveKv PROVE AloneAt(k)'
    <2>1. /\ pc = "move_kv" /\ job.from # NoLoc /\ job.was \in {WRITE, PRE_DELETE}
      BY <1>15, <1>s, MoveKvEffect, PlaceNotNoLoc DEF Shape, Froms, Registers, JobType, JobPcs,
         Creating, Writing
    <2>2. PICK to \in Sector :
            /\ pc' = IF HasSuccessor(job.key) THEN "delete" ELSE Create(to)
            /\ job'.key = job.key /\ job'.from = job.from /\ job'.was = job.was
                 /\ job'.why = job.why
      BY <1>15, <1>s, MoveKvEffect DEF JobPcs, Preparing, Creating, Writing, Deleting
    <2>3. pc' \in {"delete", "use", "pre_write"} /\ (pc' = "delete" <=> HasSuccessor(job.key))
      BY <2>2, <1>s, WhereNext
    <2>4. \A st \in InUse : With(k, st)' = With(k, st)
      BY <1>15, <1>s, <2>1, WithSteps, ActionPc
    <2>5. AloneAt(k)
      BY <1>j, <2>2
    <2>6. ~HasSuccessor(job.key) => With(k, WRITE) = {}
      <3>1. CASE job.was = WRITE
        BY <3>1, <2>1, <2>5 DEF AloneAt, Replacing
      <3>2. CASE job.was = PRE_DELETE
        <4>1. in_recovery_check
          BY <3>2, <1>s DEF Resumed
        <4> QED
          BY <4>1, <3>2, <2>2, <1>s, FoundByScan DEF HasSuccessor, Shape
      <3> QED
        BY <2>1, <3>1, <3>2
    <2> QED
      BY <2>1, <2>2, <2>3, <2>4, <2>5, <2>6, <1>s DEF AloneAt, Creating, Writing, Replacing
  <1>16. ASSUME Gc PROVE AloneAt(k)'
    BY <1>16, GcEffect, <1>s DEF JobPcs, Preparing, Creating, Writing, Deleting
  <1>17. ASSUME GcNotNeeded PROVE AloneAt(k)'
    BY <1>17, GcEndsEffect, <1>s DEF JobPcs, Preparing, Creating, Writing, Deleting
  <1>18. ASSUME GcSector PROVE AloneAt(k)'
    BY <1>18, GcSectorEffect, <1>s DEF JobPcs, Preparing, Creating, Writing, Deleting
  <1>19. ASSUME GcFinished PROVE AloneAt(k)'
    BY <1>19, GcEndsEffect, <1>s DEF JobPcs, Preparing, Creating, Writing, Deleting
  <1>20. ASSUME GcKv PROVE AloneAt(k)'
    <2>1. \A st \in InUse : With(k, st)' = With(k, st)
      BY <1>20, <1>s, WithSteps, GcKvEffect, ActionPc
    <2>2. PICK l \in Places : /\ Movable(Kv(l)) /\ job'.from = l /\ job'.key = Kv(l).key
                              /\ job'.was = Kv(l).status
                              /\ pc' = IF Kv(l).status = WRITE THEN "pre_delete" ELSE "move_kv"
      <3>1. \E i \in Nat : /\ <<gc.at, i>> \in Places /\ Movable(Kv(<<gc.at, i>>))
              /\ job'.from = <<gc.at, i>>
                           /\ job'.key = Kv(<<gc.at, i>>).key
                                /\ job'.was = Kv(<<gc.at, i>>).status
                           /\ pc' = IF Kv(<<gc.at, i>>).status = WRITE THEN "pre_delete"
                                ELSE "move_kv"
        BY <1>20, <1>s, GcKvEffect DEF JobPcs, Preparing, Creating, Writing, Deleting
      <3> QED
        BY <3>1
    <2>3. l \in With(k, Kv(l).status) /\ Kv(l).status \in InUse
      BY <2>2, <1>s DEF With, Movable
    <2> QED
      BY <2>1, <2>2, <2>3, <1>s DEF AloneAt, Creating, Writing, Replacing
  <1>21. ASSUME GcErase PROVE AloneAt(k)'
    BY <1>21, <1>s DEF GcErase, JobPcs, Preparing, Creating, Writing, Deleting
  <1>22. ASSUME GcFormat PROVE AloneAt(k)'
    BY <1>22, GcFormatEffect, <1>s DEF JobPcs, Preparing, Creating, Writing, Deleting
  <1>23. ASSUME PowerCut PROVE AloneAt(k)'
    BY <1>23, <1>s DEF PowerCut, JobPcs, Preparing, Creating, Writing, Deleting
  <1>24. ASSUME BootHdr PROVE AloneAt(k)'
    BY <1>24, <1>s DEF BootHdr, At, JobPcs, Preparing, Creating, Writing, Deleting
  <1>25. ASSUME BootGc PROVE AloneAt(k)'
    BY <1>25, BootGcEffect, <1>s DEF JobPcs, Preparing, Creating, Writing, Deleting
  <1>26. ASSUME BootKv PROVE AloneAt(k)'
    <2>1. \A st \in InUse : With(k, st)' = With(k, st)
      BY <1>26, <1>s, WithSteps, BootKvEffect, ActionPc
    <2>2. PICK l \in Places : /\ Kv(l).part = "whole" /\ Kv(l).status = PRE_DELETE
                              /\ job'.key = Kv(l).key /\ job'.from = l /\ job'.was = PRE_DELETE
                              /\ pc' = "move_kv"
      BY <1>26, <1>s, BootKvEffect DEF JobPcs, Preparing, Creating, Writing, Deleting
    <2>3. l \in With(k, PRE_DELETE)
      BY <2>2 DEF With
    <2> QED
      BY <2>1, <2>2, <2>3, <1>s DEF AloneAt, Creating, Writing
  <1>27. ASSUME BootEnd PROVE AloneAt(k)'
    BY <1>27, BootEndEffect, <1>s DEF JobPcs, Preparing, Creating, Writing, Deleting
  <1> QED
    BY <1>1, <1>2, <1>3, <1>4, <1>5, <1>6, <1>7, <1>8, <1>9, <1>10, <1>11, <1>12, <1>13, <1>14,
       <1>15, <1>16, <1>17, <1>18, <1>19, <1>20, <1>21, <1>22, <1>23, <1>24, <1>25, <1>26,
       <1>27 DEF Next, Step, Call

\* Every step keeps the cache on KVs in use, or on the one being replaced.
LEMMA NextCache ==
    ASSUME Structure, Sound, sound', Next
    PROVE  Cache'
  <1>s. /\ Shape /\ WRITE # PRE_DELETE /\ InUse = {WRITE, PRE_DELETE} /\ Structure /\ Collected
        /\ Alone /\ Unique /\ Cache /\ Resumed /\ Flag
    BY DEF Structure, WRITE, PRE_DELETE, InUse, Sound
  <1>n. Jobs /\ Froms /\ \A k \in Key : k = job.key => AloneAt(k)
    BY <1>s DEF Shape, Alone
  <1> SUFFICES ASSUME NEW k \in Key PROVE CacheAt(k)'
    BY DEF Cache
  <1>c. CacheAt(k) /\ kv_cache \in [Key -> Loc \cup {NoLoc}]
    BY <1>s DEF Cache, Shape, Registers
  <1>w. pc \notin {"pre_delete", "write", "delete"} => With(k, WRITE)' = With(k, WRITE)
    BY <1>s, WithSteps, ActionPc
  <1>f. pc \in Deleting \cup {"pre_delete"} => job.from \in Places /\ Kv(job.from).key = job.key
    BY <1>s DEF Shape, Froms, JobPcs, Preparing, Creating, Writing, Deleting
  <1>1. ASSUME NEW j \in Key, NEW v \in ValueOf[j], fdb_kv_set(j, v) PROVE CacheAt(k)'
    BY <1>1, <1>s, <1>w, <1>c, SetEffect DEF CacheAt, Replacing, Creating, Writing
  <1>2. ASSUME NEW j \in Key, fdb_kv_del(j) PROVE CacheAt(k)'
    <2>1. /\ pc = "idle" /\ kv_cache' = [kv_cache EXCEPT ![j] = job'.from]
               /\ job'.from \in Places /\ job'.from = find_kv(j)
      BY <1>2, <1>s, DelEffect
    <2>2. PICK l \in Places : l = find_kv(j)
      BY <2>1
    <2>3. find_kv(j) # NoLoc
      BY <1>s, <2>2, PlaceNotNoLoc DEF Shape
    <2>4. find_kv(j) \in With(j, WRITE)
      BY <1>s, <2>1, <2>3, FoundInUse
    <2> QED
      BY <2>1, <2>4, <1>w, <1>c DEF CacheAt, Replacing, Creating, Writing
  <1>3. ASSUME NewKv("new_kv") PROVE CacheAt(k)'
    <2>1. pc \in {"new_kv", "new_kv_again"} /\ op.key \in Key
      BY <1>3, <1>s, NewKvEffect
    <2>2. \/ kv_cache' = kv_cache
          \/ /\ kv_cache' = [kv_cache EXCEPT ![op.key] = IF find_kv(op.key) = NoLoc THEN @ ELSE find_kv(op.key)]
      BY <1>3, <1>s, NewKvEffect
    <2>3. PICK j \in Key : j = op.key
      BY <2>1
    <2>4. find_kv(j) # NoLoc => find_kv(j) \in With(j, WRITE)
      BY <2>1, <1>s, FoundInUse
    <2> QED
      BY <2>1, <2>2, <2>3, <2>4, <1>w, <1>c DEF CacheAt, Replacing, Creating, Writing
  <1>4. ASSUME NewKv("new_kv_again") PROVE CacheAt(k)'
    <2>1. pc \in {"new_kv", "new_kv_again"} /\ op.key \in Key
      BY <1>4, <1>s, NewKvEffect
    <2>2. \/ kv_cache' = kv_cache
          \/ /\ kv_cache' = [kv_cache EXCEPT ![op.key] = IF find_kv(op.key) = NoLoc THEN @ ELSE find_kv(op.key)]
      BY <1>4, <1>s, NewKvEffect
    <2>3. PICK j \in Key : j = op.key
      BY <2>1
    <2>4. find_kv(j) # NoLoc => find_kv(j) \in With(j, WRITE)
      BY <2>1, <1>s, FoundInUse
    <2> QED
      BY <2>1, <2>2, <2>3, <2>4, <1>w, <1>c DEF CacheAt, Replacing, Creating, Writing
  <1>5. ASSUME PreDelete PROVE CacheAt(k)'
    <2>1. /\ pc = "pre_delete" /\ job' = job
               /\ pc' \in {"pre_delete_dirty", "use", "pre_write", "move_kv"}
          /\ kv_cache' = kv_cache
      BY <1>5, <1>s, PreDeleteFlash
    <2>2. job.was = WRITE
      BY <2>1, <1>n DEF Jobs, Preparing
    <2>3. With(k, WRITE)' = With(k, WRITE) \ {job.from}
      BY <1>5, <1>s, <2>1, WithSteps, MarksUnique
    <2>4. Replacing'
      BY <2>1 DEF Replacing, Creating
    <2>5. kv_cache[k] \in With(k, WRITE) /\ kv_cache[k] = job.from => k = job.key
      BY <2>1, <1>f DEF With
    <2>6. ~Replacing
      BY <2>1 DEF Replacing, Creating, Writing
    <2> QED
      BY <2>1, <2>2, <2>3, <2>4, <2>5, <2>6, <1>c DEF CacheAt
  <1>6. ASSUME PreDeleteDirty PROVE CacheAt(k)'
    <2>1. pc = "pre_delete_dirty" /\ pc' \in {"use", "pre_write", "move_kv"}
            /\ kv_cache' = kv_cache /\ job' = job
      BY <1>6, <1>s, WhereNext DEF PreDeleteDirty, At, ram, Preparing
    <2> QED
      BY <2>1, <1>w, <1>c DEF CacheAt, Replacing, Creating, Writing
  <1>7. ASSUME Use PROVE CacheAt(k)'
    BY <1>7, <1>s, <1>w, <1>c DEF Use, At, ram, CacheAt, Replacing, Creating, Writing
  <1>8. ASSUME PreWrite PROVE CacheAt(k)'
    BY <1>8, <1>s, <1>w, <1>c, PreWriteEffect DEF ram, CacheAt, Replacing, Creating, Writing
  <1>9. ASSUME WriteHeader PROVE CacheAt(k)'
    BY <1>9, <1>s, <1>w, <1>c, PartFlash DEF ram, CacheAt, Replacing, Creating, Writing
  <1>10. ASSUME WriteData PROVE CacheAt(k)'
    BY <1>10, <1>s, <1>w, <1>c, PartFlash DEF ram, CacheAt, Replacing, Creating, Writing
  <1>11. ASSUME Write PROVE CacheAt(k)'
    <2>1. /\ pc = "write" /\ job' = job /\ kv_cache' = [kv_cache EXCEPT ![job.key] = job.to]
      BY <1>11, <1>s, WriteEffect
    <2>2. With(k, WRITE)' = With(k, WRITE) \cup {m \in {job.to} : k = job.key}
      BY <1>11, <1>s, WithSteps
    <2> QED
      BY <2>1, <2>2, <1>c DEF CacheAt
  <1>12. ASSUME Delete PROVE CacheAt(k)'
    <2>1. /\ pc = "delete"
          /\ kv_cache' = [kv_cache EXCEPT ![job.key] = IF last_is_complete_del THEN @
               ELSE NoLoc]
      BY <1>12, <1>s, DeleteEffect
    <2>2. With(k, WRITE)' = With(k, WRITE) \ {job.from}
      BY <1>12, <1>s, WithSteps
    <2>3. kv_cache[k] = NoLoc \/ kv_cache[k] \in With(k, WRITE)
      BY <2>1, <1>c DEF CacheAt, Replacing, Creating, Writing
    <2>4. k # job.key => job.from \notin With(k, WRITE)
      BY <2>1, <1>f DEF With, Deleting
    <2>5. k = job.key /\ last_is_complete_del => job.from \notin With(k, WRITE)
      BY <2>1, <1>s, <1>n DEF Flag, AloneAt, With
    <2> QED
      BY <2>1, <2>2, <2>3, <2>4, <2>5, <1>c DEF CacheAt
  <1>13. ASSUME DeleteDirty PROVE CacheAt(k)'
    BY <1>13, <1>s, <1>w, <1>c, DeleteDirtyEffect DEF ram, CacheAt, Replacing, Creating, Writing
  <1>14. ASSUME Done PROVE CacheAt(k)'
    BY <1>14, <1>s, <1>w, <1>c, DoneEffect DEF ram, CacheAt, Replacing, Creating, Writing
  <1>15. ASSUME MoveKv PROVE CacheAt(k)'
    <2>1. /\ pc = "move_kv" /\ kv_cache' = kv_cache
      BY <1>15, <1>s, MoveKvEffect
    <2>2. CASE job'.why # "none"
      <3>1. PICK to \in Sector :
              /\ pc' = IF HasSuccessor(job.key) THEN "delete" ELSE Create(to)
              /\ job'.key = job.key /\ job'.from = job.from /\ job'.was = job.was
                   /\ job'.why = job.why
        BY <1>15, <1>s, <2>2, MoveKvEffect, Empties
      <3>2. HasSuccessor(job.key) => job.was # WRITE
        BY <1>s DEF HasSuccessor
      <3>3. ~HasSuccessor(job.key) => pc' \in {"use", "pre_write"}
        BY <3>1, <1>s, WhereNext
      <3> QED
        BY <2>1, <3>1, <3>2, <3>3, <1>w, <1>c DEF CacheAt, Replacing, Creating
    <2>3. CASE job'.why = "none"
      <3>1. sound' = (sound /\ job.why = "recovery" /\ gc_request')
        BY <1>15, <1>s, <2>3, MoveKvEffect
      <3>2. job.was # WRITE
        BY <3>1, <1>s, <1>n DEF Jobs
      <3> QED
        BY <2>1, <3>2, <1>w, <1>c DEF CacheAt
    <2> QED
      BY <2>2, <2>3
  <1>16. ASSUME Gc PROVE CacheAt(k)'
    BY <1>16, <1>s, <1>w, <1>c, GcEffect DEF ram, CacheAt, Replacing, Creating, Writing
  <1>17. ASSUME GcNotNeeded PROVE CacheAt(k)'
    BY <1>17, <1>s, <1>w, <1>c, GcEndsEffect DEF CacheAt, Replacing, Creating, Writing
  <1>18. ASSUME GcSector PROVE CacheAt(k)'
    BY <1>18, <1>s, <1>w, <1>c, GcSectorEffect DEF ram, CacheAt, Replacing, Creating, Writing
  <1>19. ASSUME GcFinished PROVE CacheAt(k)'
    BY <1>19, <1>s, <1>w, <1>c, GcEndsEffect DEF CacheAt, Replacing, Creating, Writing
  <1>20. ASSUME GcKv PROVE CacheAt(k)'
    BY <1>20, <1>s, <1>w, <1>c, GcKvEffect DEF ram, CacheAt, Replacing, Creating, Writing
  <1>21. ASSUME GcErase PROVE CacheAt(k)'
    BY <1>21, <1>s, <1>w, <1>c DEF GcErase, At, ram, CacheAt, Replacing, Creating, Writing
  <1>22. ASSUME GcFormat PROVE CacheAt(k)'
    BY <1>22, <1>s, <1>w, <1>c, GcFormatEffect DEF CacheAt, Replacing, Creating, Writing
  <1>23. ASSUME PowerCut PROVE CacheAt(k)'
    BY <1>23 DEF PowerCut, CacheAt
  <1>24. ASSUME BootHdr PROVE CacheAt(k)'
    BY <1>24, <1>s, <1>w, <1>c DEF BootHdr, At, ram, CacheAt, Replacing, Creating, Writing
  <1>25. ASSUME BootGc PROVE CacheAt(k)'
    BY <1>25, <1>s, <1>w, <1>c, BootGcEffect DEF CacheAt, Replacing, Creating, Writing
  <1>26. ASSUME BootKv PROVE CacheAt(k)'
    <2>1. pc = "boot_kv" /\ (kv_cache'[k] = kv_cache[k] \/ kv_cache'[k] \in With(k, WRITE))
      BY <1>26, <1>s, BootKvEffect
    <2> QED
      BY <2>1, <1>w, <1>c DEF CacheAt, Replacing, Creating, Writing
  <1>27. ASSUME BootEnd PROVE CacheAt(k)'
    BY <1>27, <1>s, <1>w, <1>c, BootEndEffect DEF CacheAt, Replacing, Creating, Writing
  <1> QED
    BY <1>1, <1>2, <1>3, <1>4, <1>5, <1>6, <1>7, <1>8, <1>9, <1>10, <1>11, <1>12, <1>13, <1>14,
       <1>15, <1>16, <1>17, <1>18, <1>19, <1>20, <1>21, <1>22, <1>23, <1>24, <1>25, <1>26,
       <1>27 DEF Next, Step, Call

\* No KV in use is left behind the collection.
LEMMA NextCollected ==
    ASSUME Structure, Sound, sound', Next
    PROVE  Collected'
  <1>s. /\ Shape /\ WRITE # PRE_DELETE /\ InUse = {WRITE, PRE_DELETE} /\ Structure
             /\ Collected /\ Alone
    BY DEF Structure, WRITE, PRE_DELETE, InUse, Sound
  <1>n. Jobs /\ Froms /\ GcLoop
    BY <1>s DEF Shape
  <1> SUFFICES ASSUME NEW k \in Key, NEW st \in InUse, NEW l \in With(k, st)', Collecting'
               PROVE  ToBeMoved(l)'
    BY DEF Collected
  <1>w. pc \notin {"pre_delete", "write", "delete"} => l \in With(k, st)
    BY <1>s, WithSteps, ActionPc
  <1>c. Collecting /\ l \in With(k, st) => ToBeMoved(l)
    BY <1>s DEF Collected
  <1>1. ASSUME NEW j \in Key, NEW v \in ValueOf[j], fdb_kv_set(j, v) PROVE ToBeMoved(l)'
    BY <1>1, <1>s, SetEffect, Quiet DEF Collecting, JobPcs, Preparing, Creating, Writing,
       Deleting
  <1>2. ASSUME NEW j \in Key, fdb_kv_del(j) PROVE ToBeMoved(l)'
    BY <1>2, <1>s, DelEffect DEF Collecting
  <1>3. ASSUME NewKv("new_kv") PROVE ToBeMoved(l)'
    BY <1>3, <1>s, NewKvEffect, Quiet DEF Create, Collecting, JobPcs, Preparing, Creating,
       Writing, Deleting
  <1>4. ASSUME NewKv("new_kv_again") PROVE ToBeMoved(l)'
    BY <1>4, <1>s, NewKvEffect, Quiet DEF Create, Collecting, JobPcs, Preparing, Creating,
       Writing, Deleting
  <1>5. ASSUME PreDelete PROVE ToBeMoved(l)'
    <2>1. /\ pc = "pre_delete" /\ job' = job /\ gc' = gc
          /\ pc' \in {"pre_delete_dirty", "use", "pre_write", "move_kv"}
      BY <1>5, <1>s, PreDeleteFlash
    <2>2. /\ With(k, WRITE)' = With(k, WRITE) \ {job.from}
          /\ With(k, PRE_DELETE)' = With(k, PRE_DELETE) \cup {m \in {job.from} : k = job.key}
      BY <1>5, <1>s, <2>1, WithSteps, MarksUnique
    <2>3. k = job.key => job.from \in With(k, WRITE)
      BY <1>s, <2>1, MarksUnique
    <2>4. \E t \in InUse : l \in With(k, t)
      BY <2>2, <2>3, <1>s
    <2>5. Collecting => ToBeMoved(l)
      BY <2>4, <1>s DEF Collected
    <2> QED
      BY <2>1, <2>5 DEF Collecting, ToBeMoved
  <1>6. ASSUME PreDeleteDirty PROVE ToBeMoved(l)'
    <2>1. /\ pc \in JobPcs \ {"delete_dirty"} /\ pc' \in JobPcs \ {"delete_dirty"}
          /\ pc \notin {"pre_delete", "write", "delete"}
          /\ job'.from = job.from /\ job'.why = job.why /\ gc' = gc
      BY <1>6, <1>s, WhereNext DEF JobPcs, Preparing, Creating, Writing, Deleting,
         PreDeleteDirty, At
    <2>2. pc \notin {"gc_kv", "gc_erase"} /\ pc' \notin {"gc_kv", "gc_erase"}
      BY <2>1 DEF JobPcs, Preparing, Creating, Writing, Deleting
    <2> QED
      BY <2>1, <2>2, <1>w, <1>c DEF Collecting, ToBeMoved
  <1>7. ASSUME Use PROVE ToBeMoved(l)'
    <2>1. /\ pc \in JobPcs \ {"delete_dirty"} /\ pc' \in JobPcs \ {"delete_dirty"}
          /\ pc \notin {"pre_delete", "write", "delete"}
          /\ job'.from = job.from /\ job'.why = job.why /\ gc' = gc
      BY <1>7, <1>s DEF JobPcs, Preparing, Creating, Writing, Deleting, Use, At
    <2>2. pc \notin {"gc_kv", "gc_erase"} /\ pc' \notin {"gc_kv", "gc_erase"}
      BY <2>1 DEF JobPcs, Preparing, Creating, Writing, Deleting
    <2> QED
      BY <2>1, <2>2, <1>w, <1>c DEF Collecting, ToBeMoved
  <1>8. ASSUME PreWrite PROVE ToBeMoved(l)'
    <2>1. /\ pc \in JobPcs \ {"delete_dirty"} /\ pc' \in JobPcs \ {"delete_dirty"}
          /\ pc \notin {"pre_delete", "write", "delete"}
          /\ job'.from = job.from /\ job'.why = job.why /\ gc' = gc
      BY <1>8, <1>s, PreWriteEffect DEF JobPcs, Preparing, Creating, Writing, Deleting
    <2>2. pc \notin {"gc_kv", "gc_erase"} /\ pc' \notin {"gc_kv", "gc_erase"}
      BY <2>1 DEF JobPcs, Preparing, Creating, Writing, Deleting
    <2> QED
      BY <2>1, <2>2, <1>w, <1>c DEF Collecting, ToBeMoved
  <1>9. ASSUME WriteHeader PROVE ToBeMoved(l)'
    <2>1. /\ pc \in JobPcs \ {"delete_dirty"} /\ pc' \in JobPcs \ {"delete_dirty"}
          /\ pc \notin {"pre_delete", "write", "delete"}
          /\ job'.from = job.from /\ job'.why = job.why /\ gc' = gc
      BY <1>9, <1>s, PartFlash DEF JobPcs, Preparing, Creating, Writing, Deleting
    <2>2. pc \notin {"gc_kv", "gc_erase"} /\ pc' \notin {"gc_kv", "gc_erase"}
      BY <2>1 DEF JobPcs, Preparing, Creating, Writing, Deleting
    <2> QED
      BY <2>1, <2>2, <1>w, <1>c DEF Collecting, ToBeMoved
  <1>10. ASSUME WriteData PROVE ToBeMoved(l)'
    <2>1. /\ pc \in JobPcs \ {"delete_dirty"} /\ pc' \in JobPcs \ {"delete_dirty"}
          /\ pc \notin {"pre_delete", "write", "delete"}
          /\ job'.from = job.from /\ job'.why = job.why /\ gc' = gc
      BY <1>10, <1>s, PartFlash DEF JobPcs, Preparing, Creating, Writing, Deleting
    <2>2. pc \notin {"gc_kv", "gc_erase"} /\ pc' \notin {"gc_kv", "gc_erase"}
      BY <2>1 DEF JobPcs, Preparing, Creating, Writing, Deleting
    <2> QED
      BY <2>1, <2>2, <1>w, <1>c DEF Collecting, ToBeMoved
  <1>11. ASSUME Write PROVE ToBeMoved(l)'
    <2>1. /\ pc = "write" /\ job' = job /\ gc' = gc /\ pc' \in {"done", "delete"}
      BY <1>11, <1>s, WriteEffect
    <2>2. l \in With(k, st) \/ l = job.to
      BY <1>11, <1>s, WithSteps
    <2>3. job.why = "gc"
      BY <2>1 DEF Collecting
    <2>4. job.to[1] # gc.at
      BY <2>1, <2>3, <1>n DEF GcLoop, Writing
    <2> QED
      BY <2>1, <2>2, <2>3, <2>4, <1>c DEF Collecting, ToBeMoved
  <1>12. ASSUME Delete PROVE ToBeMoved(l)'
    <2>1. /\ pc = "delete" /\ gc' = gc
          /\ \/ pc' = "delete_dirty" /\ job' = job
             \/ job.why = "set" /\ pc' = "done" /\ job' = job
             \/ job.why = "gc" /\ pc' = "gc_kv" /\ job' = NoJob
             \/ pc' \in {"idle", "boot_kv"} /\ job' = NoJob
      BY <1>12, <1>s, DeleteEffect
    <2>2. l \in With(k, st) /\ l # job.from
      BY <1>12, <1>s, WithSteps
    <2>3. job.why = "gc" /\ pc' \in {"delete_dirty", "gc_kv"}
      BY <2>1, Empties DEF Collecting
    <2> QED
      BY <2>1, <2>2, <2>3, <1>c DEF Collecting, ToBeMoved
  <1>13. ASSUME DeleteDirty PROVE ToBeMoved(l)'
    <2>1. /\ pc = "delete_dirty" /\ gc' = gc
          /\ \/ job.why = "set" /\ pc' = "done" /\ job' = job
             \/ job.why = "gc" /\ pc' = "gc_kv" /\ job' = NoJob
             \/ pc' \in {"idle", "boot_kv"} /\ job' = NoJob
      BY <1>13, <1>s, DeleteDirtyEffect
    <2>2. job.why = "gc" /\ pc' = "gc_kv"
      BY <2>1, Empties DEF Collecting
    <2> QED
      BY <2>1, <2>2, <1>w, <1>c DEF Collecting, ToBeMoved
  <1>14. ASSUME Done PROVE ToBeMoved(l)'
    BY <1>14, <1>s, DoneEffect, Empties DEF Collecting
  <1>15. ASSUME MoveKv PROVE ToBeMoved(l)'
    <2>1. /\ pc = "move_kv" /\ gc' = gc
      BY <1>15, <1>s, MoveKvEffect
    <2>2. CASE job'.why # "none"
      <3>1. PICK to \in Sector :
              /\ pc' = IF HasSuccessor(job.key) THEN "delete" ELSE Create(to)
              /\ job'.from = job.from /\ job'.why = job.why
        BY <1>15, <1>s, <2>2, MoveKvEffect, Empties
      <3>2. pc' \in {"delete", "use", "pre_write"}
        BY <3>1, <1>s, WhereNext
      <3> QED
        BY <2>1, <3>1, <3>2, <1>w, <1>c DEF Collecting, ToBeMoved
    <2>3. CASE job'.why = "none"
      <3>1. /\ sound' = (sound /\ job.why = "recovery" /\ gc_request')
            /\ pc' = IF job.why = "gc" THEN "gc_kv" ELSE "boot_end"
        BY <1>15, <1>s, <2>3, MoveKvEffect
      <3> QED
        BY <3>1, <2>3 DEF Collecting
    <2> QED
      BY <2>2, <2>3
  <1>16. ASSUME Gc PROVE ToBeMoved(l)'
    BY <1>16, <1>s, GcEffect, Quiet DEF Collecting, JobPcs, Preparing, Creating, Writing,
       Deleting
  <1>17. ASSUME GcNotNeeded PROVE ToBeMoved(l)'
    BY <1>17, <1>s, GcEndsEffect, Quiet DEF Collecting, JobPcs, Preparing, Creating, Writing,
       Deleting
  <1>18. ASSUME GcSector PROVE ToBeMoved(l)'
    <2>1. /\ pc = "gc_sector" /\ pc' = "gc_kv" /\ gc'.i = 1
      BY <1>18, <1>s, GcSectorEffect
    <2>2. l \in Places
      BY <2>1, <1>w, WithIsPlaces
    <2>3. l[2] \in Nat /\ l[2] > 0
      BY <2>2, <1>s, SectorOfPlace DEF Shape
    <2> QED
      BY <2>1, <2>3 DEF ToBeMoved
  <1>19. ASSUME GcFinished PROVE ToBeMoved(l)'
    BY <1>19, <1>s, GcEndsEffect, Quiet DEF Collecting, JobPcs, Preparing, Creating, Writing,
       Deleting
  <1>20. ASSUME GcKv PROVE ToBeMoved(l)'
    <2>1. pc = "gc_kv" /\ job.why = "none" /\ l \in With(k, st) /\ gc.i \in Nat
      BY <1>20, <1>s, <1>w, GcKvEffect, Quiet DEF JobPcs, Preparing, Creating, Writing, Deleting
    <2>2. l \in Places /\ Movable(Kv(l)) /\ (l[1] = gc.at => l[2] >= gc.i)
      BY <2>1, <1>s, <1>c DEF Collecting, ToBeMoved, With, Movable
    <2>3. l = <<l[1], l[2]>> /\ l[1] \in Sector /\ l[2] \in 1 .. Len(sector[l[1]].kv)
          /\ Len(sector[l[1]].kv) \in Nat
      BY <2>2, <1>s, PlaceFacts DEF Shape
    <2>4. l[1] = gc.at => l[2] \in gc.i .. Len(sector[gc.at].kv)
            /\ Movable(sector[gc.at].kv[l[2]])
      BY <2>1, <2>2, <2>3 DEF Kv
    <2>5. CASE /\ \A i \in gc.i .. Len(sector[gc.at].kv) : ~Movable(sector[gc.at].kv[i])
               /\ UNCHANGED <<job, gc>>
      BY <2>4, <2>5 DEF ToBeMoved
    <2>6. CASE \E i \in gc.i .. Len(sector[gc.at].kv) :
                  /\ i \in Nat
                  /\ \A j \in gc.i .. Len(sector[gc.at].kv) : Movable(sector[gc.at].kv[j])
                       => i <= j
                  /\ gc'.i = i + 1 /\ gc'.at = gc.at
                  /\ job'.from = <<gc.at, i>> /\ job'.why = "gc"
                  /\ pc' \in {"pre_delete", "move_kv"}
      <3>1. PICK i \in gc.i .. Len(sector[gc.at].kv) :
                  /\ i \in Nat
                  /\ \A j \in gc.i .. Len(sector[gc.at].kv) : Movable(sector[gc.at].kv[j])
                       => i <= j
                  /\ gc'.i = i + 1 /\ gc'.at = gc.at
                  /\ job'.from = <<gc.at, i>> /\ job'.why = "gc"
                  /\ pc' \in {"pre_delete", "move_kv"}
        BY <2>6
      <3>2. l[1] = gc.at => i <= l[2]
        BY <2>4, <3>1
      <3>3. l[1] = gc.at /\ l[2] = i => l = job'.from
        BY <2>3, <3>1
      <3> QED
        BY <2>3, <3>1, <3>2, <3>3 DEF ToBeMoved
    <2> QED
      BY <1>20, <1>s, <2>5, <2>6, GcKvEffect
  <1>21. ASSUME GcErase PROVE ToBeMoved(l)'
    <2>1. pc = "gc_erase" /\ pc' = "gc_format" /\ job' = job
      BY <1>21 DEF GcErase, At
    <2>2. job.why = "none"
      BY <2>1, <1>s, Quiet DEF JobPcs, Preparing, Creating, Writing, Deleting
    <2> QED
      BY <2>1, <2>2 DEF Collecting
  <1>22. ASSUME GcFormat PROVE ToBeMoved(l)'
    <2>1. pc = "gc_format" /\ pc' = "gc_sector" /\ job' = job
      BY <1>22, <1>s, GcFormatEffect
    <2>2. job.why = "none"
      BY <2>1, <1>s, Quiet DEF JobPcs, Preparing, Creating, Writing, Deleting
    <2> QED
      BY <2>1, <2>2 DEF Collecting
  <1>23. ASSUME PowerCut PROVE ToBeMoved(l)'
    BY <1>23, <1>s, Empties DEF PowerCut, Collecting
  <1>24. ASSUME BootHdr PROVE ToBeMoved(l)'
    <2>1. pc = "boot_hdr" /\ pc' \in {"boot_gc", "boot_hdr"} /\ job' = job
      BY <1>24, <1>s, BootHdrFlash
    <2>2. job.why = "none"
      BY <2>1, <1>s, Quiet DEF JobPcs, Preparing, Creating, Writing, Deleting
    <2> QED
      BY <2>1, <2>2 DEF Collecting
  <1>25. ASSUME BootGc PROVE ToBeMoved(l)'
    BY <1>25, <1>s, BootGcEffect, Quiet DEF Collecting, JobPcs, Preparing, Creating, Writing,
       Deleting
  <1>26. ASSUME BootKv PROVE ToBeMoved(l)'
    BY <1>26, <1>s, BootKvEffect, Quiet DEF Collecting, JobPcs, Preparing, Creating, Writing,
       Deleting
  <1>27. ASSUME BootEnd PROVE ToBeMoved(l)'
    BY <1>27, <1>s, BootEndEffect, Quiet DEF Collecting, JobPcs, Preparing, Creating, Writing,
       Deleting
  <1> QED
    BY <1>1, <1>2, <1>3, <1>4, <1>5, <1>6, <1>7, <1>8, <1>9, <1>10, <1>11, <1>12, <1>13, <1>14,
       <1>15, <1>16, <1>17, <1>18, <1>19, <1>20, <1>21, <1>22, <1>23, <1>24, <1>25, <1>26,
       <1>27 DEF Next, Step, Call

\* An iteration that starts anew has passed nothing.
LEMMA NothingPassed ==
    ASSUME TypeOK, NEW l \in Places, oldest' = oldest, it' = NoIt
    PROVE  ~Passed(l)'
  <1>1. l[1] \in Sector /\ l[2] \in Nat /\ l[2] > 0 /\ oldest \in Sector
    BY SectorOfPlace DEF TypeOK
  <1>2. Turn(l[1])' = Turn(l[1]) /\ Turn(l[1]) \in Nat
    BY <1>1, TurnType DEF Turn
  <1>3. it'[1] = 0 /\ it'[2] = 0
    BY DEF NoIt
  <1> QED
    BY <1>1, <1>2, <1>3 DEF Passed

\* No half-deleted KV is left behind the recovery.
LEMMA NextNoneLeft ==
    ASSUME Structure, Sound, sound', Next
    PROVE  NoneLeft'
  <1>s. /\ Shape /\ WRITE # PRE_DELETE /\ InUse = {WRITE, PRE_DELETE} /\ Structure
             /\ Collected /\ Alone
    BY DEF Structure, WRITE, PRE_DELETE, InUse, Sound
  <1>n. Jobs /\ Froms /\ Modes /\ NoneLeft
    BY <1>s DEF Shape, Sound
  <1> SUFFICES ASSUME NEW k \in Key, NEW l \in With(k, PRE_DELETE)', MustBeGone(l)'
               PROVE  Handled(l)'
    BY DEF NoneLeft
  <1>w. pc # "pre_delete" => l \in With(k, PRE_DELETE)
    BY <1>s, WithSteps, ActionPc
  <1>c. l \in With(k, PRE_DELETE) /\ MustBeGone(l) => Handled(l)
    BY <1>n DEF NoneLeft
  <1>h. pc \notin JobPcs \ {"delete_dirty", "done"} => ~Handled(l)
    BY DEF Handled
  <1>1. ASSUME NEW j \in Key, NEW v \in ValueOf[j], fdb_kv_set(j, v) PROVE Handled(l)'
    BY <1>1, <1>s, <1>w, <1>c, <1>h, SetEffect, Quiet DEF MustBeGone, JobPcs, Preparing,
       Creating, Writing, Deleting
  <1>2. ASSUME NEW j \in Key, fdb_kv_del(j) PROVE Handled(l)'
    BY <1>2, <1>s, <1>w, <1>c, <1>h, DelEffect DEF MustBeGone, JobPcs, Preparing, Creating,
       Writing, Deleting
  <1>3. ASSUME NewKv("new_kv") PROVE Handled(l)'
    BY <1>3, <1>s, <1>w, <1>c, <1>h, NewKvEffect, Quiet DEF Create, MustBeGone, JobPcs,
       Preparing, Creating, Writing, Deleting
  <1>4. ASSUME NewKv("new_kv_again") PROVE Handled(l)'
    BY <1>4, <1>s, <1>w, <1>c, <1>h, NewKvEffect, Quiet DEF Create, MustBeGone, JobPcs,
       Preparing, Creating, Writing, Deleting
  <1>5. ASSUME PreDelete PROVE Handled(l)'
    <2>1. /\ pc = "pre_delete" /\ job' = job
               /\ pc' \in {"pre_delete_dirty", "use", "pre_write", "move_kv"}
          /\ in_recovery_check' = in_recovery_check
      BY <1>5, <1>s, PreDeleteFlash
    <2>2. job.why \in {"set", "gc"}
      BY <2>1, <1>n DEF Jobs, Preparing
    <2>3. l \in With(k, PRE_DELETE) \/ l = job.from
      BY <1>5, <1>s, <2>1, WithSteps, MarksUnique
    <2>4. ~in_recovery_check
      BY <2>1, <2>2 DEF MustBeGone
    <2>5. l = job.from
      BY <2>3, <2>4, <1>c DEF MustBeGone, Handled
    <2>6. pc' \in JobPcs \ {"delete_dirty", "done"}
      BY <2>1 DEF JobPcs, Preparing, Creating
    <2> QED
      BY <2>1, <2>5, <2>6 DEF Handled
  <1>6. ASSUME PreDeleteDirty PROVE Handled(l)'
    <2>1. /\ pc \in JobPcs \ {"delete_dirty", "done"}
               /\ pc' \in JobPcs \ {"delete_dirty", "done"}
          /\ pc # "pre_delete" /\ pc' \notin {"boot_end", "boot_kv"}
          /\ job'.from = job.from /\ job'.why = job.why
          /\ UNCHANGED <<in_recovery_check, oldest, it>>
      BY <1>6, <1>s, WhereNext DEF ram, JobPcs, Preparing, Creating, Writing, Deleting,
         PreDeleteDirty, At
    <2> QED
      BY <2>1, <1>w, <1>c DEF MustBeGone, Handled, Passed, Turn
  <1>7. ASSUME Use PROVE Handled(l)'
    <2>1. /\ pc \in JobPcs \ {"delete_dirty", "done"}
               /\ pc' \in JobPcs \ {"delete_dirty", "done"}
          /\ pc # "pre_delete" /\ pc' \notin {"boot_end", "boot_kv"}
          /\ job'.from = job.from /\ job'.why = job.why
          /\ UNCHANGED <<in_recovery_check, oldest, it>>
      BY <1>7, <1>s DEF ram, JobPcs, Preparing, Creating, Writing, Deleting, Use, At
    <2> QED
      BY <2>1, <1>w, <1>c DEF MustBeGone, Handled, Passed, Turn
  <1>8. ASSUME PreWrite PROVE Handled(l)'
    <2>1. /\ pc \in JobPcs \ {"delete_dirty", "done"}
               /\ pc' \in JobPcs \ {"delete_dirty", "done"}
          /\ pc # "pre_delete" /\ pc' \notin {"boot_end", "boot_kv"}
          /\ job'.from = job.from /\ job'.why = job.why
          /\ UNCHANGED <<in_recovery_check, oldest, it>>
      BY <1>8, <1>s, PreWriteEffect DEF ram, JobPcs, Preparing, Creating, Writing, Deleting
    <2> QED
      BY <2>1, <1>w, <1>c DEF MustBeGone, Handled, Passed, Turn
  <1>9. ASSUME WriteHeader PROVE Handled(l)'
    <2>1. /\ pc \in JobPcs \ {"delete_dirty", "done"}
               /\ pc' \in JobPcs \ {"delete_dirty", "done"}
          /\ pc # "pre_delete" /\ pc' \notin {"boot_end", "boot_kv"}
          /\ job'.from = job.from /\ job'.why = job.why
          /\ UNCHANGED <<in_recovery_check, oldest, it>>
      BY <1>9, <1>s, PartFlash DEF ram, JobPcs, Preparing, Creating, Writing, Deleting
    <2> QED
      BY <2>1, <1>w, <1>c DEF MustBeGone, Handled, Passed, Turn
  <1>10. ASSUME WriteData PROVE Handled(l)'
    <2>1. /\ pc \in JobPcs \ {"delete_dirty", "done"}
               /\ pc' \in JobPcs \ {"delete_dirty", "done"}
          /\ pc # "pre_delete" /\ pc' \notin {"boot_end", "boot_kv"}
          /\ job'.from = job.from /\ job'.why = job.why
          /\ UNCHANGED <<in_recovery_check, oldest, it>>
      BY <1>10, <1>s, PartFlash DEF ram, JobPcs, Preparing, Creating, Writing, Deleting
    <2> QED
      BY <2>1, <1>w, <1>c DEF MustBeGone, Handled, Passed, Turn
  <1>11. ASSUME Write PROVE Handled(l)'
    <2>1. /\ pc = "write" /\ job' = job /\ pc' \in {"done", "delete"} /\ (pc' = "done"
               <=> job.from = NoLoc)
          /\ UNCHANGED <<in_recovery_check, oldest, it>>
      BY <1>11, <1>s, WriteEffect
    <2>2. l \in With(k, PRE_DELETE)
      BY <2>1, <1>w
    <2>3. MustBeGone(l)
      BY <2>1 DEF MustBeGone, Passed, Turn
    <2>4. l = job.from
      BY <2>2, <2>3, <1>c DEF Handled
    <2>5. l # NoLoc
      BY <2>2, <1>s, WithIsPlaces, PlaceNotNoLoc DEF Shape
    <2> QED
      BY <2>1, <2>4, <2>5 DEF Handled, JobPcs, Deleting
  <1>12. ASSUME Delete PROVE Handled(l)'
    <2>1. /\ pc = "delete" /\ UNCHANGED <<in_recovery_check, oldest, it>>
          /\ \/ pc' = "delete_dirty" /\ job' = job
             \/ pc' = "done" /\ job' = job
             \/ pc' \in {"idle", "gc_kv"} /\ job' = NoJob
             \/ job.why = "recovery" /\ pc' = "boot_kv" /\ job' = NoJob
      BY <1>12, <1>s, DeleteEffect
    <2>2. l \in With(k, PRE_DELETE) /\ l # job.from
      BY <1>12, <1>s, WithSteps
    <2>3. MustBeGone(l)
      BY <2>1, Empties DEF MustBeGone, Passed, Turn
    <2> QED
      BY <2>2, <2>3, <1>c DEF Handled
  <1>13. ASSUME DeleteDirty PROVE Handled(l)'
    <2>1. /\ pc = "delete_dirty" /\ UNCHANGED <<in_recovery_check, oldest, it>>
          /\ \/ pc' = "done" /\ job' = job
             \/ pc' \in {"idle", "gc_kv"} /\ job' = NoJob
             \/ job.why = "recovery" /\ pc' = "boot_kv" /\ job' = NoJob
      BY <1>13, <1>s, DeleteDirtyEffect DEF ram
    <2>2. MustBeGone(l)
      BY <2>1, Empties DEF MustBeGone, Passed, Turn
    <2> QED
      BY <2>1, <2>2, <1>w, <1>c, <1>h
  <1>14. ASSUME Done PROVE Handled(l)'
    BY <1>14, <1>s, <1>w, <1>c, <1>h, DoneEffect, Empties DEF MustBeGone, ram
  <1>15. ASSUME MoveKv PROVE Handled(l)'
    <2>1. /\ pc = "move_kv" /\ UNCHANGED <<in_recovery_check, oldest, it>>
      BY <1>15, <1>s, MoveKvEffect
    <2>2. CASE job'.why # "none"
      <3>1. PICK to \in Sector :
              /\ pc' = IF HasSuccessor(job.key) THEN "delete" ELSE Create(to)
              /\ job'.from = job.from /\ job'.why = job.why
        BY <1>15, <1>s, <2>2, MoveKvEffect, Empties
      <3>2. pc' \in {"delete", "use", "pre_write"}
        BY <3>1, <1>s, WhereNext
      <3>3. pc \in JobPcs \ {"delete_dirty", "done"}
              /\ pc' \in JobPcs \ {"delete_dirty", "done"}
        BY <2>1, <3>2 DEF JobPcs, Creating, Deleting
      <3> QED
        BY <2>1, <3>1, <3>2, <3>3, <1>w, <1>c DEF MustBeGone, Handled, Passed, Turn
    <2>3. CASE job'.why = "none"
      <3>1. /\ sound' = (sound /\ job.why = "recovery" /\ gc_request')
            /\ pc' = IF job.why = "gc" THEN "gc_kv" ELSE "boot_end"
        BY <1>15, <1>s, <2>3, MoveKvEffect
      <3>2. job.why = "recovery" /\ gc_request' /\ in_recovery_check /\ pc' = "boot_end"
        BY <3>1, <1>n DEF Modes
      <3> QED
        BY <2>1, <2>3, <3>2 DEF MustBeGone
    <2> QED
      BY <2>2, <2>3
  <1>16. ASSUME Gc PROVE Handled(l)'
    BY <1>16, <1>s, <1>w, <1>c, <1>h, GcEffect, Quiet DEF MustBeGone, ram, JobPcs, Preparing,
       Creating, Writing, Deleting
  <1>17. ASSUME GcNotNeeded PROVE Handled(l)'
    <2>1. /\ pc \in {"gc", "gc_sector"} /\ UNCHANGED <<oldest, in_recovery_check, job, it>>
          /\ pc' = gc.ret /\ gc.ret \in {"idle", "new_kv_again", "boot_gc", "boot_kv"}
      BY <1>17, <1>s, GcEndsEffect
    <2>2. job.why = "none"
      BY <2>1, <1>s, Quiet DEF JobPcs, Preparing, Creating, Writing, Deleting
    <2>3. l \in With(k, PRE_DELETE) /\ ~Handled(l)
      BY <2>1, <1>w, <1>h DEF JobPcs, Preparing, Creating, Writing, Deleting
    <2>4. in_recovery_check
      BY <2>3, <1>c DEF MustBeGone
    <2>5. pc' = "boot_kv" => it' = NoIt
      BY <2>1, <1>n DEF Modes
    <2>6. ~(pc' = "boot_kv" /\ Passed(l)')
      BY <2>1, <2>3, <2>5, <1>s, WithIsPlaces, NothingPassed DEF Shape
    <2> QED
      BY <2>1, <2>2, <2>4, <2>6 DEF MustBeGone
  <1>18. ASSUME GcSector PROVE Handled(l)'
    BY <1>18, <1>s, <1>w, <1>c, <1>h, GcSectorEffect, Quiet DEF MustBeGone, ram, JobPcs,
       Preparing, Creating, Writing, Deleting
  <1>19. ASSUME GcFinished PROVE Handled(l)'
    <2>1. /\ pc \in {"gc", "gc_sector"} /\ UNCHANGED <<oldest, in_recovery_check, job, it>>
          /\ pc' = gc.ret /\ gc.ret \in {"idle", "new_kv_again", "boot_gc", "boot_kv"}
      BY <1>19, <1>s, GcEndsEffect
    <2>2. job.why = "none"
      BY <2>1, <1>s, Quiet DEF JobPcs, Preparing, Creating, Writing, Deleting
    <2>3. l \in With(k, PRE_DELETE) /\ ~Handled(l)
      BY <2>1, <1>w, <1>h DEF JobPcs, Preparing, Creating, Writing, Deleting
    <2>4. in_recovery_check
      BY <2>3, <1>c DEF MustBeGone
    <2>5. pc' = "boot_kv" => it' = NoIt
      BY <2>1, <1>n DEF Modes
    <2>6. ~(pc' = "boot_kv" /\ Passed(l)')
      BY <2>1, <2>3, <2>5, <1>s, WithIsPlaces, NothingPassed DEF Shape
    <2> QED
      BY <2>1, <2>2, <2>4, <2>6 DEF MustBeGone
  <1>20. ASSUME GcKv PROVE Handled(l)'
    BY <1>20, <1>s, <1>w, <1>c, <1>h, GcKvEffect, Quiet DEF MustBeGone, ram, JobPcs, Preparing,
       Creating, Writing, Deleting
  <1>21. ASSUME GcErase PROVE Handled(l)'
    BY <1>21, <1>s, <1>w, <1>c, <1>h, Quiet DEF GcErase, At, MustBeGone, ram, JobPcs,
       Preparing, Creating, Writing, Deleting
  <1>22. ASSUME GcFormat PROVE Handled(l)'
    BY <1>22, <1>s, <1>w, <1>c, <1>h, GcFormatEffect, Quiet DEF MustBeGone, JobPcs, Preparing,
       Creating, Writing, Deleting
  <1>23. ASSUME PowerCut PROVE Handled(l)'
    BY <1>23, <1>s, Empties DEF PowerCut, MustBeGone
  <1>24. ASSUME BootHdr PROVE Handled(l)'
    BY <1>24, <1>s, <1>w, <1>c, <1>h, BootHdrFlash, Quiet DEF BootHdr, MustBeGone, ram, JobPcs,
       Preparing, Creating, Writing, Deleting
  <1>25. ASSUME BootGc PROVE Handled(l)'
    <2>1. /\ pc = "boot_gc" /\ UNCHANGED <<oldest, in_recovery_check, job>>
          /\ pc' \in {"boot_kv", "gc"} /\ (pc' = "boot_kv" => it' = NoIt)
      BY <1>25, <1>s, BootGcEffect
    <2>2. in_recovery_check /\ job.why = "none"
      BY <2>1, <1>s, Quiet DEF BootPcs, GcPcs, JobPcs, Preparing, Creating, Writing, Deleting
    <2>3. l \in With(k, PRE_DELETE)
      BY <2>1, <1>w
    <2>4. ~(pc' = "boot_kv" /\ Passed(l)')
      BY <2>1, <2>3, <1>s, WithIsPlaces, NothingPassed DEF Shape
    <2> QED
      BY <2>1, <2>2, <2>4 DEF MustBeGone
  <1>26. ASSUME BootKv PROVE Handled(l)'
    <2>1. /\ pc = "boot_kv" /\ UNCHANGED <<oldest, in_recovery_check>>
      BY <1>26, <1>s, BootKvEffect
    <2>2. in_recovery_check /\ job.why = "none"
      BY <2>1, <1>s, Quiet DEF BootPcs, GcPcs, JobPcs, Preparing, Creating, Writing, Deleting
    <2>3. l \in With(k, PRE_DELETE) /\ ~Handled(l)
      BY <2>1, <1>w, <1>h DEF JobPcs, Preparing, Creating, Writing, Deleting
    <2>4. l \in Places /\ Unfinished(l) /\ ~Passed(l)
      BY <2>1, <2>3, <1>c DEF MustBeGone, With, Unfinished
    <2>5. PICK m \in Places :
            /\ \A n \in Places : Unfinished(n) /\ ~Passed(n) /\ n # m => Before(m, n)
            /\ \/ sound' = (sound /\ \A j \in Key : With(j, PRE_DELETE) = {})
               \/ job'.from = m /\ job'.why = "recovery" /\ pc' = "move_kv"
                    /\ it' = <<Turn(m[1]), m[2]>>
      BY <1>26, <1>s, <2>4, BootKvEffect
    <2>6. job'.from = m /\ job'.why = "recovery" /\ pc' = "move_kv"
            /\ it' = <<Turn(m[1]), m[2]>>
      BY <2>3, <2>5
    <2>7. CASE l = m
      BY <2>6, <2>7 DEF Handled, JobPcs
    <2>8. CASE l # m
      <3>1. Turn(m[1]) < Turn(l[1]) \/ (m[1] = l[1] /\ m[2] < l[2])
        BY <2>4, <2>5, <2>8 DEF Before
      <3>2. /\ m[1] \in Sector /\ l[1] \in Sector /\ m[2] \in Nat /\ l[2] \in Nat
            /\ oldest \in Sector
        BY <2>4, <1>s, SectorOfPlace DEF Shape, TypeOK
      <3>3. /\ Turn(m[1]) \in Nat /\ Turn(l[1]) \in Nat /\ Turn(l[1])' = Turn(l[1])
        BY <2>1, <3>2, TurnType DEF Turn
      <3>4. ~Passed(l)'
        BY <2>6, <3>1, <3>2, <3>3 DEF Passed
      <3> QED
        BY <2>1, <2>2, <2>6, <3>4 DEF MustBeGone
    <2> QED
      BY <2>7, <2>8
  <1>27. ASSUME BootEnd PROVE Handled(l)'
    BY <1>27, <1>s, <1>w, <1>c, <1>h, BootEndEffect, Quiet DEF MustBeGone, JobPcs, Preparing,
       Creating, Writing, Deleting
  <1> QED
    BY <1>1, <1>2, <1>3, <1>4, <1>5, <1>6, <1>7, <1>8, <1>9, <1>10, <1>11, <1>12, <1>13, <1>14,
       <1>15, <1>16, <1>17, <1>18, <1>19, <1>20, <1>21, <1>22, <1>23, <1>24, <1>25, <1>26,
       <1>27 DEF Next, Step, Call

\* The empty flash of a first start is sound.
LEMMA InitSound == Init => SoundInv
  <1> SUFFICES ASSUME Init PROVE Sound
    BY DEF SoundInv
  <1>1. \A s \in Sector : DOMAIN sector[s].kv = {}
    BY DEF Init, Erased
  <1>2. Places = {}
    BY <1>1 DEF Places
  <1>3. \A k, st : With(k, st) = {}
    BY <1>2 DEF With
  <1>4. pc = "boot_hdr" /\ job = NoJob /\ kv_cache = [k \in Key |-> NoLoc]
          /\ last_is_complete_del = FALSE
    BY DEF Init
  <1>5. Unique /\ NoneLeft /\ Collected /\ Cache
    BY <1>3, <1>4 DEF Unique, NoneLeft, Collected, Cache, CacheAt
  <1>6. Alone
    BY <1>4 DEF Alone, AloneAt, Replacing, Creating, Writing
  <1>7. Resumed /\ Flag
    BY <1>4, Empties DEF Resumed, Flag, WRITE, PRE_DELETE
  <1> QED
    BY <1>5, <1>6, <1>7 DEF Sound

\* A stutter keeps what is sound.
LEMMA SameSound == Sound /\ UNCHANGED vars => Sound'
  <1> SUFFICES ASSUME Sound, UNCHANGED vars PROVE Sound'
    OBVIOUS
  <1>1. UNCHANGED <<sector, oldest, gc_request, in_recovery_check, last_is_complete_del,
     kv_cache,
                    pc, op, job, gc, it>>
    BY DEF vars, ram, hist
  <1>2. Places' = Places
    BY <1>1 DEF Places
  <1>3. \A k, st : With(k, st)' = With(k, st)
    BY <1>1, <1>2 DEF With, Kv
  <1>4. Replacing' = Replacing
    BY <1>1 DEF Replacing
  <1>5. Unique' /\ Resumed' /\ Flag'
    BY <1>1, <1>3, <1>4 DEF Sound, Unique, Resumed, Flag
  <1>6. Alone'
    BY <1>1, <1>3, <1>4 DEF Sound, Alone, AloneAt
  <1>7. Cache'
    BY <1>1, <1>3, <1>4 DEF Sound, Cache, CacheAt
  <1>8. NoneLeft'
    <2>1. \A l : MustBeGone(l)' = MustBeGone(l) /\ Handled(l)' = Handled(l)
      BY <1>1 DEF MustBeGone, Handled, Passed, Turn
    <2> QED
      BY <1>3, <2>1 DEF Sound, NoneLeft
  <1>9. Collected'
    <2>1. \A l : ToBeMoved(l)' = ToBeMoved(l)
      BY <1>1 DEF ToBeMoved
    <2> QED
      BY <1>1, <1>3, <2>1 DEF Sound, Collected, Collecting
  <1> QED
    BY <1>5, <1>6, <1>7, <1>8, <1>9 DEF Sound

\* Every step keeps what is sound, as long as the recovery saw every KV.
LEMMA NextSound == Structure /\ SoundInv /\ [Next]_vars => SoundInv'
  <1> SUFFICES ASSUME Structure, SoundInv, [Next]_vars, sound' PROVE Sound'
    BY DEF SoundInv
  <1>1. CASE Next
    <2>1. Sound
      BY <1>1, SoundBefore DEF SoundInv
    <2>2. Unique' /\ Alone' /\ Resumed' /\ Flag'
      BY <1>1, <2>1, NextUnique, NextAlone, NextResumed, NextFlag
    <2>3. NoneLeft' /\ Cache' /\ Collected'
      BY <1>1, <2>1, NextNoneLeft, NextCache, NextCollected
    <2> QED
      BY <2>2, <2>3 DEF Sound
  <1>2. CASE UNCHANGED vars
    <2>1. Sound
      BY <1>2 DEF SoundInv, vars, hist
    <2> QED
      BY <1>2, <2>1, SameSound
  <1> QED
    BY <1>1, <1>2

\* As long as no recovery ended early or without room (sound), a name has one
\* KV in use, the cache points to it, and neither a collection nor a recovery
\* leaves a KV behind: the second inductive invariant of fdb_kvdb.c.
THEOREM SoundHolds == Spec => [](Structure /\ SoundInv)
  <1>1. Init => Structure /\ SoundInv
    BY InitStructure, InitSound
  <1>2. Structure /\ SoundInv /\ [Next]_vars => (Structure /\ SoundInv)'
    BY NextStructure, NextSound
  <1> QED
    BY <1>1, <1>2, PTL DEF Spec

\* A name never has two KVs in use, for any number of keys, sectors and power
\* cuts, as long as the store is sound.
THEOREM OneCopyHolds == Spec => []OneCopy
  <1>1. Structure /\ SoundInv => OneCopy
    <2> SUFFICES ASSUME Structure, SoundInv, sound, NEW k \in Key
                 PROVE  Cardinality(With(k, WRITE)) <= 1
      BY DEF OneCopy
    <2>1. Unique
      BY DEF SoundInv, Sound
    <2>2. CASE With(k, WRITE) = {}
      BY <2>2, FS_EmptySet
    <2>3. CASE With(k, WRITE) # {}
      <3>1. PICK l \in With(k, WRITE) : TRUE
        BY <2>3
      <3>2. With(k, WRITE) = {l}
        BY <2>1, <3>1 DEF Unique
      <3>3. Cardinality({l}) = 1
        BY FS_Singleton
      <3> QED
        BY <3>2, <3>3
    <2> QED
      BY <2>2, <2>3
  <1> QED
    BY <1>1, SoundHolds, PTL

\* The first of one KV is that KV.
LEMMA FirstOfOne ==
    ASSUME TypeOK, Unique, NEW k \in Key, NEW l \in With(k, WRITE)
    PROVE  FirstPlace(With(k, WRITE)) = l
  <1>1. With(k, WRITE) \in SUBSET Loc /\ With(k, WRITE) # {} /\ oldest \in Sector
    BY WithIsPlaces, PlaceFacts DEF TypeOK
  <1>2. FirstPlace(With(k, WRITE)) \in With(k, WRITE)
    BY <1>1, FirstPlaceIsFirst
  <1> QED
    BY <1>2 DEF Unique

\* Between calls fdb_kv_get answers, through the cache, with what the flash
\* stores under the name.
THEOREM ReadsBackHolds == Spec => []ReadsBack
  <1>1. Structure /\ SoundInv => ReadsBack
    <2> SUFFICES ASSUME Structure, SoundInv, pc = "idle", sound, NEW k \in Key
                 PROVE  Get(k) = Stored(k)
      BY DEF ReadsBack
    <2>1. Sound /\ Unique /\ Cache /\ NoneLeft /\ Shape /\ TypeOK
      BY DEF SoundInv, Sound, Structure, Shape
    <2>2. ~in_recovery_check /\ pc \notin JobPcs
      BY <2>1, Quiet DEF JobPcs, Preparing, Creating, Writing, Deleting, GcPcs, BootPcs
    <2>3. With(k, PRE_DELETE) = {}
      BY <2>1, <2>2 DEF NoneLeft, MustBeGone, Handled
    <2>4. CASE find_kv(k) = NoLoc
      <3>1. With(k, WRITE) = {}
        <4>1. \A l \in Places : l # NoLoc
          BY <2>1, PlaceNotNoLoc
        <4> QED
          BY <2>1, <2>4, <4>1, Found
      <3> QED
        BY <2>3, <2>4, <3>1 DEF Get, Stored
    <2>5. CASE find_kv(k) # NoLoc
      <3>1. PICK l \in With(k, WRITE) : l = find_kv(k)
        BY <2>1, <2>5, FoundInUse
      <3>2. FirstPlace(With(k, WRITE)) = l
        BY <2>1, FirstOfOne
      <3> QED
        BY <2>5, <3>1, <3>2 DEF Get, Stored
    <2> QED
      BY <2>4, <2>5
  <1> QED
    BY <1>1, SoundHolds, PTL
===============================================================================
