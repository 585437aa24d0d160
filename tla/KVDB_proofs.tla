------------------------------ MODULE KVDB_proofs ------------------------------
(***************************************************************************)
(* Proofs about the key-value store of FlashDB, for any number of keys,    *)
(* values, sectors and power cuts: the registers belong to the operation   *)
(* at hand, a collection has an empty sector to move to, and no KV is      *)
(* written beyond the end of its sector.                                   *)
(***************************************************************************)
EXTENDS KVDB, Integers, FiniteSetTheorems, WellFoundedInduction, SequenceTheorems, TLAPS

CallPcs == {"idle", "new_kv", "new_kv_again"}
BootPcs == {"boot_hdr", "boot_gc", "boot_kv", "boot_end"}
GcPcs   == {"gc", "gc_sector", "gc_kv", "gc_erase", "gc_format"}

\* A job replaces, moves or deletes a KV, in these phases.
Preparing == {"pre_delete", "pre_delete_dirty"}
Creating  == {"use", "pre_write"}
Writing   == {"header", "data", "write"}
Deleting  == {"delete", "delete_dirty"}
JobPcs    == Preparing \cup {"move_kv"} \cup Creating \cup Writing \cup Deleting \cup {"done"}

Pcs == CallPcs \cup BootPcs \cup GcPcs \cup JobPcs

InGc == pc \in GcPcs \/ job.why = "gc"

Loc == Sector \X (Nat \ {0})
KvType == [key: Key \cup {NoValue}, val: Value \cup {NoValue},
           status: PRE_WRITE .. ERR_HDR, part: {"status", "header", "whole"}]
JobType == [key: Key \cup {NoValue}, val: Value \cup {NoValue},
            from: Loc \cup {NoLoc}, to: Loc \cup {<<s>> : s \in Sector} \cup {NoLoc},
            was: {WRITE, PRE_DELETE}, why: {"none", "set", "del", "gc", "recovery"}]
GcType == [ret: {"idle", "new_kv_again", "boot_gc", "boot_kv"}, free: Nat,
           left: 0 .. SECTOR_NUM, at: Sector, i: Nat, last: Sector]

Registers ==
    /\ gc_request \in BOOLEAN /\ in_recovery_check \in BOOLEAN
    /\ last_is_complete_del \in BOOLEAN
    /\ pc \in Pcs
    /\ op \in [key: Key, val: Value] \cup {NoOp}
    /\ job \in JobType
    /\ gc \in GcType
    /\ it \in Nat \X Nat
    /\ kv_cache \in [Key -> Loc \cup {NoLoc}]

\* What is whole has a name and a value.
Named == \A l \in Places : Kv(l).part # "status" => Kv(l).key \in Key /\ Kv(l).val \in Value

\* Which call, collection or start a step is part of.
Modes ==
    /\ in_recovery_check <=> \/ pc \in BootPcs \/ job.why = "recovery"
                             \/ gc.ret \in {"boot_gc", "boot_kv"}
    /\ ~InGc => gc = NoGc
    /\ InGc => gc_request
    /\ gc_request => InGc \/ pc = "boot_end"
    /\ op # NoOp <=> pc \in {"new_kv", "new_kv_again"} \/ gc.ret = "new_kv_again"
    /\ gc.ret # "idle" => InGc
    /\ gc.ret = "boot_kv" \/ pc = "boot_hdr" => it = NoIt

\* A job has a name, a value unless it only deletes, and a reason.
Jobs ==
    /\ pc \notin JobPcs => job = NoJob
    /\ pc \in JobPcs => job.why # "none" /\ job.key \in Key
    /\ pc \in JobPcs /\ job.why # "del" => job.val \in Value
    /\ pc = "done" => job.why = "set"
    /\ pc = "move_kv" => job.why \in {"gc", "recovery"}
    /\ pc \in Preparing => job.why \in {"set", "gc"} /\ job.was = WRITE
    /\ job.why = "del" => pc \in Deleting
    /\ job.why = "set" => job.was = WRITE
    /\ job.why = "recovery" => job.was = PRE_DELETE

\* The old KV of a job is in the flash and has the job's name.
Froms ==
    pc \in JobPcs \ {"done"} =>
        \/ job.from \in Places /\ Kv(job.from).key = job.key
        \/ job.from = NoLoc /\ job.why = "set" /\ pc \in Creating \cup Writing

\* The new KV of a job is in the flash as far as it is written.
Tos ==
    /\ \/ pc \in Creating
       \/ pc \in Preparing /\ job.why = "set"
       => \E s \in Sector : job.to = <<s>>
    /\ pc \in Writing =>
          /\ job.to \in Places
          /\ Kv(job.to) = [key |-> job.key, val |-> job.val, status |-> PRE_WRITE,
                part |-> IF pc = "header" THEN "status" ELSE IF pc = "data" THEN "header"
                         ELSE "whole"]

\* A sector's header is good but while it is formatted, the sector that is
\* collected is marked, and its KVs are moved to another one.
GcLoop ==
    /\ \A s \in Sector : ~sector[s].ok =>
          /\ sector[s] = Erased
          /\ pc = "boot_hdr" \/ (pc = "gc_format" /\ s = gc.at)
    /\ pc = "gc_format" => sector[gc.at] = Erased
    /\ pc \in {"gc_kv", "gc_erase"} \/ job.why = "gc" => sector[gc.at].dirty = "GC"
    /\ pc \in {"gc_kv", "gc_erase", "gc_format"} \/ job.why = "gc" => gc.left > 0
    /\ pc = "gc_kv" \/ job.why = "gc" => gc.i > 0
    /\ pc \in {"pre_delete_dirty", "delete_dirty"} => sector[job.from[1]].dirty = "FALSE"
    /\ job.why = "gc" => /\ job.from = <<gc.at, gc.i - 1>>
                         /\ pc \in Creating \cup Writing => job.to[1] # gc.at

Shape == TypeOK /\ Named /\ Registers /\ Modes /\ Jobs /\ Froms /\ Tos /\ GcLoop

Marked == {s \in Sector : sector[s].dirty = "GC"}

\* An empty sector is kept for the next collection; while one runs, or after a
\* power cut in one, the sector it had begun with can be formatted instead.
Spare ==
    /\ pc = "boot_hdr" => Empty # {} \/ Marked # {} \/ \E s \in Sector : ~sector[s].ok
    /\ pc = "boot_gc" => Empty # {} \/ \E s \in Marked : s >= it[1]
    /\ pc = "gc" => Empty # {} \/ Marked # {}
    /\ pc = "gc_sector" => Empty # {} \/ (gc.left = SECTOR_NUM /\ Marked # {})
    /\ \/ pc \in {"boot_kv", "boot_end", "done"} \cup CallPcs
       \/ job.why \in {"set", "del", "recovery"}
       => Empty # {}
    /\ \/ pc = "use" /\ job.why \in {"set", "recovery"}
       \/ pc \in Preparing /\ job.why = "set"
       => Empty \ {job.to[1]} # {}

\* The inductive invariant.
Structure == Shape /\ Spare

\* A set of naturals has a least member.
LEMMA LeastNatural ==
    ASSUME NEW S \in SUBSET Nat, S # {}
    PROVE  \E m \in S : \A n \in S : m <= n
  <1>1. PICK m \in S : \A n \in S : ~(<<n, m>> \in OpToRel(<, Nat))
    BY NatLessThanWellFounded, WFMin
  <1>2. \A n \in S : ~(n < m)
    BY <1>1 DEF OpToRel
  <1> QED
    BY <1>2

\* A bounded set of naturals has a greatest member.
LEMMA GreatestNatural ==
    ASSUME NEW S \in SUBSET Nat, S # {}, NEW b \in Nat, \A n \in S : n <= b
    PROVE  \E m \in S : \A n \in S : n <= m
  <1> DEFINE T == {b - n : n \in S}
  <1>1. \A n \in S : b - n \in Nat
    OBVIOUS
  <1>2. PICK d \in T : \A e \in T : d <= e
    <2>1. T \in SUBSET Nat
      BY <1>1
    <2>2. T # {}
      OBVIOUS
    <2> QED
      BY <2>1, <2>2, LeastNatural
  <1>3. PICK m \in S : d = b - m
    BY <1>2
  <1>4. \A n \in S : b - m <= b - n
    BY <1>2, <1>3
  <1> QED
    BY <1>3, <1>4

\* Two sectors never come up at the same turn of a scan.
LEMMA TurnType ==
    ASSUME oldest \in Sector
    PROVE  /\ \A s \in Sector : Turn(s) \in Nat /\ Turn(s) < SECTOR_NUM
           /\ \A s, t \in Sector : Turn(s) = Turn(t) => s = t
  <1>1. \A s \in Sector : Turn(s) = IF s >= oldest THEN s - oldest ELSE s + SECTOR_NUM - oldest
    BY SizeAssumption DEF Turn, Sector
  <1> QED
    BY <1>1, SizeAssumption DEF Sector

\* FirstSector picks a member of a set of sectors that has one.
LEMMA FirstSectorIsFirst ==
    ASSUME oldest \in Sector, NEW S \in SUBSET Sector, S # {}
    PROVE  FirstSector(S) \in S
  <1> DEFINE T == {Turn(s) : s \in S}
  <1>1. T \in SUBSET Nat /\ T # {}
    BY TurnType
  <1>2. PICK n \in T : \A m \in T : n <= m
    BY <1>1, LeastNatural
  <1>3. \E s \in S : \A t \in S : Turn(s) <= Turn(t)
    BY <1>2
  <1> QED
    BY <1>3 DEF FirstSector

\* A place is a sector and an index into the sequence of its KVs.
LEMMA PlaceFacts ==
    ASSUME TypeOK
    PROVE  /\ \A s \in Sector : /\ sector[s].kv \in Seq(KvType) /\ Len(sector[s].kv) \in Nat
                                /\ DOMAIN sector[s].kv = 1 .. Len(sector[s].kv)
           /\ Places \subseteq Loc
           /\ \A l : l \in Places <=> /\ l = <<l[1], l[2]>> /\ l[1] \in Sector
                                      /\ l[2] \in 1 .. Len(sector[l[1]].kv)
           /\ \A l \in Places : Kv(l) \in KvType
  <1>1. \A s \in Sector : sector[s].kv \in Seq(KvType)
    BY DEF TypeOK, KvType
  <1>2. \A s \in Sector : /\ Len(sector[s].kv) \in Nat
                          /\ DOMAIN sector[s].kv = 1 .. Len(sector[s].kv)
                          /\ \A i \in 1 .. Len(sector[s].kv) : sector[s].kv[i] \in KvType
    BY <1>1
  <1>3. \A l : l \in Places <=> \E s \in Sector : \E i \in 1 .. Len(sector[s].kv) : l = <<s, i>>
    BY <1>2 DEF Places
  <1>4. \A l : l \in Places <=> /\ l = <<l[1], l[2]>> /\ l[1] \in Sector
                                /\ l[2] \in 1 .. Len(sector[l[1]].kv)
    BY <1>3
  <1> QED
    BY <1>1, <1>2, <1>3, <1>4 DEF Kv, Loc

\* The place a scan meets first is one of the places, and before all others.
LEMMA FirstPlaceIsFirst ==
    ASSUME oldest \in Sector, NEW S \in SUBSET Loc, S # {}
    PROVE  /\ FirstPlace(S) \in S
           /\ \A m \in S \ {FirstPlace(S)} : Before(FirstPlace(S), m)
  <1> DEFINE T == {Turn(l[1]) : l \in S}
  <1>l. \A l \in S : l = <<l[1], l[2]>> /\ l[1] \in Sector /\ l[2] \in Nat
    BY DEF Loc
  <1>1. T \in SUBSET Nat /\ T # {}
    BY <1>l, TurnType
  <1>2. PICK n \in T : \A m \in T : n <= m
    BY <1>1, LeastNatural
  <1>3. PICK f \in S : \A l \in S : Turn(f[1]) <= Turn(l[1])
    BY <1>2
  <1> DEFINE U == {i \in Nat : <<f[1], i>> \in S}
  <1>4. U \in SUBSET Nat /\ U # {}
    BY <1>l
  <1>5. PICK i \in U : \A j \in U : i <= j
    BY <1>4, LeastNatural
  <1>6. ASSUME NEW m \in S \ {<<f[1], i>>} PROVE Before(<<f[1], i>>, m)
    <2>1. CASE m[1] = f[1]
      <3>1. m[2] \in U /\ m[2] # i
        BY <2>1, <1>l
      <3> QED
        BY <3>1, <2>1, <1>5 DEF Before
    <2>2. CASE m[1] # f[1]
      <3>1. Turn(f[1]) <= Turn(m[1]) /\ Turn(f[1]) # Turn(m[1])
        BY <1>3, <1>l, <2>2, TurnType
      <3> QED
        BY <3>1, <1>l, TurnType DEF Before
    <2> QED
      BY <2>1, <2>2
  <1>7. \E l \in S : \A m \in S \ {l} : Before(l, m)
    BY <1>5, <1>6
  <1> QED
    BY <1>7 DEF FirstPlace

\* LastPlace picks a member of a set of places that has one.
LEMMA LastPlaceIsLast ==
    ASSUME TypeOK, NEW S \in SUBSET Places, S # {}
    PROVE  LastPlace(S) \in S
  <1> DEFINE T == {Turn(l[1]) : l \in S}
  <1>l. \A l \in S : l = <<l[1], l[2]>> /\ l[1] \in Sector /\ l[2] \in Nat
                     /\ l[2] <= Len(sector[l[1]].kv)
    BY PlaceFacts
  <1>o. oldest \in Sector /\ SECTOR_NUM \in Nat
    BY SizeAssumption DEF TypeOK
  <1>1. T \in SUBSET Nat /\ T # {} /\ \A n \in T : n <= SECTOR_NUM
    BY <1>l, <1>o, TurnType
  <1>2. PICK n \in T : \A m \in T : m <= n
    BY <1>1, <1>o, GreatestNatural
  <1>3. PICK f \in S : \A l \in S : Turn(l[1]) <= Turn(f[1])
    BY <1>2
  <1> DEFINE U == {i \in Nat : <<f[1], i>> \in S}
  <1>4. U \in SUBSET Nat /\ U # {} /\ \A i \in U : i <= Len(sector[f[1]].kv)
    BY <1>l
  <1>b. Len(sector[f[1]].kv) \in Nat
    BY <1>l, PlaceFacts
  <1>5. PICK i \in U : \A j \in U : j <= i
    BY <1>4, <1>b, GreatestNatural
  <1>6. ASSUME NEW m \in S \ {<<f[1], i>>} PROVE Before(m, <<f[1], i>>)
    <2>1. CASE m[1] = f[1]
      <3>1. m[2] \in U /\ m[2] # i
        BY <2>1, <1>l
      <3> QED
        BY <3>1, <2>1, <1>5 DEF Before
    <2>2. CASE m[1] # f[1]
      <3>1. Turn(m[1]) <= Turn(f[1]) /\ Turn(f[1]) # Turn(m[1])
        BY <1>3, <1>l, <1>o, <2>2, TurnType
      <3> QED
        BY <3>1, <1>l, <1>o, TurnType DEF Before
    <2> QED
      BY <2>1, <2>2
  <1>7. \E l \in S : \A m \in S \ {l} : Before(m, l)
    BY <1>5, <1>6
  <1> QED
    BY <1>7 DEF LastPlace

\* The content of a sector.
SectorType == [ok: BOOLEAN, store: {"UNUSED", "EMPTY", "USING"},
               dirty: {"UNUSED", "FALSE", "TRUE", "GC"}, kv: Seq(KvType)]

\* A step that writes no sector header.
SameHeaders == \A s \in Sector : /\ sector'[s].ok = sector[s].ok
                                 /\ sector'[s].store = sector[s].store
                                 /\ sector'[s].dirty = sector[s].dirty

\* The type of the flash, sector by sector.
LEMMA SectorTyped == TypeOK => sector \in [Sector -> SectorType]
  BY DEF TypeOK, SectorType, KvType

\* Writing one KV leaves headers, places and every other KV alone.
LEMMA Rewrite ==
    ASSUME TypeOK, NEW l \in Places, NEW x \in KvType,
           sector' = [sector EXCEPT ![l[1]].kv[l[2]] = x]
    PROVE  /\ sector' \in [Sector -> SectorType]
           /\ SameHeaders
           /\ \A s \in Sector : Len(sector'[s].kv) = Len(sector[s].kv)
           /\ Places' = Places
           /\ Kv(l)' = x
           /\ \A m \in Places \ {l} : Kv(m)' = Kv(m)
  <1> DEFINE s == l[1]  i == l[2]
  <1>1. l = <<s, i>> /\ s \in Sector /\ i \in 1 .. Len(sector[s].kv)
    BY PlaceFacts
  <1>2. sector \in [Sector -> SectorType]
    BY SectorTyped
  <1>3. sector[s].kv \in Seq(KvType)
    BY <1>1, <1>2 DEF SectorType
  <1>4. [sector[s].kv EXCEPT ![i] = x] \in Seq(KvType)
    BY <1>1, <1>3
  <1>5. /\ sector'[s] = [sector[s] EXCEPT !.kv = [sector[s].kv EXCEPT ![i] = x]]
        /\ \A t \in Sector \ {s} : sector'[t] = sector[t]
    BY <1>1, <1>2
  <1>6. sector'[s] \in SectorType
    <2> DEFINE q == [sector[s].kv EXCEPT ![i] = x]
    <2>1. sector[s] \in SectorType
      BY <1>1, <1>2
    <2>2. q \in Seq(KvType)
      BY <1>4
    <2>3. sector'[s] = [sector[s] EXCEPT !.kv = q]
      BY <1>5
    <2> HIDE DEF q
    <2> QED
      BY <2>1, <2>2, <2>3 DEF SectorType
  <1>7. sector' \in [Sector -> SectorType]
    BY <1>1, <1>2, <1>5, <1>6
  <1>8. SameHeaders
    BY <1>1, <1>2, <1>5 DEF SectorType, SameHeaders
  <1>9. sector'[s].kv = [sector[s].kv EXCEPT ![i] = x]
    BY <1>1, <1>2, <1>5 DEF SectorType
  <1>10. \A t \in Sector : /\ Len(sector'[t].kv) = Len(sector[t].kv)
                           /\ DOMAIN sector'[t].kv = DOMAIN sector[t].kv
    <2>1. Len(sector'[s].kv) = Len(sector[s].kv) /\ DOMAIN sector'[s].kv = DOMAIN sector[s].kv
      BY <1>3, <1>9
    <2> QED
      BY <1>5, <2>1
  <1>11. Places' = Places
    BY <1>10 DEF Places
  <1>12. Kv(l)' = x
    BY <1>1, <1>3, <1>9 DEF Kv
  <1>13. ASSUME NEW m \in Places \ {l} PROVE Kv(m)' = Kv(m)
    <2>1. /\ m = <<m[1], m[2]>> /\ m[1] \in Sector /\ m[2] \in 1 .. Len(sector[m[1]].kv)
          /\ m # <<s, i>>
      BY <1>1, PlaceFacts
    <2>2. CASE m[1] = s
      BY <2>1, <2>2, <1>3, <1>9 DEF Kv
    <2>3. CASE m[1] # s
      BY <2>1, <2>3, <1>5 DEF Kv
    <2> QED
      BY <2>2, <2>3
  <1> QED
    BY <1>7, <1>8, <1>10, <1>11, <1>12, <1>13

\* write_status on a KV: its status only rises, nothing else moves.
LEMMA MarkEffect ==
    ASSUME TypeOK, NEW l \in Places, NEW st \in PRE_WRITE .. ERR_HDR, Mark(l, st)
    PROVE  /\ sector' \in [Sector -> SectorType]
           /\ SameHeaders
           /\ \A s \in Sector : Len(sector'[s].kv) = Len(sector[s].kv)
           /\ Places' = Places
           /\ Kv(l)' = [Kv(l) EXCEPT !.status = IF Kv(l).status > st THEN Kv(l).status ELSE st]
           /\ \A m \in Places \ {l} : Kv(m)' = Kv(m)
  <1> DEFINE x == [Kv(l) EXCEPT !.status = IF Kv(l).status > st THEN Kv(l).status ELSE st]
  <1>1. Kv(l) \in KvType
    BY PlaceFacts
  <1>2. x \in KvType
    BY <1>1 DEF KvType, PRE_WRITE, ERR_HDR
  <1>3. sector' = [sector EXCEPT ![l[1]].kv[l[2]] = x]
    BY DEF Mark, Kv
  <1> HIDE DEF x
  <1>4. Kv(l)' = x
    BY <1>2, <1>3, Rewrite
  <1> QED
    BY <1>2, <1>3, <1>4, Rewrite DEF x

\* Writing a further part of a KV changes that part only.
LEMMA PartEffect ==
    ASSUME TypeOK, NEW l \in Places, NEW p \in {"status", "header", "whole"},
           sector' = [sector EXCEPT ![l[1]].kv[l[2]].part = p]
    PROVE  /\ sector' \in [Sector -> SectorType]
           /\ SameHeaders
           /\ \A s \in Sector : Len(sector'[s].kv) = Len(sector[s].kv)
           /\ Places' = Places
           /\ Kv(l)' = [Kv(l) EXCEPT !.part = p]
           /\ \A m \in Places \ {l} : Kv(m)' = Kv(m)
  <1> DEFINE x == [Kv(l) EXCEPT !.part = p]
  <1>1. Kv(l) \in KvType
    BY PlaceFacts
  <1>2. x \in KvType
    BY <1>1 DEF KvType
  <1>3. sector' = [sector EXCEPT ![l[1]].kv[l[2]] = x]
    BY DEF Kv
  <1> HIDE DEF x
  <1>4. Kv(l)' = x
    BY <1>2, <1>3, Rewrite
  <1> QED
    BY <1>2, <1>3, <1>4, Rewrite DEF x

\* A step that leaves every KV where and as it is.
SameKvs == Places' = Places /\ \A l \in Places : Kv(l)' = Kv(l)

\* Writing one sector header leaves every KV alone.
LEMMA HeaderEffect ==
    ASSUME TypeOK, NEW s \in Sector, NEW h \in SectorType, h.kv = sector[s].kv,
           sector' = [sector EXCEPT ![s] = h]
    PROVE  /\ sector' \in [Sector -> SectorType]
           /\ sector'[s] = h /\ \A t \in Sector \ {s} : sector'[t] = sector[t]
           /\ SameKvs
  <1>1. sector \in [Sector -> SectorType]
    BY SectorTyped
  <1>2. sector'[s] = h /\ \A t \in Sector \ {s} : sector'[t] = sector[t]
    BY <1>1
  <1>3. \A t \in Sector : sector'[t].kv = sector[t].kv
    BY <1>2
  <1>4. Places' = Places
    BY <1>3 DEF Places
  <1>5. \A l \in Places : Kv(l)' = Kv(l)
    BY <1>3, PlaceFacts DEF Kv
  <1> QED
    BY <1>1, <1>2, <1>4, <1>5 DEF SameKvs

\* A KV put behind the last of a sector is one new place.
LEMMA AppendEffect ==
    ASSUME TypeOK, NEW s \in Sector, NEW x \in KvType,
           sector' = [sector EXCEPT ![s].kv = Append(@, x)]
    PROVE  /\ sector' \in [Sector -> SectorType]
           /\ SameHeaders
           /\ Len(sector'[s].kv) = Len(sector[s].kv) + 1
           /\ \A t \in Sector \ {s} : sector'[t] = sector[t]
           /\ <<s, Len(sector[s].kv) + 1>> \notin Places
           /\ Places' = Places \cup {<<s, Len(sector[s].kv) + 1>>}
           /\ sector'[s].kv[Len(sector[s].kv) + 1] = x
           /\ \A m \in Places : Kv(m)' = Kv(m)
  <1> DEFINE n == Len(sector[s].kv)
  <1>2. sector \in [Sector -> SectorType]
    BY SectorTyped
  <1>3. sector[s].kv \in Seq(KvType) /\ n \in Nat
    BY <1>2 DEF SectorType
  <1>4. /\ Append(sector[s].kv, x) \in Seq(KvType)
        /\ Len(Append(sector[s].kv, x)) = n + 1
        /\ Append(sector[s].kv, x)[n + 1] = x
        /\ \A i \in 1 .. n : Append(sector[s].kv, x)[i] = sector[s].kv[i]
    BY <1>3
  <1>5. /\ sector'[s] = [sector[s] EXCEPT !.kv = Append(sector[s].kv, x)]
        /\ \A t \in Sector \ {s} : sector'[t] = sector[t]
    BY <1>2
  <1>6. sector'[s] \in SectorType
    BY <1>2, <1>4, <1>5 DEF SectorType
  <1>7. sector' \in [Sector -> SectorType]
    BY <1>2, <1>5, <1>6
  <1>8. SameHeaders
    BY <1>2, <1>5 DEF SectorType, SameHeaders
  <1>9. sector'[s].kv = Append(sector[s].kv, x)
    BY <1>2, <1>5 DEF SectorType
  <1>10. \A t \in Sector : /\ t # s => DOMAIN sector'[t].kv = DOMAIN sector[t].kv
                           /\ t = s =>
                                /\ DOMAIN sector'[t].kv = DOMAIN sector[t].kv \cup {n + 1}
                                       /\ n + 1 \notin DOMAIN sector[t].kv
    BY <1>3, <1>4, <1>5, <1>9
  <1>11. <<s, n + 1>> \notin Places
    BY <1>10, <1>3 DEF Places
  <1>12. Places' = Places \cup {<<s, n + 1>>}
    BY <1>10 DEF Places
  <1>13. sector'[s].kv[n + 1] = x
    BY <1>4, <1>9
  <1>14. ASSUME NEW m \in Places PROVE Kv(m)' = Kv(m)
    <2>1. m[1] \in Sector /\ m[2] \in 1 .. Len(sector[m[1]].kv)
      BY PlaceFacts
    <2>2. CASE m[1] = s
      BY <2>1, <2>2, <1>4, <1>9 DEF Kv
    <2>3. CASE m[1] # s
      BY <2>1, <2>3, <1>5 DEF Kv
    <2> QED
      BY <2>2, <2>3
  <1> QED
    BY <1>4, <1>5, <1>7, <1>8, <1>9, <1>11, <1>12, <1>13, <1>14

\* Erasing or formatting a sector takes away the places in it, and no other.
LEMMA FormatEffect ==
    ASSUME TypeOK, NEW s \in Sector, NEW h \in SectorType, h.kv = <<>>,
           sector' = [sector EXCEPT ![s] = h]
    PROVE  /\ sector' \in [Sector -> SectorType]
           /\ sector'[s] = h /\ \A t \in Sector \ {s} : sector'[t] = sector[t]
           /\ Places' = {l \in Places : l[1] # s}
           /\ \A l \in Places' : Kv(l)' = Kv(l)
  <1>1. sector \in [Sector -> SectorType]
    BY SectorTyped
  <1>2. sector'[s] = h /\ \A t \in Sector \ {s} : sector'[t] = sector[t]
    BY <1>1
  <1>3. DOMAIN sector'[s].kv = {}
    BY <1>2
  <1>4. Places' = {l \in Places : l[1] # s}
    BY <1>2, <1>3 DEF Places
  <1>5. \A l \in Places' : Kv(l)' = Kv(l)
    <2> SUFFICES ASSUME NEW l \in Places' PROVE Kv(l)' = Kv(l)
      OBVIOUS
    <2>1. l[1] \in Sector \ {s}
      BY <1>4, PlaceFacts
    <2> QED
      BY <2>1, <1>2 DEF Kv
  <1> QED
    BY <1>1, <1>2, <1>4, <1>5

\* A fresh and an erased sector are empty.
LEMMA FreshTyped == Fresh \in SectorType /\ Erased \in SectorType /\ Fresh.kv = <<>>
  /\ Erased.kv = <<>>
  BY DEF Fresh, Erased, SectorType

\* A KV that was marked unreadable is a KV.
LEMMA BurntTyped == Burnt \in KvType
  BY DEF Burnt, KvType, PRE_WRITE, ERR_HDR

\* Reading a sector burns a KV that has no length, and may add a burnt one.
LEMMA ReadEffect ==
    ASSUME NEW c \in SectorType
    PROVE  /\ Read(c) \in SectorType
           /\ Read(c).ok = c.ok /\ Read(c).store = c.store /\ Read(c).dirty = c.dirty
           /\ DOMAIN c.kv \subseteq DOMAIN Read(c).kv
           /\ \A i \in DOMAIN c.kv : Read(c).kv[i] = IF c.kv[i].part = "status" THEN Burnt ELSE c.kv[i]
           /\ \A i \in DOMAIN Read(c).kv \ DOMAIN c.kv : Read(c).kv[i] = Burnt
  <1>1. c.kv \in Seq(KvType)
    BY DEF SectorType
  <1> DEFINE r == [i \in DOMAIN c.kv |-> IF c.kv[i].part = "status" THEN Burnt ELSE c.kv[i]]
  <1>2. \A i \in DOMAIN c.kv : r[i] \in KvType
    BY <1>1, BurntTyped
  <1>3. r \in Seq(KvType)
    <2>1. Len(c.kv) \in Nat /\ DOMAIN c.kv = 1 .. Len(c.kv)
      BY <1>1
    <2>2. r \in [1 .. Len(c.kv) -> KvType]
      BY <2>1, <1>2
    <2> HIDE DEF r
    <2> QED
      BY <2>1, <2>2, SeqDef
  <1>4. CASE c.store = "USING" /\ c.kv = <<>>
    <2>1. Read(c) = [c EXCEPT !.kv = <<Burnt>>]
      BY <1>4 DEF Read
    <2>2. Read(c).kv = <<Burnt>> /\ Read(c).ok = c.ok /\ Read(c).store = c.store
            /\ Read(c).dirty = c.dirty
      BY <2>1 DEF SectorType
    <2>3. <<Burnt>> \in Seq(KvType)
      BY BurntTyped
    <2>4. Read(c) \in SectorType
      BY <2>1, <2>3 DEF SectorType
    <2>5. DOMAIN <<Burnt>> = {1} /\ <<Burnt>>[1] = Burnt /\ DOMAIN c.kv = {}
      BY <1>4
    <2> QED
      BY <2>2, <2>4, <2>5
  <1>5. CASE ~(c.store = "USING" /\ c.kv = <<>>)
    <2>1. Read(c) = [c EXCEPT !.kv = r]
      BY <1>5 DEF Read
    <2>2. Read(c).kv = r /\ Read(c).ok = c.ok /\ Read(c).store = c.store
            /\ Read(c).dirty = c.dirty
      BY <2>1 DEF SectorType
    <2>3. Read(c) \in SectorType
      BY <2>1, <1>3 DEF SectorType
    <2> QED
      BY <2>2, <2>3
  <1> QED
    BY <1>4, <1>5

\* alloc_kv answers with a sector that may be written, and takes the last empty
\* one only for a collection.
LEMMA AllocEffect ==
    ASSUME TypeOK, NEW len, NEW to, to = alloc_kv(len), to # NoSector
    PROVE  /\ to \in Sector
           /\ sector[to].dirty \in {"FALSE", "TRUE"}
           /\ to \in Empty => gc_request \/ Cardinality(Empty) > 1
           /\ to \in Empty <=> sector[to].store = "EMPTY"
  <1> DEFINE roomy == {s \in Using : HasRoom(s, len)}
             fresh == {s \in Empty : HasRoom(s, len)}
  <1>o. oldest \in Sector
    BY DEF TypeOK
  <1>1. \A s : HasRoom(s, len) => sector[s].dirty \in {"FALSE", "TRUE"}
    BY DEF HasRoom
  <1>2. CASE roomy # {}
    <2>1. to = FirstSector(roomy)
      BY <1>2 DEF alloc_kv
    <2>2. to \in roomy
      BY <1>o, <1>2, <2>1, FirstSectorIsFirst DEF Using
    <2> QED
      BY <2>2, <1>1 DEF Using, Empty
  <1>3. CASE roomy = {}
    <2>1. to = FirstSector(fresh) /\ (gc_request \/ Cardinality(Empty) > 1)
      BY <1>3 DEF alloc_kv, FDB_GC_EMPTY_SEC_THRESHOLD
    <2>2. fresh # {}
      BY <2>1 DEF FirstSector
    <2>3. to \in fresh
      BY <1>o, <2>1, <2>2, FirstSectorIsFirst DEF Empty
    <2> QED
      BY <2>1, <2>3, <1>1 DEF Empty
  <1> QED
    BY <1>2, <1>3

\* With only selects from the places.
LEMMA WithIsPlaces == \A k, st : With(k, st) \subseteq Places
  BY DEF With

\* find_kv_no_cache finds the KV in use of a name, if there is one.
LEMMA FoundByScan ==
    ASSUME TypeOK, NEW k
    PROVE  /\ With(k, WRITE) = {} <=> find_kv_no_cache(k) = NoLoc
           /\ With(k, WRITE) # {} => find_kv_no_cache(k) \in With(k, WRITE)
  <1>1. With(k, WRITE) \in SUBSET Loc /\ oldest \in Sector
    BY WithIsPlaces, PlaceFacts DEF TypeOK
  <1>2. CASE With(k, WRITE) = {}
    BY <1>2 DEF find_kv_no_cache, FirstPlace
  <1>3. CASE With(k, WRITE) # {}
    <2>1. find_kv_no_cache(k) \in With(k, WRITE)
      BY <1>1, <1>3, FirstPlaceIsFirst DEF find_kv_no_cache
    <2>2. find_kv_no_cache(k) = <<find_kv_no_cache(k)[1], find_kv_no_cache(k)[2]>>
      BY <2>1, <1>1 DEF Loc
    <2> QED
      BY <2>1, <2>2, <1>3 DEF NoLoc
  <1> QED
    BY <1>2, <1>3

\* find_kv answers with a KV of the name, whatever the cache holds.
LEMMA Found ==
    ASSUME TypeOK, NEW k \in Key
    PROVE  \/ find_kv(k) = NoLoc /\ With(k, WRITE) = {} /\ ~InCache(k)
           \/ find_kv(k) \in Places /\ Kv(find_kv(k)).key = k
  <1>1. CASE InCache(k)
    BY <1>1 DEF find_kv, InCache
  <1>2. CASE ~InCache(k)
    BY <1>2, FoundByScan DEF find_kv, With
  <1> QED
    BY <1>1, <1>2

\* The answer of a failed alloc_kv is no sector.
LEMMA NoSectorOutside == NoSector \notin Sector
  BY SizeAssumption DEF NoSector, Sector

\* The empty address is no place.
LEMMA PlaceNotNoLoc == ASSUME TypeOK, NEW l \in Places PROVE l # NoLoc
  <1>1. l = <<l[1], l[2]>>
    BY PlaceFacts
  <1> QED
    BY <1>1 DEF NoLoc

\* The empty values of the registers have their types.
LEMMA Empties ==
    /\ NoJob \in JobType /\ NoGc \in GcType /\ NoIt \in Nat \X Nat
    /\ NoOp \notin [key: Key, val: Value]
    /\ NoJob.why = "none" /\ NoJob.was = WRITE /\ NoGc.ret = "idle"
    /\ NoJob.from = NoLoc /\ NoJob.to = NoLoc
  <1>1. 0 \in Sector /\ SECTOR_NUM \in Nat /\ 0 \in 0 .. SECTOR_NUM
    BY SizeAssumption DEF Sector
  <1>2. NoGc \in GcType
    BY <1>1 DEF NoGc, GcType
  <1>3. NoJob \in JobType
    BY DEF NoJob, JobType
  <1>4. NoOp \notin [key: Key, val: Value]
    BY NameAssumption DEF NoOp
  <1> QED
    BY <1>2, <1>3, <1>4 DEF NoJob, NoGc, NoIt

\* What one try of create_kv_blob to find room leaves behind: a job, a
\* collection and a second try, or a failed call.
LEMMA NewKvEffect ==
    ASSUME Shape, NEW p \in {"new_kv", "new_kv_again"}, NewKv(p)
    PROVE  /\ pc = p /\ op.key \in Key /\ op.val \in Value /\ op # NoOp
           /\ UNCHANGED <<sector, oldest, in_recovery_check, last_is_complete_del, it, cuts,
                          sound>>
           /\ \/ \E to \in Sector, old \in Places \cup {NoLoc} :
                    /\ to = alloc_kv(KvLen[op.val]) /\ to # NoSector /\ old = find_kv(op.key)
                    /\ old \in Loc \cup {NoLoc}
                    /\ old # NoLoc => Kv(old).key = op.key
                    /\ old = NoLoc => With(op.key, WRITE) = {}
                    /\ job'.key = op.key /\ job'.val = op.val /\ job'.from = old
                    /\ job'.to = <<to>> /\ job'.was = WRITE /\ job'.why = "set"
                    /\ job' \in JobType
                    /\ kv_cache' = [kv_cache EXCEPT ![op.key] = IF old = NoLoc THEN @ ELSE old]
                    /\ pc' = IF old = NoLoc THEN Create(to) ELSE "pre_delete"
                    /\ op' = NoOp
                    /\ UNCHANGED <<gc_request, gc>>
              \/ /\ p = "new_kv" /\ gc_request' = TRUE /\ pc' = "gc"
                 /\ gc' = [NoGc EXCEPT !.ret = "new_kv_again", !.free = KvLen[op.val]]
                 /\ gc' \in GcType /\ gc'.ret = "new_kv_again"
                 /\ UNCHANGED <<op, job, kv_cache>>
              \/ /\ gc_request' = FALSE /\ op' = NoOp /\ pc' = "idle"
                 /\ UNCHANGED <<gc, job, kv_cache>>
  <1> DEFINE to == alloc_kv(KvLen[op.val])
             old == find_kv(op.key)
  <1>1. pc = p /\ op \in [key: Key, val: Value] /\ op # NoOp
    BY DEF NewKv, At, Shape, Registers, Modes
  <1>2. KvLen[op.val] \in Nat
    BY <1>1, SizeAssumption
  <1>3. /\ old \in Places \cup {NoLoc} /\ old \in Loc \cup {NoLoc}
        /\ old # NoLoc => Kv(old).key = op.key
        /\ old = NoLoc => With(op.key, WRITE) = {}
    <2>1. Places \subseteq Loc /\ NoLoc \notin Places
      BY PlaceFacts, PlaceNotNoLoc DEF Shape
    <2> QED
      BY <1>1, <2>1, Found DEF Shape
  <1>4. to # NoSector => to \in Sector
    BY AllocEffect DEF Shape
  <1>5. [NoGc EXCEPT !.ret = "new_kv_again", !.free = KvLen[op.val]] \in GcType
    BY <1>2, Empties DEF GcType
  <1>6. [NoGc EXCEPT !.ret = "new_kv_again", !.free = KvLen[op.val]].ret = "new_kv_again"
    BY DEF NoGc
  <1>7. to \in Sector => [NoJob EXCEPT !.key = op.key, !.val = op.val, !.from = old,
                                        !.to = <<to>>, !.why = "set"] \in JobType
    <2> HIDE DEF to, old
    <2> QED
      BY <1>1, <1>3 DEF JobType, NoJob
  <1> HIDE DEF to, old
  <1>9. \/ /\ to # NoSector
           /\ job' = [NoJob EXCEPT !.key = op.key, !.val = op.val, !.from = old,
                                    !.to = <<to>>, !.why = "set"]
           /\ kv_cache' = [kv_cache EXCEPT ![op.key] = IF old = NoLoc THEN @ ELSE old]
           /\ pc' = IF old = NoLoc THEN Create(to) ELSE "pre_delete"
           /\ op' = NoOp
           /\ UNCHANGED <<gc_request, gc>>
        \/ /\ p = "new_kv"
           /\ gc_request' = TRUE
           /\ pc' = "gc"
           /\ gc' = [NoGc EXCEPT !.ret = "new_kv_again", !.free = KvLen[op.val]]
           /\ UNCHANGED <<op, job, kv_cache>>
        \/ /\ gc_request' = FALSE
           /\ op' = NoOp
           /\ pc' = "idle"
           /\ UNCHANGED <<gc, job, kv_cache>>
    BY DEF NewKv, to, old
  <1>10. UNCHANGED <<sector, oldest, in_recovery_check, last_is_complete_del, it, cuts, sound>>
    BY DEF NewKv, hist
  <1>11. CASE /\ to # NoSector
              /\ job' = [NoJob EXCEPT !.key = op.key, !.val = op.val, !.from = old,
                                       !.to = <<to>>, !.why = "set"]
              /\ kv_cache' = [kv_cache EXCEPT ![op.key] = IF old = NoLoc THEN @ ELSE old]
              /\ pc' = IF old = NoLoc THEN Create(to) ELSE "pre_delete"
              /\ op' = NoOp
              /\ UNCHANGED <<gc_request, gc>>
    <2>1. /\ job'.key = op.key /\ job'.val = op.val /\ job'.from = old
          /\ job'.to = <<to>> /\ job'.was = WRITE /\ job'.why = "set"
          /\ job' \in JobType /\ to \in Sector
      BY <1>4, <1>7, <1>11 DEF NoJob
    <2>2. to = alloc_kv(KvLen[op.val]) /\ old = find_kv(op.key)
      BY DEF to, old
    <2> QED
      BY <1>1, <1>3, <1>10, <1>11, <2>1, <2>2
  <1> QED
    BY <1>1, <1>5, <1>6, <1>9, <1>10, <1>11

\* What move_kv leaves behind once it looked for room.
LEMMA MoveKvEffect ==
    ASSUME Shape, MoveKv
    PROVE  /\ pc = "move_kv" /\ job.why \in {"gc", "recovery"} /\ job.key \in Key
                /\ job.val \in Value
           /\ UNCHANGED <<sector, oldest, in_recovery_check, last_is_complete_del, kv_cache,
                          op, gc, it, cuts>>
           /\ \/ \E to \in Sector :
                    /\ to = alloc_kv(KvLen[job.val]) /\ to # NoSector
                    /\ pc' = IF HasSuccessor(job.key) THEN "delete" ELSE Create(to)
                    /\ job' \in JobType /\ job'.to = <<to>>
                    /\ job'.key = job.key /\ job'.val = job.val /\ job'.from = job.from
                    /\ job'.was = job.was /\ job'.why = job.why
                    /\ UNCHANGED <<gc_request, sound>>
              \/ /\ gc_request' \in BOOLEAN /\ (gc_request => gc_request')
                 /\ pc' = IF job.why = "gc" THEN "gc_kv" ELSE "boot_end"
                 /\ job' = NoJob
                 /\ sound' = (sound /\ job.why = "recovery" /\ gc_request')
  <1> DEFINE to == alloc_kv(KvLen[job.val])
  <1>1. pc = "move_kv" /\ job.why \in {"gc", "recovery"} /\ job.key \in Key /\ job.val \in Value
    BY DEF MoveKv, At, Shape, Jobs, JobPcs
  <1>2. to # NoSector => to \in Sector
    BY AllocEffect DEF Shape
  <1>3. ASSUME to \in Sector, job' = [job EXCEPT !.to = <<to>>]
        PROVE  /\ job' \in JobType /\ job'.to = <<to>>
               /\ job'.key = job.key /\ job'.val = job.val /\ job'.from = job.from
               /\ job'.was = job.was /\ job'.why = job.why
    <2> HIDE DEF to
    <2> QED
      BY <1>3 DEF Shape, Registers, JobType
  <1>4. GcRequestAfter(KvLen[job.val]) \in BOOLEAN /\ (gc_request
          => GcRequestAfter(KvLen[job.val]))
    BY DEF GcRequestAfter, Shape, Registers
  <1> HIDE DEF to
  <1>5. \/ /\ to # NoSector
           /\ pc' = IF HasSuccessor(job.key) THEN "delete" ELSE Create(to)
           /\ job' = [job EXCEPT !.to = <<to>>]
           /\ UNCHANGED <<gc_request, sound>>
        \/ /\ gc_request' = GcRequestAfter(KvLen[job.val])
           /\ pc' = IF job.why = "gc" THEN "gc_kv" ELSE "boot_end"
           /\ job' = NoJob
           /\ sound' = (sound /\ job.why = "recovery" /\ gc_request')
    BY DEF MoveKv, to
  <1>6. UNCHANGED <<sector, oldest, in_recovery_check, last_is_complete_del, kv_cache, op, gc,
                    it, cuts>>
    BY DEF MoveKv
  <1>7. to # NoSector => to \in Sector /\ to = alloc_kv(KvLen[job.val])
    BY <1>2 DEF to
  <1> QED
    BY <1>1, <1>3, <1>4, <1>5, <1>6, <1>7

\* What the start of a move puts into the registers.
LEMMA MoveEffect ==
    ASSUME TypeOK, Named, NEW l \in Places, Kv(l).part # "status",
           Kv(l).status \in {WRITE, PRE_DELETE}, NEW why \in {"gc", "recovery"}, move(l, why)
    PROVE  /\ job'.key = Kv(l).key /\ job'.val = Kv(l).val /\ job'.from = l /\ job'.to = NoLoc
           /\ job'.was = Kv(l).status /\ job'.why = why
           /\ job'.key \in Key /\ job'.val \in Value
           /\ job' \in JobType
           /\ pc' = IF Kv(l).status = WRITE THEN "pre_delete" ELSE "move_kv"
  <1>1. job' = [key |-> Kv(l).key, val |-> Kv(l).val, from |-> l, to |-> NoLoc,
                was |-> Kv(l).status, why |-> why]
    BY DEF move, NoJob
  <1>2. Kv(l).key \in Key /\ Kv(l).val \in Value /\ l \in Loc
    BY PlaceFacts DEF Named
  <1>3. job' \in JobType
    BY <1>1, <1>2 DEF JobType
  <1>4. /\ job'.key = Kv(l).key /\ job'.val = Kv(l).val /\ job'.from = l /\ job'.to = NoLoc
        /\ job'.was = Kv(l).status /\ job'.why = why
    BY <1>1
  <1>5. pc' = IF Kv(l).status = WRITE THEN "pre_delete" ELSE "move_kv"
    BY DEF move
  <1> QED
    BY <1>2, <1>3, <1>4, <1>5

\* do_gc goes on with the first KV it still has to move, or erases.
LEMMA GcKvEffect ==
    ASSUME Shape, GcKv
    PROVE  /\ pc = "gc_kv" /\ UNCHANGED <<sector, ram, op, it, hist>>
           /\ gc.at \in Sector /\ gc.i \in Nat /\ gc.i > 0
           /\ \/ /\ \A i \in gc.i .. Len(sector[gc.at].kv) : ~Movable(sector[gc.at].kv[i])
                 /\ pc' = "gc_erase" /\ UNCHANGED <<job, gc>>
              \/ \E i \in gc.i .. Len(sector[gc.at].kv) :
                    /\ <<gc.at, i>> \in Places /\ i \in Nat
                    /\ Movable(Kv(<<gc.at, i>>))
                    /\ \A j \in gc.i .. Len(sector[gc.at].kv) : Movable(sector[gc.at].kv[j]) => i <= j
                    /\ gc' = [gc EXCEPT !.i = i + 1]
                    /\ gc' \in GcType
                    /\ gc'.i = i + 1 /\ gc'.at = gc.at /\ gc'.ret = gc.ret /\ gc'.left = gc.left
                    /\ job' \in JobType /\ job'.key = Kv(<<gc.at, i>>).key /\ job'.key \in Key
                    /\ job'.val = Kv(<<gc.at, i>>).val /\ job'.val \in Value
                    /\ job'.from = <<gc.at, i>> /\ job'.to = NoLoc
                    /\ job'.was = Kv(<<gc.at, i>>).status /\ job'.why = "gc"
                    /\ pc' = IF Kv(<<gc.at, i>>).status = WRITE THEN "pre_delete" ELSE "move_kv"
  <1> DEFINE rest == {i \in gc.i .. Len(sector[gc.at].kv) : Movable(sector[gc.at].kv[i])}
  <1>1. pc = "gc_kv" /\ UNCHANGED <<sector, ram, op, it, hist>>
    BY DEF GcKv, At
  <1>2. gc.at \in Sector /\ gc.i \in Nat /\ gc.i > 0
    BY <1>1 DEF GcLoop, Shape, Registers, GcType
  <1>3. Len(sector[gc.at].kv) \in Nat
    BY <1>2, PlaceFacts DEF Shape
  <1>4. CASE rest = {}
    BY <1>1, <1>2, <1>4 DEF GcKv
  <1>5. CASE rest # {}
    <2>1. rest \in SUBSET Nat
      BY <1>2, <1>3
    <2>2. \E i \in rest : \A j \in rest : i <= j
      BY <1>5, <2>1, LeastNatural
    <2> HIDE DEF rest
    <2>3. PICK i \in rest : /\ \A j \in rest : i <= j
                            /\ gc' = [gc EXCEPT !.i = i + 1] /\ move(<<gc.at, i>>, "gc")
      BY <1>5, <2>2 DEF GcKv, rest
    <2> USE DEF rest
    <2>4. <<gc.at, i>> \in Places /\ i \in Nat /\ Movable(Kv(<<gc.at, i>>))
      BY <2>3, <1>2, <1>3, PlaceFacts DEF Kv, Shape
    <2>5. /\ gc' \in GcType
          /\ gc'.i = i + 1 /\ gc'.at = gc.at /\ gc'.ret = gc.ret /\ gc'.left = gc.left
      <3>1. gc \in GcType /\ gc' = [gc EXCEPT !.i = i + 1] /\ i + 1 \in Nat
        BY <2>3, <2>4 DEF Shape, Registers
      <3> QED
        BY <3>1 DEF GcType
    <2>6. /\ job' \in JobType /\ job'.key = Kv(<<gc.at, i>>).key /\ job'.key \in Key
          /\ job'.val = Kv(<<gc.at, i>>).val /\ job'.val \in Value
          /\ job'.from = <<gc.at, i>> /\ job'.to = NoLoc
          /\ job'.was = Kv(<<gc.at, i>>).status /\ job'.why = "gc"
          /\ pc' = IF Kv(<<gc.at, i>>).status = WRITE THEN "pre_delete" ELSE "move_kv"
      <3>1. PICK l \in Places : l = <<gc.at, i>>
        BY <2>4
      <3>2. Kv(l).part # "status" /\ Kv(l).status \in {WRITE, PRE_DELETE} /\ move(l, "gc")
        BY <2>3, <2>4, <3>1 DEF Movable
      <3>3. /\ job'.key = Kv(l).key /\ job'.val = Kv(l).val /\ job'.to = NoLoc
            /\ job'.key \in Key /\ job'.val \in Value /\ job'.from = l
                 /\ job'.was = Kv(l).status
            /\ job'.why = "gc" /\ job' \in JobType
            /\ pc' = IF Kv(l).status = WRITE THEN "pre_delete" ELSE "move_kv"
        BY <3>2, MoveEffect DEF Shape
      <3> QED
        BY <3>1, <3>3
    <2> QED
      BY <1>1, <1>2, <2>3, <2>4, <2>5, <2>6
  <1> QED
    BY <1>4, <1>5

\* do_gc marks a dirty sector before it moves anything out of it.
LEMMA GcSectorEffect ==
    ASSUME Shape, GcSector
    PROVE  /\ pc = "gc_sector" /\ pc' = "gc_kv" /\ UNCHANGED <<ram, op, job, it, hist>>
           /\ \E s \in Sector :
                /\ sector' = [sector EXCEPT ![s].dirty = "GC"]
                /\ sector[s].dirty \in {"TRUE", "GC"}
                /\ gc'.at = s /\ gc'.i = 1 /\ gc'.ret = gc.ret
           /\ gc' \in GcType /\ gc'.left > 0
  <1>1. pc = "gc_sector" /\ pc' = "gc_kv" /\ UNCHANGED <<ram, op, job, it, hist>>
    BY DEF GcSector, At
  <1>2. gc \in GcType /\ SECTOR_NUM \in Nat /\ SECTOR_NUM > 1
    BY SizeAssumption DEF Shape, Registers
  <1>t. gc.left \in Nat
    BY <1>2 DEF GcType
  <1>3. DirtyIn \in SUBSET Nat /\ DirtyIn # {}
    <2>1. DirtyIn \in SUBSET Nat
      BY <1>t DEF DirtyIn
    <2> QED
      BY <2>1 DEF GcSector
  <1>4. \E n \in DirtyIn : \A m \in DirtyIn : n <= m
    BY <1>3, LeastNatural
  <1>5. PICK n \in DirtyIn :
          /\ sector' = [sector EXCEPT ![(gc.at + n) % SECTOR_NUM].dirty = "GC"]
          /\ gc' = [gc EXCEPT !.at = (gc.at + n) % SECTOR_NUM, !.left = @ - n, !.i = 1]
    BY <1>4 DEF GcSector
  <1> DEFINE s == (gc.at + n) % SECTOR_NUM
  <1>6. n \in Nat /\ n < gc.left /\ sector[s].dirty \in {"TRUE", "GC"}
    BY <1>2 DEF DirtyIn, GcType
  <1>7. s \in Sector
    BY <1>2, <1>6 DEF Sector, GcType
  <1> HIDE DEF s
  <1>8. gc'.at = s /\ gc'.i = 1 /\ gc'.ret = gc.ret /\ gc'.left = gc.left - n
    BY <1>2, <1>5 DEF GcType, s
  <1>9. gc.left - n \in 0 .. SECTOR_NUM /\ gc.left - n > 0
    BY <1>2, <1>6 DEF GcType
  <1>10. gc' \in GcType
    BY <1>2, <1>5, <1>7, <1>9 DEF GcType, s
  <1> QED
    BY <1>1, <1>5, <1>6, <1>7, <1>8, <1>9, <1>10 DEF s

\* do_gc formats the sector, moves oldest_addr and goes on behind it.
LEMMA GcFormatEffect ==
    ASSUME Shape, GcFormat
    PROVE  /\ pc = "gc_format" /\ pc' = "gc_sector"
           /\ sector' = [sector EXCEPT ![gc.at] = Fresh]
           /\ UNCHANGED <<gc_request, in_recovery_check, last_is_complete_del, kv_cache, op,
                          job, it, hist>>
           /\ oldest' \in Sector /\ gc' \in GcType /\ gc'.ret = gc.ret
           /\ gc'.left < SECTOR_NUM
  <1>1. gc \in GcType /\ SECTOR_NUM \in Nat /\ SECTOR_NUM > 1
    BY SizeAssumption DEF Shape, Registers
  <1>2. get_next_sector_addr(gc.at) \in Sector
    BY <1>1 DEF GcType, get_next_sector_addr, Sector
  <1>3. gc.left > 0 /\ pc = "gc_format"
    BY DEF GcFormat, At, Shape, GcLoop
  <1>4. PICK n \in {0, gc.left - 1} :
          gc' = [gc EXCEPT !.at = get_next_sector_addr(@), !.last = gc.at, !.i = 0, !.left = n]
    BY DEF GcFormat
  <1>5. n \in 0 .. SECTOR_NUM /\ n < SECTOR_NUM
    BY <1>1, <1>3 DEF GcType
  <1>6. gc' \in GcType /\ gc'.left = n /\ gc'.ret = gc.ret
    BY <1>1, <1>2, <1>4, <1>5 DEF GcType
  <1> QED
    BY <1>2, <1>3, <1>5, <1>6 DEF GcFormat

\* A collection that finds nothing to do gives the control back.
LEMMA GcEndsEffect ==
    ASSUME Shape, GcNotNeeded \/ GcFinished
    PROVE  /\ \/ pc = "gc" /\ Cardinality(Empty) > 1
              \/ pc = "gc_sector" /\ DirtyIn = {}
           /\ gc_request' = FALSE /\ pc' = gc.ret /\ gc' = NoGc
           /\ gc.ret \in {"idle", "new_kv_again", "boot_gc", "boot_kv"}
           /\ UNCHANGED <<sector, oldest, in_recovery_check, last_is_complete_del, kv_cache,
                          op, job, it, cuts, sound>>
  <1>1. gc.ret \in {"idle", "new_kv_again", "boot_gc", "boot_kv"}
    BY DEF Shape, Registers, GcType
  <1>2. GcEnds
    BY DEF GcNotNeeded, GcFinished
  <1>3. \/ pc = "gc" /\ Cardinality(Empty) > 1
        \/ pc = "gc_sector" /\ DirtyIn = {}
    <2>1. GcNotNeeded => pc = "gc" /\ Cardinality(Empty) > 1
      BY DEF GcNotNeeded, At, FDB_GC_EMPTY_SEC_THRESHOLD
    <2>2. GcFinished => pc = "gc_sector" /\ DirtyIn = {}
      BY DEF GcFinished, At
    <2> QED
      BY <2>1, <2>2
  <1> QED
    BY <1>1, <1>2, <1>3 DEF GcEnds, hist

\* A collection starts with the oldest sector.
LEMMA GcEffect ==
    ASSUME Shape, Gc
    PROVE  /\ pc = "gc" /\ pc' = "gc_sector" /\ UNCHANGED <<sector, ram, op, job, it, hist>>
           /\ gc' \in GcType /\ gc'.left = SECTOR_NUM /\ gc'.at = oldest /\ gc'.ret = gc.ret
  <1>1. gc \in GcType /\ oldest \in Sector /\ SECTOR_NUM \in 0 .. SECTOR_NUM /\ 0 \in Sector
    BY SizeAssumption DEF Shape, Registers, TypeOK, Sector
  <1>2. Empty # {} => FirstSector(Empty) \in Sector
    <2>1. Empty \in SUBSET Sector
      BY DEF Empty
    <2>2. Empty # {} => FirstSector(Empty) \in Empty
      BY <1>1, <2>1, FirstSectorIsFirst
    <2> QED
      BY <2>1, <2>2
  <1>3. PICK t \in Sector : gc' = [gc EXCEPT !.left = SECTOR_NUM, !.at = oldest, !.last = t]
    BY <1>1, <1>2 DEF Gc
  <1>4. gc' \in GcType /\ gc'.left = SECTOR_NUM /\ gc'.at = oldest /\ gc'.ret = gc.ret
    BY <1>1, <1>3 DEF GcType
  <1> QED
    BY <1>4 DEF Gc, At

\* The start looks for the next sector that was being collected.
LEMMA BootGcEffect ==
    ASSUME Shape, BootGc
    PROVE  /\ pc = "boot_gc"
           /\ UNCHANGED <<sector, oldest, in_recovery_check, last_is_complete_del, kv_cache,
                          op, job, hist>>
           /\ \/ /\ \A s \in Sector : s >= it[1] => sector[s].dirty # "GC"
                 /\ pc' = "boot_kv" /\ it' = NoIt /\ UNCHANGED <<gc_request, gc>>
              \/ \E s \in Sector :
                    /\ s >= it[1] /\ sector[s].dirty = "GC" /\ it' = <<1 + s, 0>>
                    /\ it' \in Nat \X Nat
                    /\ gc_request' = TRUE /\ pc' = "gc"
                    /\ gc' \in GcType /\ gc'.ret = "boot_gc"
  <1> DEFINE rest == {s \in Sector : s >= it[1] /\ sector[s].dirty = "GC"}
  <1>0. /\ pc = "boot_gc"
        /\ UNCHANGED <<sector, oldest, in_recovery_check, last_is_complete_del, kv_cache, op,
                       job, hist>>
    BY DEF BootGc, At
  <1>1. CASE rest = {}
    BY <1>0, <1>1 DEF BootGc
  <1>2. CASE rest # {}
    <2>1. rest \in SUBSET Nat
      BY SizeAssumption DEF Sector
    <2>2. \E s \in rest : \A t \in rest : s <= t
      BY <1>2, <2>1, LeastNatural
    <2> HIDE DEF rest
    <2>3. PICK s \in rest : it' = <<1 + s, 0>>
      BY <1>2, <2>2 DEF BootGc, rest
    <2>4. /\ gc_request' = TRUE /\ pc' = "gc"
          /\ gc' = [NoGc EXCEPT !.ret = "boot_gc", !.free = SECTOR_NUM * SecSize]
      BY <1>2 DEF BootGc, rest
    <2>5. SECTOR_NUM * SecSize \in Nat
      BY SizeAssumption
    <2>6. gc' \in GcType /\ gc'.ret = "boot_gc"
      BY <2>4, <2>5, Empties DEF GcType
    <2>7. s \in Nat /\ s \in Sector /\ s >= it[1] /\ sector[s].dirty = "GC"
      BY <2>1 DEF rest
    <2> QED
      BY <1>0, <2>3, <2>4, <2>6, <2>7
  <1> QED
    BY <1>1, <1>2

\* The start ends with a collection that was asked for, or is done.
LEMMA BootEndEffect ==
    ASSUME Shape, BootEnd
    PROVE  /\ pc = "boot_end" /\ it' = NoIt
           /\ UNCHANGED <<sector, oldest, gc_request, last_is_complete_del, kv_cache, op, job,
                          hist>>
           /\ \/ /\ gc_request /\ pc' = "gc" /\ gc' \in GcType /\ gc'.ret = "boot_kv"
                 /\ UNCHANGED in_recovery_check
              \/ ~gc_request /\ pc' = "idle" /\ in_recovery_check' = FALSE /\ UNCHANGED gc
  <1>1. SECTOR_NUM * SecSize \in Nat
    BY SizeAssumption
  <1>2. /\ [NoGc EXCEPT !.ret = "boot_kv", !.free = SECTOR_NUM * SecSize] \in GcType
        /\ [NoGc EXCEPT !.ret = "boot_kv", !.free = SECTOR_NUM * SecSize].ret = "boot_kv"
    BY <1>1, Empties DEF GcType
  <1> QED
    BY <1>2 DEF BootEnd, At

\* What check_and_recovery_kv_cb stops at: a KV half written or half deleted.
Unfinished(l) == \/ Kv(l).part # "status" /\ Kv(l).status = PRE_WRITE
                 \/ Kv(l).part = "whole" /\ Kv(l).status = PRE_DELETE

\* The recovery handles the first unfinished KV that it has not passed.
LEMMA BootKvEffect ==
    ASSUME Shape, BootKv
    PROVE  /\ pc = "boot_kv"
           /\ UNCHANGED <<oldest, gc_request, in_recovery_check, last_is_complete_del, op, gc,
                          cuts>>
           /\ \A k \in Key : kv_cache'[k] = kv_cache[k] \/ kv_cache'[k] \in With(k, WRITE)
           /\ kv_cache' \in [Key -> Loc \cup {NoLoc}]
           /\ \/ /\ \A l \in Places : Unfinished(l) => Passed(l)
                 /\ pc' = "boot_end" /\ UNCHANGED <<sector, job, it, sound>>
              \/ \E l \in Places :
                    /\ Unfinished(l) /\ ~Passed(l)
                    /\ \A m \in Places : Unfinished(m) /\ ~Passed(m) /\ m # l => Before(l, m)
                    /\ \/ /\ Kv(l).status = PRE_WRITE /\ Mark(l, ERR_HDR)
                          /\ pc' = "boot_end" /\ UNCHANGED <<job, it>>
                          /\ sound' = (sound /\ \A k \in Key : With(k, PRE_DELETE) = {})
                       \/ /\ Kv(l).part = "whole" /\ Kv(l).status = PRE_DELETE
                          /\ job' \in JobType /\ job'.key = Kv(l).key /\ job'.val = Kv(l).val
                          /\ job'.from = l /\ job'.to = NoLoc
                          /\ job'.was = PRE_DELETE /\ job'.why = "recovery"
                          /\ job'.key \in Key /\ job'.val \in Value
                          /\ pc' = "move_kv"
                          /\ it' = <<Turn(l[1]), l[2]>>
                          /\ it' \in Nat \X Nat
                          /\ UNCHANGED <<sector, sound>>
  <1> DEFINE ahead == {l \in Places : ~Passed(l)}
             S == {l \in ahead : \/ Kv(l).part # "status" /\ Kv(l).status = PRE_WRITE
                                 \/ Kv(l).part = "whole" /\ Kv(l).status = PRE_DELETE}
             here == FirstPlace(S)
             seen(k) == {l \in ahead \cap With(k, WRITE) : here = NoLoc \/ Before(l, here)}
  <1>0. /\ pc = "boot_kv"
        /\ UNCHANGED <<oldest, gc_request, in_recovery_check, last_is_complete_del, op, gc,
                       cuts>>
        /\ TypeOK /\ Named /\ oldest \in Sector /\ kv_cache \in [Key -> Loc \cup {NoLoc}]
    BY DEF BootKv, At, Shape, TypeOK, Registers
  <1>1. kv_cache' = [k \in Key |-> IF seen(k) = {} THEN kv_cache[k] ELSE LastPlace(seen(k))]
    BY DEF BootKv
  <1>2. \A k \in Key : seen(k) \in SUBSET Places /\ seen(k) \subseteq With(k, WRITE)
    OBVIOUS
  <1>3. \A k \in Key : seen(k) # {} => LastPlace(seen(k)) \in seen(k)
    BY <1>0, <1>2, LastPlaceIsLast
  <1> HIDE DEF seen
  <1>4. \A k \in Key : kv_cache'[k] = kv_cache[k] \/ kv_cache'[k] \in With(k, WRITE)
    BY <1>1, <1>2, <1>3
  <1>5. Places \subseteq Loc
    BY <1>0, PlaceFacts
  <1>6. kv_cache' \in [Key -> Loc \cup {NoLoc}]
    BY <1>0, <1>1, <1>2, <1>3, <1>5
  <1>7. S \subseteq Places /\ \A l \in Places : l \in S <=> Unfinished(l) /\ ~Passed(l)
    BY DEF Unfinished
  <1>8. CASE S = {}
    <2>1. here = NoLoc
      BY <1>8 DEF FirstPlace
    <2>2. pc' = "boot_end" /\ UNCHANGED <<sector, job, it, sound>>
      BY <2>1 DEF BootKv
    <2> QED
      BY <1>0, <1>4, <1>6, <1>7, <1>8, <2>2
  <1>9. CASE S # {}
    <2>1. here \in S /\ \A m \in S \ {here} : Before(here, m)
      BY <1>0, <1>5, <1>7, <1>9, FirstPlaceIsFirst
    <2>2. here # NoLoc
      BY <2>1, <1>0, <1>7, PlaceNotNoLoc
    <2>3. \/ /\ Kv(here).status = PRE_WRITE /\ Mark(here, ERR_HDR)
             /\ pc' = "boot_end" /\ UNCHANGED <<job, it>>
             /\ sound' = (sound /\ \A k \in Key : With(k, PRE_DELETE) = {})
          \/ /\ Kv(here).status = PRE_DELETE /\ move(here, "recovery")
             /\ it' = <<Turn(here[1]), here[2]>>
             /\ UNCHANGED <<sector, sound>>
      BY <2>2 DEF BootKv
    <2>4. Kv(here).status = PRE_DELETE => Kv(here).part = "whole"
      BY <2>1 DEF PRE_WRITE, PRE_DELETE
    <2> HIDE DEF here
    <2>5. PICK l \in Places : l = here
      BY <2>1, <1>7
    <2>6. Unfinished(l) /\ ~Passed(l)
          /\ \A m \in Places : Unfinished(m) /\ ~Passed(m) /\ m # l => Before(l, m)
      BY <2>1, <2>5, <1>7
    <2>7. Turn(l[1]) \in Nat /\ l[2] \in Nat
      <3>1. l[1] \in Sector /\ l[2] \in Nat
        BY <1>0, PlaceFacts
      <3> QED
        BY <1>0, <3>1, TurnType
    <2>8. CASE /\ Kv(l).status = PRE_DELETE /\ move(l, "recovery")
               /\ it' = <<Turn(l[1]), l[2]>> /\ UNCHANGED <<sector, sound>>
      <3>1. Kv(l).part = "whole" /\ Kv(l).status \in {WRITE, PRE_DELETE} /\ Kv(l).status # WRITE
        BY <2>4, <2>5, <2>8 DEF WRITE, PRE_DELETE
      <3>2. /\ job' \in JobType /\ job'.key = Kv(l).key /\ job'.val = Kv(l).val
            /\ job'.from = l /\ job'.to = NoLoc
            /\ job'.was = PRE_DELETE /\ job'.why = "recovery"
            /\ job'.key \in Key /\ job'.val \in Value /\ pc' = "move_kv"
        BY <1>0, <2>8, <3>1, MoveEffect
      <3> QED
        BY <2>8, <3>1, <3>2, <1>0, <1>4, <1>6, <2>6, <2>7
    <2>9. CASE Kv(l).status = PRE_WRITE /\ Mark(l, ERR_HDR)
               /\ pc' = "boot_end" /\ UNCHANGED <<job, it>>
               /\ sound' = (sound /\ \A k \in Key : With(k, PRE_DELETE) = {})
      BY <1>0, <1>4, <1>6, <2>6, <2>9
    <2>10. CASE /\ Kv(l).status = PRE_DELETE /\ move(l, "recovery")
                /\ it' = <<Turn(l[1]), l[2]>> /\ UNCHANGED <<sector, sound>>
      BY <2>8, <2>10
    <2> QED
      BY <2>3, <2>5, <2>9, <2>10
  <1> QED
    BY <1>8, <1>9

\* Where a deletion or a creation goes on, by what it is part of.
LEMMA WhereNext ==
    ASSUME Shape
    PROVE  /\ pc \in Preparing => Prepared \in {"use", "pre_write", "move_kv"}
           /\ pc \in Preparing => (Prepared = "move_kv" <=> job.why = "gc")
           /\ pc \in Deleting => /\ job.why = "set" => Deleted = "done"
                                 /\ job.why = "del" => Deleted = "idle"
                                 /\ job.why = "gc" => Deleted = "gc_kv"
                                 /\ job.why = "recovery" => Deleted = "boot_kv"
           /\ \A s \in Sector : Create(s) \in {"use", "pre_write"}
           /\ pc \in JobPcs => job.why \in {"set", "del", "gc", "recovery"}
  <1>1. pc \in JobPcs => job.why \in {"set", "del", "gc", "recovery"}
    BY DEF Shape, Registers, Jobs, JobType
  <1>2. \A s \in Sector : Create(s) \in {"use", "pre_write"}
    BY DEF Create
  <1>3. pc \in Deleting => /\ job.why = "set" => Deleted = "done"
                           /\ job.why = "del" => Deleted = "idle"
                           /\ job.why = "gc" => Deleted = "gc_kv"
                           /\ job.why = "recovery" => Deleted = "boot_kv"
    BY DEF Deleted
  <1>4. pc \in Preparing => job.why \in {"set", "gc"}
    BY DEF Shape, Jobs
  <1>5. pc \in Preparing => Prepared \in {"use", "pre_write", "move_kv"}
                            /\ (Prepared = "move_kv" <=> job.why = "gc")
    BY <1>4 DEF Prepared, Create
  <1> QED
    BY <1>1, <1>2, <1>3, <1>5

\* What the registers say between jobs.
LEMMA Quiet ==
    ASSUME Shape
    PROVE  /\ pc \notin JobPcs => job = NoJob /\ job.why = "none" /\ job.was = WRITE
           /\ pc \notin JobPcs \cup GcPcs =>
                /\ gc = NoGc /\ gc.ret = "idle" /\ ~InGc
                /\ in_recovery_check <=> pc \in BootPcs
                /\ op # NoOp <=> pc \in {"new_kv", "new_kv_again"}
                /\ gc_request => pc = "boot_end"
           /\ pc \in GcPcs =>
                /\ InGc /\ gc_request
                /\ in_recovery_check <=> gc.ret \in {"boot_gc", "boot_kv"}
                /\ op # NoOp <=> gc.ret = "new_kv_again"
  <1>1. pc \notin JobPcs => job = NoJob /\ job.why = "none" /\ job.was = WRITE
    BY Empties DEF Shape, Jobs
  <1>2. ASSUME pc \notin JobPcs \cup GcPcs
        PROVE  /\ gc = NoGc /\ gc.ret = "idle" /\ ~InGc
               /\ in_recovery_check <=> pc \in BootPcs
               /\ op # NoOp <=> pc \in {"new_kv", "new_kv_again"}
               /\ gc_request => pc = "boot_end"
    <2>1. ~InGc
      BY <1>1, <1>2 DEF InGc
    <2>2. gc = NoGc /\ gc.ret = "idle"
      BY <2>1, Empties DEF Shape, Modes
    <2> QED
      BY <1>1, <1>2, <2>1, <2>2 DEF Shape, Modes
  <1>3. ASSUME pc \in GcPcs
        PROVE  /\ InGc /\ gc_request
               /\ in_recovery_check <=> gc.ret \in {"boot_gc", "boot_kv"}
               /\ op # NoOp <=> gc.ret = "new_kv_again"
    <2>1. pc \notin JobPcs /\ pc \notin BootPcs /\ pc \notin CallPcs
      BY <1>3 DEF GcPcs, JobPcs, BootPcs, CallPcs, Preparing, Creating, Writing, Deleting
    <2>2. InGc
      BY <1>3 DEF InGc
    <2> QED
      BY <1>1, <2>1, <2>2 DEF Shape, Modes, CallPcs
  <1> QED
    BY <1>1, <1>2, <1>3

\* fdb_kv_set only notes its key and value.
LEMMA SetEffect ==
    ASSUME Shape, NEW k \in Key, NEW v \in ValueOf[k], fdb_kv_set(k, v)
    PROVE  /\ pc = "idle" /\ pc' = "new_kv" /\ op' \in [key: Key, val: Value] /\ op' # NoOp
           /\ UNCHANGED <<sector, oldest, gc_request, in_recovery_check, last_is_complete_del,
                          kv_cache,
                          job, gc, it, cuts, sound>>
  <1>1. v \in Value
    BY SizeAssumption
  <1>2. op' \in [key: Key, val: Value]
    BY <1>1 DEF fdb_kv_set
  <1> QED
    BY <1>2, Empties DEF fdb_kv_set, At, ram, hist

\* fdb_kv_del goes on with the KV that find_kv answers with.
LEMMA DelEffect ==
    ASSUME Shape, NEW k \in Key, fdb_kv_del(k)
    PROVE  /\ pc = "idle" /\ pc' = "delete"
           /\ job' \in JobType /\ job'.key = k /\ job'.why = "del" /\ job'.was = WRITE
           /\ job'.from \in Places /\ Kv(job'.from).key = k /\ job'.from = find_kv(k)
           /\ kv_cache' = [kv_cache EXCEPT ![k] = job'.from] /\ job'.from \in Loc
           /\ UNCHANGED <<sector, oldest, gc_request, in_recovery_check, last_is_complete_del,
                          op, gc, it, cuts, sound>>
  <1> DEFINE f == find_kv(k)
  <1>1. f \in Places /\ f \in Loc /\ Kv(f).key = k
    BY Found, PlaceFacts DEF fdb_kv_del, Shape
  <1> HIDE DEF f
  <1>2. job' = [NoJob EXCEPT !.key = k, !.from = f, !.why = "del"]
        /\ kv_cache' = [kv_cache EXCEPT ![k] = f]
    BY DEF fdb_kv_del, f
  <1>3. job'.key = k /\ job'.why = "del" /\ job'.was = WRITE /\ job'.from = f
    BY <1>2 DEF NoJob
  <1>4. job' \in JobType
    BY <1>1, <1>2 DEF JobType, NoJob
  <1> QED
    BY <1>1, <1>2, <1>3, <1>4 DEF fdb_kv_del, At, hist, f

\* The status written first makes the place of the new KV.
LEMMA PreWriteEffect ==
    ASSUME Shape, PreWrite
    PROVE  /\ pc = "pre_write" /\ pc' = "header" /\ UNCHANGED <<ram, op, gc, it, hist>>
           /\ \E s \in Sector :
                /\ job.to = <<s>>
                /\ sector' = [sector EXCEPT ![s].kv =
                     Append(@, [key |-> job.key, val |-> job.val, status |-> PRE_WRITE,
                                part |-> "status"])]
                /\ job'.to = <<s, Len(sector[s].kv) + 1>>
           /\ job' \in JobType
           /\ job'.key = job.key /\ job'.val = job.val /\ job'.from = job.from
           /\ job'.was = job.was /\ job'.why = job.why
  <1>1. pc = "pre_write" /\ pc' = "header" /\ UNCHANGED <<ram, op, gc, it, hist>>
    BY DEF PreWrite, At
  <1>2. PICK s \in Sector : job.to = <<s>>
    BY <1>1 DEF Shape, Tos, Creating
  <1>3. job.to[1] = s
    BY <1>2
  <1>4. Len(sector[s].kv) \in Nat
    BY PlaceFacts DEF Shape
  <1>5. job' = [job EXCEPT !.to = <<s, Len(sector[s].kv) + 1>>]
    BY <1>3 DEF PreWrite
  <1>6. <<s, Len(sector[s].kv) + 1>> \in Loc
    BY <1>4 DEF Loc
  <1> DEFINE t == <<s, Len(sector[s].kv) + 1>>
  <1> HIDE DEF t
  <1>7. /\ job' \in JobType /\ job'.to = t
        /\ job'.key = job.key /\ job'.val = job.val /\ job'.from = job.from
        /\ job'.was = job.was /\ job'.why = job.why
    BY <1>5, <1>6 DEF Shape, Registers, JobType, t
  <1> QED
    BY <1>1, <1>2, <1>3, <1>7 DEF PreWrite, t

\* The status WRITE makes the new KV the one in use, in the cache too.
LEMMA WriteEffect ==
    ASSUME Shape, Write
    PROVE  /\ pc = "write" /\ Mark(job.to, WRITE)
           /\ job.to \in Places /\ job.to \in Loc /\ job.key \in Key
           /\ kv_cache' = [kv_cache EXCEPT ![job.key] = job.to]
           /\ pc' \in {"done", "delete"}
           /\ pc' = "done" <=> job.from = NoLoc
           /\ job.from = NoLoc => job.why = "set"
           /\ UNCHANGED <<oldest, gc_request, in_recovery_check, last_is_complete_del,
                          op, job, gc, it, hist>>
  <1>1. pc = "write"
    BY DEF Write, At
  <1>2. job.to \in Places /\ job.to \in Loc
    BY <1>1, PlaceFacts DEF Shape, Tos, Writing
  <1>3. job.key \in Key
    BY <1>1 DEF Shape, Jobs, JobPcs, Writing
  <1>4. job.from = NoLoc => job.why = "set"
    BY <1>1, PlaceNotNoLoc DEF Shape, Froms, JobPcs, Writing
  <1> QED
    BY <1>1, <1>2, <1>3, <1>4 DEF Write

\* The status DELETED ends the deletion, or leaves the dirty status to write.
LEMMA DeleteEffect ==
    ASSUME Shape, Delete
    PROVE  /\ pc = "delete" /\ Mark(job.from, DELETED)
           /\ kv_cache' = [kv_cache EXCEPT ![job.key] = IF last_is_complete_del THEN @
                ELSE NoLoc]
           /\ last_is_complete_del' = FALSE
           /\ \/ pc' = "delete_dirty" /\ job' = job /\ sector[job.from[1]].dirty = "FALSE"
              \/ job.why = "set" /\ pc' = "done" /\ job' = job
              \/ job.why = "del" /\ pc' = "idle" /\ job' = NoJob
              \/ job.why = "gc" /\ pc' = "gc_kv" /\ job' = NoJob
              \/ job.why = "recovery" /\ pc' = "boot_kv" /\ job' = NoJob
           /\ UNCHANGED <<oldest, gc_request, in_recovery_check, op, gc, it, hist>>
  <1>1. pc = "delete"
    BY DEF Delete, At
  <1>2. pc \in Deleting /\ pc \in JobPcs
    BY <1>1 DEF Deleting, JobPcs
  <1>3. \/ pc' = "delete_dirty" /\ job' = job /\ sector[job.from[1]].dirty = "FALSE"
        \/ pc' = Deleted /\ job' = IF job.why = "set" THEN job ELSE NoJob
    BY DEF Delete
  <1> QED
    BY <1>1, <1>2, <1>3, WhereNext DEF Delete

\* The dirty status ends a deletion.
LEMMA DeleteDirtyEffect ==
    ASSUME Shape, DeleteDirty
    PROVE  /\ pc = "delete_dirty" /\ MakeDirty
           /\ \/ job.why = "set" /\ pc' = "done" /\ job' = job
              \/ job.why = "del" /\ pc' = "idle" /\ job' = NoJob
              \/ job.why = "gc" /\ pc' = "gc_kv" /\ job' = NoJob
              \/ job.why = "recovery" /\ pc' = "boot_kv" /\ job' = NoJob
           /\ UNCHANGED <<ram, op, gc, it, hist>>
  <1>1. pc = "delete_dirty"
    BY DEF DeleteDirty, At
  <1>2. pc \in Deleting /\ pc \in JobPcs
    BY <1>1 DEF Deleting, JobPcs
  <1>3. pc' = Deleted /\ job' = IF job.why = "set" THEN job ELSE NoJob
    BY DEF DeleteDirty
  <1> QED
    BY <1>1, <1>2, <1>3, WhereNext DEF DeleteDirty

\* A call of fdb_kv_set ends with the collection it asked for.
LEMMA DoneEffect ==
    ASSUME Shape, Done
    PROVE  /\ pc = "done" /\ job' = NoJob /\ UNCHANGED <<sector, ram, op, it, hist>>
           /\ \/ gc_request /\ pc' = "gc" /\ gc' \in GcType /\ gc'.ret = "idle"
              \/ ~gc_request /\ pc' = "idle" /\ gc' = gc
  <1>1. pc = "done"
    BY DEF Done, At
  <1>2. job.val \in Value
    BY <1>1 DEF Shape, Jobs, JobPcs
  <1>3. KvLen[job.val] \in Nat
    BY <1>2, SizeAssumption
  <1>4. /\ [NoGc EXCEPT !.free = KvLen[job.val]] \in GcType
        /\ [NoGc EXCEPT !.free = KvLen[job.val]].ret = "idle"
    BY <1>3, Empties DEF GcType
  <1> QED
    BY <1>1, <1>4 DEF Done

\* Every step keeps what a job must hold.
LEMMA NextJobs ==
    ASSUME Shape, Next
    PROVE  Jobs'
  <1> USE DEF Jobs, Shape, JobPcs, Preparing, Creating, Writing, Deleting
  <1>1. ASSUME NEW k \in Key, NEW v \in ValueOf[k], fdb_kv_set(k, v) PROVE Jobs'
    BY <1>1, SetEffect
  <1>2. ASSUME NEW k \in Key, fdb_kv_del(k) PROVE Jobs'
    BY <1>2, DelEffect
  <1>3. ASSUME NewKv("new_kv") PROVE Jobs'
    BY <1>3, NewKvEffect DEF Create
  <1>4. ASSUME NewKv("new_kv_again") PROVE Jobs'
    BY <1>4, NewKvEffect DEF Create
  <1>5. ASSUME PreDelete PROVE Jobs'
    BY <1>5, WhereNext DEF PreDelete, At
  <1>6. ASSUME PreDeleteDirty PROVE Jobs'
    BY <1>6, WhereNext DEF PreDeleteDirty, At
  <1>7. ASSUME Use PROVE Jobs'
    BY <1>7 DEF Use, At
  <1>8. ASSUME PreWrite PROVE Jobs'
    BY <1>8, PreWriteEffect
  <1>9. ASSUME WriteHeader PROVE Jobs'
    BY <1>9 DEF WriteHeader, WritePart, At
  <1>10. ASSUME WriteData PROVE Jobs'
    BY <1>10 DEF WriteData, WritePart, At
  <1>11. ASSUME Write PROVE Jobs'
    BY <1>11, WriteEffect
  <1>12. ASSUME Delete PROVE Jobs'
    BY <1>12, DeleteEffect, Empties
  <1>13. ASSUME DeleteDirty PROVE Jobs'
    BY <1>13, DeleteDirtyEffect, Empties
  <1>14. ASSUME Done PROVE Jobs'
    BY <1>14, DoneEffect, Empties
  <1>15. ASSUME MoveKv PROVE Jobs'
    BY <1>15, MoveKvEffect, Empties DEF Create
  <1>16. ASSUME Gc PROVE Jobs'
    BY <1>16, GcEffect
  <1>17. ASSUME GcNotNeeded PROVE Jobs'
    BY <1>17, GcEndsEffect
  <1>18. ASSUME GcSector PROVE Jobs'
    BY <1>18, GcSectorEffect
  <1>19. ASSUME GcFinished PROVE Jobs'
    BY <1>19, GcEndsEffect
  <1>20. ASSUME GcKv PROVE Jobs'
    BY <1>20, GcKvEffect
  <1>21. ASSUME GcErase PROVE Jobs'
    BY <1>21 DEF GcErase, At
  <1>22. ASSUME GcFormat PROVE Jobs'
    BY <1>22, GcFormatEffect
  <1>23. ASSUME PowerCut PROVE Jobs'
    BY <1>23, Empties DEF PowerCut
  <1>24. ASSUME BootHdr PROVE Jobs'
    BY <1>24 DEF BootHdr, At
  <1>25. ASSUME BootGc PROVE Jobs'
    BY <1>25, BootGcEffect
  <1>26. ASSUME BootKv PROVE Jobs'
    BY <1>26, BootKvEffect
  <1>27. ASSUME BootEnd PROVE Jobs'
    BY <1>27, BootEndEffect
  <1> QED
    BY <1>1, <1>2, <1>3, <1>4, <1>5, <1>6, <1>7, <1>8, <1>9, <1>10, <1>11, <1>12, <1>13, <1>14,
       <1>15, <1>16, <1>17, <1>18, <1>19, <1>20, <1>21, <1>22, <1>23, <1>24, <1>25, <1>26,
       <1>27 DEF Next, Step, Call

\* Every step keeps the registers within their types.
LEMMA NextRegisters ==
    ASSUME Shape, Next
    PROVE  Registers'
  <1> USE DEF Registers, Shape, Pcs, CallPcs, BootPcs, GcPcs, JobPcs, Preparing, Creating,
     Writing, Deleting
  <1>1. ASSUME NEW k \in Key, NEW v \in ValueOf[k], fdb_kv_set(k, v) PROVE Registers'
    BY <1>1, SetEffect
  <1>2. ASSUME NEW k \in Key, fdb_kv_del(k) PROVE Registers'
    BY <1>2, DelEffect
  <1>3. ASSUME NewKv("new_kv") PROVE Registers'
    <2>1. op' \in [key: Key, val: Value] \cup {NoOp} /\ job' \in JobType /\ gc' \in GcType
      BY <1>3, NewKvEffect, Empties
    <2>2. pc' \in Pcs /\ gc_request' \in BOOLEAN
      BY <1>3, NewKvEffect DEF Create
    <2>3. kv_cache' \in [Key -> Loc \cup {NoLoc}]
      BY <1>3, NewKvEffect
    <2>4. UNCHANGED <<in_recovery_check, last_is_complete_del, it>>
      BY <1>3, NewKvEffect
    <2> QED
      BY <2>1, <2>2, <2>3, <2>4
  <1>4. ASSUME NewKv("new_kv_again") PROVE Registers'
    <2>1. op' \in [key: Key, val: Value] \cup {NoOp} /\ job' \in JobType /\ gc' \in GcType
      BY <1>4, NewKvEffect, Empties
    <2>2. pc' \in Pcs /\ gc_request' \in BOOLEAN
      BY <1>4, NewKvEffect DEF Create
    <2>3. kv_cache' \in [Key -> Loc \cup {NoLoc}]
      BY <1>4, NewKvEffect
    <2>4. UNCHANGED <<in_recovery_check, last_is_complete_del, it>>
      BY <1>4, NewKvEffect
    <2> QED
      BY <2>1, <2>2, <2>3, <2>4
  <1>5. ASSUME PreDelete PROVE Registers'
    BY <1>5, WhereNext DEF PreDelete, At
  <1>6. ASSUME PreDeleteDirty PROVE Registers'
    BY <1>6, WhereNext DEF PreDeleteDirty, At, ram
  <1>7. ASSUME Use PROVE Registers'
    BY <1>7 DEF Use, ram
  <1>8. ASSUME PreWrite PROVE Registers'
    BY <1>8, PreWriteEffect DEF ram
  <1>9. ASSUME WriteHeader PROVE Registers'
    BY <1>9 DEF WriteHeader, WritePart, ram
  <1>10. ASSUME WriteData PROVE Registers'
    BY <1>10 DEF WriteData, WritePart, ram
  <1>11. ASSUME Write PROVE Registers'
    BY <1>11, WriteEffect
  <1>12. ASSUME Delete PROVE Registers'
    BY <1>12, DeleteEffect, Empties
  <1>13. ASSUME DeleteDirty PROVE Registers'
    BY <1>13, DeleteDirtyEffect, Empties DEF ram
  <1>14. ASSUME Done PROVE Registers'
    BY <1>14, DoneEffect, Empties DEF ram
  <1>15. ASSUME MoveKv PROVE Registers'
    BY <1>15, MoveKvEffect, Empties DEF Create
  <1>16. ASSUME Gc PROVE Registers'
    BY <1>16, GcEffect DEF ram
  <1>17. ASSUME GcNotNeeded PROVE Registers'
    BY <1>17, GcEndsEffect, Empties
  <1>18. ASSUME GcSector PROVE Registers'
    BY <1>18, GcSectorEffect DEF ram
  <1>19. ASSUME GcFinished PROVE Registers'
    BY <1>19, GcEndsEffect, Empties
  <1>20. ASSUME GcKv PROVE Registers'
    BY <1>20, GcKvEffect DEF ram
  <1>21. ASSUME GcErase PROVE Registers'
    BY <1>21 DEF GcErase, ram
  <1>22. ASSUME GcFormat PROVE Registers'
    BY <1>22, GcFormatEffect
  <1>23. ASSUME PowerCut PROVE Registers'
    BY <1>23, Empties DEF PowerCut
  <1>24. ASSUME BootHdr PROVE Registers'
    BY <1>24 DEF BootHdr, ram
  <1>25. ASSUME BootGc PROVE Registers'
    BY <1>25, BootGcEffect, Empties
  <1>26. ASSUME BootKv PROVE Registers'
    BY <1>26, BootKvEffect
  <1>27. ASSUME BootEnd PROVE Registers'
    BY <1>27, BootEndEffect, Empties
  <1> QED
    BY <1>1, <1>2, <1>3, <1>4, <1>5, <1>6, <1>7, <1>8, <1>9, <1>10, <1>11, <1>12, <1>13, <1>14,
       <1>15, <1>16, <1>17, <1>18, <1>19, <1>20, <1>21, <1>22, <1>23, <1>24, <1>25, <1>26,
       <1>27 DEF Next, Step, Call

\* Every step keeps the flags in line with what is running.
LEMMA NextModes ==
    ASSUME Shape, Next
    PROVE  Modes'
  <1> USE DEF Modes, Shape, Jobs, InGc, Registers, GcType, CallPcs, BootPcs, GcPcs, JobPcs,
     Preparing, Creating, Writing, Deleting
  <1>1. ASSUME NEW k \in Key, NEW v \in ValueOf[k], fdb_kv_set(k, v) PROVE Modes'
    BY <1>1, SetEffect
  <1>2. ASSUME NEW k \in Key, fdb_kv_del(k) PROVE Modes'
    BY <1>2, DelEffect, Quiet
  <1>3. ASSUME NewKv("new_kv") PROVE Modes'
    BY <1>3, NewKvEffect, Quiet DEF Create
  <1>4. ASSUME NewKv("new_kv_again") PROVE Modes'
    BY <1>4, NewKvEffect, Quiet DEF Create
  <1>5. ASSUME PreDelete PROVE Modes'
    BY <1>5, WhereNext DEF PreDelete, At
  <1>6. ASSUME PreDeleteDirty PROVE Modes'
    BY <1>6, WhereNext DEF PreDeleteDirty, At, ram
  <1>7. ASSUME Use PROVE Modes'
    BY <1>7 DEF Use, At, ram
  <1>8. ASSUME PreWrite PROVE Modes'
    BY <1>8, PreWriteEffect DEF ram
  <1>9. ASSUME WriteHeader PROVE Modes'
    BY <1>9 DEF WriteHeader, WritePart, At, ram
  <1>10. ASSUME WriteData PROVE Modes'
    BY <1>10 DEF WriteData, WritePart, At, ram
  <1>11. ASSUME Write PROVE Modes'
    BY <1>11, WriteEffect
  <1>12. ASSUME Delete PROVE Modes'
    <2>1. in_recovery_check' <=> (pc' \in BootPcs \/ job'.why = "recovery"
            \/ gc'.ret \in {"boot_gc", "boot_kv"})
      <3>1. pc = "delete" /\ gc' = gc /\ in_recovery_check' = in_recovery_check
        BY <1>12, DeleteEffect
      <3>2. in_recovery_check <=> (job.why = "recovery" \/ gc.ret \in {"boot_gc", "boot_kv"})
        BY <3>1
      <3>3. (pc' \in BootPcs \/ job'.why = "recovery") <=> job.why = "recovery"
        BY <1>12, DeleteEffect, Empties
      <3> QED
        BY <3>1, <3>2, <3>3
    <2>2. ~InGc' => gc' = NoGc
      BY <1>12, DeleteEffect
    <2>3. InGc' => gc_request'
      BY <1>12, DeleteEffect, Empties
    <2>4. gc_request' => InGc' \/ pc' = "boot_end"
      BY <1>12, DeleteEffect
    <2>5. op' # NoOp <=> (pc' \in {"new_kv", "new_kv_again"} \/ gc'.ret = "new_kv_again")
      BY <1>12, DeleteEffect, Empties
    <2>6. gc'.ret # "idle" => InGc'
      BY <1>12, DeleteEffect
    <2>7. (gc'.ret = "boot_kv" \/ pc' = "boot_hdr") => it' = NoIt
      BY <1>12, DeleteEffect
    <2> QED
      BY <2>1, <2>2, <2>3, <2>4, <2>5, <2>6, <2>7
  <1>13. ASSUME DeleteDirty PROVE Modes'
    BY <1>13, DeleteDirtyEffect, Empties DEF ram
  <1>14. ASSUME Done PROVE Modes'
    BY <1>14, DoneEffect, Empties DEF ram
  <1>15. ASSUME MoveKv PROVE Modes'
    BY <1>15, MoveKvEffect, Empties DEF Create
  <1>16. ASSUME Gc PROVE Modes'
    BY <1>16, GcEffect DEF ram
  <1>17. ASSUME GcNotNeeded PROVE Modes'
    <2>1. in_recovery_check' <=> (pc' \in BootPcs \/ job'.why = "recovery"
            \/ gc'.ret \in {"boot_gc", "boot_kv"})
      <3>1. /\ pc \in {"gc", "gc_sector"} /\ pc' = gc.ret /\ gc' = NoGc /\ job' = job
            /\ in_recovery_check' = in_recovery_check
        BY <1>17, GcEndsEffect
      <3>2. job'.why = "none" /\ gc'.ret = "idle"
        BY <3>1, Empties
      <3>3. in_recovery_check <=> gc.ret \in {"boot_gc", "boot_kv"}
        BY <3>1, Quiet
      <3>4. pc' \in BootPcs <=> gc.ret \in {"boot_gc", "boot_kv"}
        BY <1>17, <3>1, GcEndsEffect
      <3> QED
        BY <3>1, <3>2, <3>3, <3>4
    <2>2. ~InGc' => gc' = NoGc
      BY <1>17, GcEndsEffect
    <2>3. InGc' => gc_request'
      BY <1>17, GcEndsEffect, Quiet
    <2>4. gc_request' => InGc' \/ pc' = "boot_end"
      BY <1>17, GcEndsEffect
    <2>5. op' # NoOp <=> (pc' \in {"new_kv", "new_kv_again"} \/ gc'.ret = "new_kv_again")
      BY <1>17, GcEndsEffect, Empties
    <2>6. gc'.ret # "idle" => InGc'
      BY <1>17, GcEndsEffect, Empties
    <2>7. (gc'.ret = "boot_kv" \/ pc' = "boot_hdr") => it' = NoIt
      BY <1>17, GcEndsEffect, Empties
    <2> QED
      BY <2>1, <2>2, <2>3, <2>4, <2>5, <2>6, <2>7
  <1>18. ASSUME GcSector PROVE Modes'
    BY <1>18, GcSectorEffect DEF ram
  <1>19. ASSUME GcFinished PROVE Modes'
    <2>1. in_recovery_check' <=> (pc' \in BootPcs \/ job'.why = "recovery"
            \/ gc'.ret \in {"boot_gc", "boot_kv"})
      <3>1. /\ pc \in {"gc", "gc_sector"} /\ pc' = gc.ret /\ gc' = NoGc /\ job' = job
            /\ in_recovery_check' = in_recovery_check
        BY <1>19, GcEndsEffect
      <3>2. job'.why = "none" /\ gc'.ret = "idle"
        BY <3>1, Empties
      <3>3. in_recovery_check <=> gc.ret \in {"boot_gc", "boot_kv"}
        BY <3>1, Quiet
      <3>4. pc' \in BootPcs <=> gc.ret \in {"boot_gc", "boot_kv"}
        BY <1>19, <3>1, GcEndsEffect
      <3> QED
        BY <3>1, <3>2, <3>3, <3>4
    <2>2. ~InGc' => gc' = NoGc
      BY <1>19, GcEndsEffect
    <2>3. InGc' => gc_request'
      BY <1>19, GcEndsEffect, Quiet
    <2>4. gc_request' => InGc' \/ pc' = "boot_end"
      BY <1>19, GcEndsEffect
    <2>5. op' # NoOp <=> (pc' \in {"new_kv", "new_kv_again"} \/ gc'.ret = "new_kv_again")
      BY <1>19, GcEndsEffect, Empties
    <2>6. gc'.ret # "idle" => InGc'
      BY <1>19, GcEndsEffect, Empties
    <2>7. (gc'.ret = "boot_kv" \/ pc' = "boot_hdr") => it' = NoIt
      BY <1>19, GcEndsEffect, Empties
    <2> QED
      BY <2>1, <2>2, <2>3, <2>4, <2>5, <2>6, <2>7
  <1>20. ASSUME GcKv PROVE Modes'
    <2>1. in_recovery_check' <=> (pc' \in BootPcs \/ job'.why = "recovery"
            \/ gc'.ret \in {"boot_gc", "boot_kv"})
      <3>1. pc' \in {"gc_erase", "pre_delete", "move_kv"} /\ job'.why # "recovery"
              /\ gc'.ret = gc.ret
        BY <1>20, GcKvEffect, Quiet
      <3>2. in_recovery_check' = in_recovery_check /\ pc = "gc_kv"
        BY <1>20, GcKvEffect DEF ram
      <3> QED
        BY <3>1, <3>2, Quiet
    <2>2. ~InGc' => gc' = NoGc
      BY <1>20, GcKvEffect
    <2>3. InGc' => gc_request'
      BY <1>20, GcKvEffect DEF ram
    <2>4. gc_request' => InGc' \/ pc' = "boot_end"
      BY <1>20, GcKvEffect
    <2>5. op' # NoOp <=> (pc' \in {"new_kv", "new_kv_again"} \/ gc'.ret = "new_kv_again")
      BY <1>20, GcKvEffect, Empties
    <2>6. gc'.ret # "idle" => InGc'
      BY <1>20, GcKvEffect
    <2>7. (gc'.ret = "boot_kv" \/ pc' = "boot_hdr") => it' = NoIt
      BY <1>20, GcKvEffect
    <2> QED
      BY <2>1, <2>2, <2>3, <2>4, <2>5, <2>6, <2>7
  <1>21. ASSUME GcErase PROVE Modes'
    BY <1>21 DEF GcErase, At, ram
  <1>22. ASSUME GcFormat PROVE Modes'
    BY <1>22, GcFormatEffect
  <1>23. ASSUME PowerCut PROVE Modes'
    BY <1>23, Empties DEF PowerCut
  <1>24. ASSUME BootHdr PROVE Modes'
    BY <1>24 DEF BootHdr, At, ram
  <1>25. ASSUME BootGc PROVE Modes'
    <2>1. in_recovery_check' <=> (pc' \in BootPcs \/ job'.why = "recovery"
            \/ gc'.ret \in {"boot_gc", "boot_kv"})
      BY <1>25, BootGcEffect
    <2>2. ~InGc' => gc' = NoGc
      BY <1>25, BootGcEffect
    <2>3. InGc' => gc_request'
      BY <1>25, BootGcEffect
    <2>4. gc_request' => InGc' \/ pc' = "boot_end"
      BY <1>25, BootGcEffect
    <2>5. op' # NoOp <=> (pc' \in {"new_kv", "new_kv_again"} \/ gc'.ret = "new_kv_again")
      BY <1>25, BootGcEffect, Quiet
    <2>6. gc'.ret # "idle" => InGc'
      BY <1>25, BootGcEffect
    <2>7. (gc'.ret = "boot_kv" \/ pc' = "boot_hdr") => it' = NoIt
      BY <1>25, BootGcEffect
    <2> QED
      BY <2>1, <2>2, <2>3, <2>4, <2>5, <2>6, <2>7
  <1>26. ASSUME BootKv PROVE Modes'
    BY <1>26, BootKvEffect, Quiet
  <1>27. ASSUME BootEnd PROVE Modes'
    <2>1. in_recovery_check' <=> (pc' \in BootPcs \/ job'.why = "recovery"
            \/ gc'.ret \in {"boot_gc", "boot_kv"})
      BY <1>27, BootEndEffect, Quiet
    <2>2. ~InGc' => gc' = NoGc
      BY <1>27, BootEndEffect
    <2>3. InGc' => gc_request'
      BY <1>27, BootEndEffect
    <2>4. gc_request' => InGc' \/ pc' = "boot_end"
      BY <1>27, BootEndEffect
    <2>5. op' # NoOp <=> (pc' \in {"new_kv", "new_kv_again"} \/ gc'.ret = "new_kv_again")
      BY <1>27, BootEndEffect, Quiet
    <2>6. gc'.ret # "idle" => InGc'
      BY <1>27, BootEndEffect
    <2>7. (gc'.ret = "boot_kv" \/ pc' = "boot_hdr") => it' = NoIt
      BY <1>27, BootEndEffect
    <2> QED
      BY <2>1, <2>2, <2>3, <2>4, <2>5, <2>6, <2>7
  <1> QED
    BY <1>1, <1>2, <1>3, <1>4, <1>5, <1>6, <1>7, <1>8, <1>9, <1>10, <1>11, <1>12, <1>13, <1>14,
       <1>15, <1>16, <1>17, <1>18, <1>19, <1>20, <1>21, <1>22, <1>23, <1>24, <1>25, <1>26,
       <1>27 DEF Next, Step, Call

\* A step that leaves the flash alone leaves headers and KVs alone.
LEMMA SameFlash ==
    ASSUME TypeOK, sector' = sector
    PROVE  sector' \in [Sector -> SectorType] /\ SameHeaders /\ SameKvs
  <1>1. Places' = Places
    BY DEF Places
  <1>2. \A l \in Places : Kv(l)' = Kv(l)
    BY DEF Kv
  <1> QED
    BY <1>1, <1>2, SectorTyped DEF SameHeaders, SameKvs

\* Writing a dirty status changes one header.
LEMMA DirtyEffect ==
    ASSUME TypeOK, NEW s \in Sector, NEW d \in {"TRUE", "GC"},
           sector' = [sector EXCEPT ![s].dirty = d]
    PROVE  /\ sector' \in [Sector -> SectorType]
           /\ SameKvs
           /\ \A t \in Sector : /\ sector'[t].ok = sector[t].ok
                /\ sector'[t].store = sector[t].store
                                /\ sector'[t].dirty = IF t = s THEN d ELSE sector[t].dirty
           /\ \A t \in Sector \ {s} : sector'[t] = sector[t]
  <1> DEFINE h == [sector[s] EXCEPT !.dirty = d]
  <1>1. sector \in [Sector -> SectorType]
    BY SectorTyped
  <1>2. /\ h \in SectorType /\ h.kv = sector[s].kv /\ h.ok = sector[s].ok
        /\ h.store = sector[s].store /\ h.dirty = d
    BY <1>1 DEF SectorType
  <1>3. sector' = [sector EXCEPT ![s] = h]
    OBVIOUS
  <1> HIDE DEF h
  <1>4. /\ sector' \in [Sector -> SectorType]
        /\ sector'[s] = h /\ \A t \in Sector \ {s} : sector'[t] = sector[t]
        /\ SameKvs
    BY <1>2, <1>3, HeaderEffect
  <1> QED
    BY <1>2, <1>4

\* Writing the store status changes one header.
LEMMA StoreEffect ==
    ASSUME TypeOK, NEW s \in Sector,
           sector' = [sector EXCEPT ![s].store = "USING"]
    PROVE  /\ sector' \in [Sector -> SectorType]
           /\ SameKvs
           /\ \A t \in Sector : /\ sector'[t].ok = sector[t].ok
                /\ sector'[t].dirty = sector[t].dirty
                                /\ sector'[t].store = IF t = s THEN "USING" ELSE sector[t].store
           /\ \A t \in Sector \ {s} : sector'[t] = sector[t]
  <1> DEFINE h == [sector[s] EXCEPT !.store = "USING"]
  <1>1. sector \in [Sector -> SectorType]
    BY SectorTyped
  <1>2. /\ h \in SectorType /\ h.kv = sector[s].kv /\ h.ok = sector[s].ok
        /\ h.store = "USING" /\ h.dirty = sector[s].dirty
    BY <1>1 DEF SectorType
  <1>3. sector' = [sector EXCEPT ![s] = h]
    OBVIOUS
  <1> HIDE DEF h
  <1>4. /\ sector' \in [Sector -> SectorType]
        /\ sector'[s] = h /\ \A t \in Sector \ {s} : sector'[t] = sector[t]
        /\ SameKvs
    BY <1>2, <1>3, HeaderEffect
  <1> QED
    BY <1>2, <1>4

\* Reading all sectors burns the KVs without a length, and adds burnt ones.
LEMMA ReadAll ==
    ASSUME TypeOK, sector' = [s \in Sector |-> Read(sector[s])]
    PROVE  /\ sector' \in [Sector -> SectorType]
           /\ SameHeaders
           /\ Places \subseteq Places'
           /\ \A l \in Places : Kv(l)' = IF Kv(l).part = "status" THEN Burnt ELSE Kv(l)
           /\ \A l \in Places' \ Places : Kv(l)' = Burnt
  <1>1. sector \in [Sector -> SectorType]
    BY SectorTyped
  <1>2. \A s \in Sector : sector'[s] = Read(sector[s]) /\ sector[s] \in SectorType
    BY <1>1
  <1>3. \A s \in Sector :
           /\ Read(sector[s]) \in SectorType
           /\ Read(sector[s]).ok = sector[s].ok /\ Read(sector[s]).store = sector[s].store
           /\ Read(sector[s]).dirty = sector[s].dirty
           /\ DOMAIN sector[s].kv \subseteq DOMAIN Read(sector[s]).kv
           /\ \A i \in DOMAIN sector[s].kv :
                Read(sector[s]).kv[i] = IF sector[s].kv[i].part = "status" THEN Burnt
                  ELSE sector[s].kv[i]
           /\ \A i \in DOMAIN Read(sector[s]).kv \ DOMAIN sector[s].kv : Read(sector[s]).kv[i] = Burnt
    BY <1>2, ReadEffect
  <1>4. sector' \in [Sector -> SectorType] /\ SameHeaders
    BY <1>2, <1>3 DEF SameHeaders
  <1>5. \A l : l \in Places <=> \E s \in Sector : \E i \in DOMAIN sector[s].kv : l = <<s, i>>
    BY DEF Places
  <1>6. \A l : l \in Places' <=> \E s \in Sector : \E i \in DOMAIN sector'[s].kv : l = <<s, i>>
    BY DEF Places
  <1>7. Places \subseteq Places'
    BY <1>2, <1>3, <1>5, <1>6
  <1>8. ASSUME NEW l \in Places PROVE Kv(l)' = IF Kv(l).part = "status" THEN Burnt ELSE Kv(l)
    <2>1. PICK s \in Sector : \E i \in DOMAIN sector[s].kv : l = <<s, i>>
      BY <1>5
    <2> QED
      BY <2>1, <1>2, <1>3 DEF Kv
  <1>9. ASSUME NEW l \in Places' \ Places PROVE Kv(l)' = Burnt
    <2>1. PICK s \in Sector : \E i \in DOMAIN sector'[s].kv : l = <<s, i>>
      BY <1>6
    <2>2. PICK i \in DOMAIN sector'[s].kv : l = <<s, i>>
      BY <2>1
    <2>3. i \notin DOMAIN sector[s].kv
      BY <2>2, <1>5
    <2> QED
      BY <2>2, <2>3, <1>2, <1>3 DEF Kv
  <1> QED
    BY <1>4, <1>7, <1>8, <1>9

\* The KV at l once write_status has written st.
Advance(l, st) == [Kv(l) EXCEPT !.status = IF Kv(l).status > st THEN Kv(l).status ELSE st]

\* PreDelete and Delete mark the old KV of the job's name.
LEMMA FromMarked ==
    ASSUME Shape, pc \in {"pre_delete", "delete"}, NEW st \in {PRE_DELETE, DELETED},
        Mark(job.from, st)
    PROVE  /\ sector' \in [Sector -> SectorType] /\ SameHeaders /\ Places' = Places
           /\ \E l \in Places : /\ l = job.from /\ Kv(l).key = job.key
                                /\ Kv(l)' = Advance(l, st)
                                /\ \A m \in Places \ {l} : Kv(m)' = Kv(m)
  <1>1. PICK l \in Places : l = job.from /\ Kv(l).key = job.key
    BY DEF Shape, Froms, JobPcs, Preparing, Deleting, Creating, Writing
  <1>2. st \in PRE_WRITE .. ERR_HDR
    BY DEF PRE_WRITE, PRE_DELETE, DELETED, ERR_HDR
  <1>3. Mark(l, st)
    BY <1>1 DEF Mark
  <1>4. /\ sector' \in [Sector -> SectorType] /\ SameHeaders /\ Places' = Places
        /\ Kv(l)' = [Kv(l) EXCEPT !.status = IF Kv(l).status > st THEN Kv(l).status ELSE st]
        /\ \A m \in Places \ {l} : Kv(m)' = Kv(m)
    BY <1>2, <1>3, MarkEffect DEF Shape
  <1> QED
    BY <1>1, <1>4 DEF Advance

\* MakeDirty writes the header of the old KV's sector.
LEMMA FromDirty ==
    ASSUME Shape, pc \in {"pre_delete_dirty", "delete_dirty"}, MakeDirty
    PROVE  /\ sector' \in [Sector -> SectorType] /\ SameKvs
           /\ \E s \in Sector :
                /\ s = job.from[1]
                /\ \A t \in Sector : /\ sector'[t].ok = sector[t].ok
                     /\ sector'[t].store = sector[t].store
                                     /\ sector'[t].dirty = IF t = s THEN "TRUE"
                                          ELSE sector[t].dirty
                /\ \A t \in Sector \ {s} : sector'[t] = sector[t]
  <1>1. job.from \in Places
    BY DEF Shape, Froms, JobPcs, Preparing, Deleting, Creating, Writing
  <1>2. PICK s \in Sector : s = job.from[1]
    BY <1>1, PlaceFacts DEF Shape
  <1>3. sector' = [sector EXCEPT ![s].dirty = "TRUE"]
    BY <1>2 DEF MakeDirty
  <1> QED
    BY <1>2, <1>3, DirtyEffect DEF Shape

\* Use writes the header of the sector that was allocated.
LEMMA UseFlash ==
    ASSUME Shape, Use
    PROVE  /\ sector' \in [Sector -> SectorType] /\ SameKvs
           /\ \E s \in Sector :
                /\ job.to = <<s>>
                /\ \A t \in Sector : /\ sector'[t].ok = sector[t].ok
                     /\ sector'[t].dirty = sector[t].dirty
                                     /\ sector'[t].store = IF t = s THEN "USING"
                                          ELSE sector[t].store
                /\ \A t \in Sector \ {s} : sector'[t] = sector[t]
  <1>1. PICK s \in Sector : job.to = <<s>>
    BY DEF Use, At, Shape, Tos, Creating
  <1>2. sector' = [sector EXCEPT ![s].store = "USING"]
    BY <1>1 DEF Use
  <1> QED
    BY <1>1, <1>2, StoreEffect DEF Shape

\* A KV that has its first status and nothing else.
NewKvRecord(k, v) == [key |-> k, val |-> v, status |-> PRE_WRITE, part |-> "status"]

\* PreWrite adds one place, in the sector that was allocated.
LEMMA PreWriteFlash ==
    ASSUME Shape, PreWrite
    PROVE  /\ sector' \in [Sector -> SectorType] /\ SameHeaders
           /\ \E l \in Loc :
                /\ job.to = <<l[1]>> /\ job'.to = l
                /\ l \notin Places /\ Places' = Places \cup {l}
                /\ Kv(l)' = NewKvRecord(job.key, job.val)
                /\ \A m \in Places : Kv(m)' = Kv(m)
                /\ \A t \in Sector \ {l[1]} : sector'[t] = sector[t]
  <1>1. PICK s \in Sector :
          /\ job.to = <<s>>
          /\ sector' = [sector EXCEPT ![s].kv =
               Append(@, [key |-> job.key, val |-> job.val, status |-> PRE_WRITE,
                          part |-> "status"])]
          /\ job'.to = <<s, Len(sector[s].kv) + 1>>
    BY PreWriteEffect
  <1> DEFINE x == [key |-> job.key, val |-> job.val, status |-> PRE_WRITE, part |-> "status"]
  <1>2. job.key \in Key \cup {NoValue} /\ job.val \in Value \cup {NoValue}
    BY DEF Shape, Registers, JobType
  <1>3. x \in KvType
    BY <1>2 DEF KvType, PRE_WRITE, ERR_HDR
  <1>4. sector' = [sector EXCEPT ![s].kv = Append(@, x)]
    BY <1>1
  <1>5. Len(sector[s].kv) \in Nat
    BY PlaceFacts DEF Shape
  <1>6. x = NewKvRecord(job.key, job.val)
    BY DEF NewKvRecord
  <1> HIDE DEF x
  <1>7. PICK n \in Nat : n = Len(sector[s].kv) + 1 /\ n > 0
    BY <1>5
  <1>8. /\ sector' \in [Sector -> SectorType]
        /\ SameHeaders
        /\ \A t \in Sector \ {s} : sector'[t] = sector[t]
        /\ <<s, n>> \notin Places
        /\ Places' = Places \cup {<<s, n>>}
        /\ sector'[s].kv[n] = x
        /\ \A m \in Places : Kv(m)' = Kv(m)
    BY <1>3, <1>4, <1>7, AppendEffect DEF Shape
  <1>9. <<s, n>> \in Loc /\ Kv(<<s, n>>)' = x
    BY <1>7, <1>8 DEF Loc, Kv
  <1> QED
    BY <1>1, <1>6, <1>7, <1>8, <1>9

\* WriteHeader and WriteData complete the KV that the job writes.
LEMMA PartFlash ==
    ASSUME Shape, WriteHeader \/ WriteData
    PROVE  /\ sector' \in [Sector -> SectorType] /\ SameHeaders /\ Places' = Places
           /\ \E l \in Places :
                /\ l = job.to
                /\ Kv(l)' = [Kv(l) EXCEPT !.part = IF pc = "header" THEN "header" ELSE "whole"]
                /\ \A m \in Places \ {l} : Kv(m)' = Kv(m)
           /\ pc \in {"header", "data"} /\ pc' = IF pc = "header" THEN "data" ELSE "write"
           /\ UNCHANGED <<ram, op, job, gc, it, hist>>
  <1> DEFINE p == IF pc = "header" THEN "header" ELSE "whole"
  <1>1. /\ pc \in {"header", "data"} /\ pc' = IF pc = "header" THEN "data" ELSE "write"
        /\ sector' = [sector EXCEPT ![job.to[1]].kv[job.to[2]].part = p]
        /\ UNCHANGED <<ram, op, job, gc, it, hist>>
    BY DEF WriteHeader, WriteData, WritePart, At
  <1>2. PICK l \in Places : l = job.to
    BY <1>1 DEF Shape, Tos, Writing
  <1>3. p \in {"status", "header", "whole"}
          /\ sector' = [sector EXCEPT ![l[1]].kv[l[2]].part = p]
    BY <1>1, <1>2
  <1> HIDE DEF p
  <1>4. /\ sector' \in [Sector -> SectorType] /\ SameHeaders /\ Places' = Places
        /\ Kv(l)' = [Kv(l) EXCEPT !.part = p]
        /\ \A m \in Places \ {l} : Kv(m)' = Kv(m)
    BY <1>3, PartEffect DEF Shape
  <1> QED
    BY <1>1, <1>2, <1>4 DEF p

\* Write marks the KV that the job has written.
LEMMA WriteFlash ==
    ASSUME Shape, Write
    PROVE  /\ sector' \in [Sector -> SectorType] /\ SameHeaders /\ Places' = Places
           /\ \E l \in Places :
                /\ l = job.to
                /\ Kv(l) = [key |-> job.key, val |-> job.val, status |-> PRE_WRITE,
                            part |-> "whole"]
                /\ Kv(l)' = [Kv(l) EXCEPT !.status = WRITE]
                /\ \A m \in Places \ {l} : Kv(m)' = Kv(m)
  <1>1. pc = "write" /\ Mark(job.to, WRITE)
    BY DEF Write, At
  <1>2. PICK l \in Places :
           /\ l = job.to
           /\ Kv(l) = [key |-> job.key, val |-> job.val, status |-> PRE_WRITE, part |-> "whole"]
    BY <1>1 DEF Shape, Tos, Writing
  <1>3. Mark(l, WRITE) /\ WRITE \in PRE_WRITE .. ERR_HDR
    <2>1. Mark(l, WRITE)
      BY <1>1, <1>2 DEF Mark
    <2>2. WRITE \in PRE_WRITE .. ERR_HDR
      BY DEF WRITE, PRE_WRITE, ERR_HDR
    <2> QED
      BY <2>1, <2>2
  <1>4. /\ sector' \in [Sector -> SectorType] /\ SameHeaders /\ Places' = Places
        /\ Kv(l)' = [Kv(l) EXCEPT !.status = IF Kv(l).status > WRITE THEN Kv(l).status
             ELSE WRITE]
        /\ \A m \in Places \ {l} : Kv(m)' = Kv(m)
    BY <1>3, MarkEffect DEF Shape
  <1>5. Kv(l).status = PRE_WRITE /\ ~(PRE_WRITE > WRITE)
    BY <1>2 DEF PRE_WRITE, WRITE
  <1> QED
    BY <1>2, <1>4, <1>5

\* GcSector writes the header of the sector it begins with.
LEMMA GcSectorFlash ==
    ASSUME Shape, GcSector
    PROVE  /\ sector' \in [Sector -> SectorType] /\ SameKvs
           /\ \E s \in Sector :
                /\ s = gc'.at /\ sector[s].dirty \in {"TRUE", "GC"}
                /\ \A t \in Sector : /\ sector'[t].ok = sector[t].ok
                     /\ sector'[t].store = sector[t].store
                                     /\ sector'[t].dirty = IF t = s THEN "GC"
                                          ELSE sector[t].dirty
                /\ \A t \in Sector \ {s} : sector'[t] = sector[t]
  <1>1. PICK s \in Sector : /\ sector' = [sector EXCEPT ![s].dirty = "GC"]
                            /\ sector[s].dirty \in {"TRUE", "GC"} /\ gc'.at = s
    BY GcSectorEffect
  <1> QED
    BY <1>1, DirtyEffect DEF Shape

\* GcErase and GcFormat take away what is in the sector at hand.
LEMMA FormatFlash ==
    ASSUME Shape, GcErase \/ GcFormat
    PROVE  /\ sector' \in [Sector -> SectorType]
           /\ \E s \in Sector :
                /\ s = gc.at /\ sector'[s] = IF pc = "gc_erase" THEN Erased ELSE Fresh
                /\ \A t \in Sector \ {s} : sector'[t] = sector[t]
                /\ Places' = {l \in Places : l[1] # s}
                /\ \A l \in Places' : Kv(l)' = Kv(l)
  <1>1. PICK s \in Sector : s = gc.at
    BY DEF Shape, Registers, GcType
  <1> DEFINE h == IF pc = "gc_erase" THEN Erased ELSE Fresh
  <1>2. sector' = [sector EXCEPT ![s] = h]
    BY <1>1 DEF GcErase, GcFormat, At
  <1>3. h \in SectorType /\ h.kv = <<>>
    BY FreshTyped
  <1> HIDE DEF h
  <1>4. /\ sector' \in [Sector -> SectorType]
        /\ sector'[s] = h /\ \A t \in Sector \ {s} : sector'[t] = sector[t]
        /\ Places' = {l \in Places : l[1] # s}
        /\ \A l \in Places' : Kv(l)' = Kv(l)
    BY <1>2, <1>3, FormatEffect DEF Shape
  <1> QED
    BY <1>1, <1>4 DEF h

\* BootHdr formats the first bad sector, or reads all of them.
LEMMA BootHdrFlash ==
    ASSUME Shape, BootHdr
    PROVE  /\ pc = "boot_hdr" /\ UNCHANGED <<ram, op, job, gc, it, hist>>
           /\ sector' \in [Sector -> SectorType]
           /\ \/ /\ \A s \in Sector : sector[s].ok
                 /\ pc' = "boot_gc"
                 /\ SameHeaders
                 /\ Places \subseteq Places'
                 /\ \A l \in Places : Kv(l)' = IF Kv(l).part = "status" THEN Burnt ELSE Kv(l)
                 /\ \A l \in Places' \ Places : Kv(l)' = Burnt
              \/ /\ pc' = "boot_hdr"
                 /\ \E s \in Sector :
                      /\ ~sector[s].ok /\ sector'[s] = Fresh
                      /\ \A t \in Sector \ {s} : sector'[t] = sector[t]
                      /\ Places' = {l \in Places : l[1] # s}
                      /\ \A l \in Places' : Kv(l)' = Kv(l)
  <1> DEFINE bad == {s \in Sector : ~sector[s].ok}
  <1>1. pc = "boot_hdr" /\ UNCHANGED <<ram, op, job, gc, it, hist>>
    BY DEF BootHdr, At
  <1>t. TypeOK /\ oldest \in Sector
    BY DEF Shape, TypeOK
  <1>2. CASE bad = {}
    <2>1. sector' = [s \in Sector |-> Read(sector[s])] /\ pc' = "boot_gc"
      BY <1>2 DEF BootHdr
    <2> QED
      BY <1>1, <1>2, <1>t, <2>1, ReadAll
  <1>3. CASE bad # {}
    <2>1. FirstSector(bad) \in bad
      BY <1>3, <1>t, FirstSectorIsFirst
    <2>2. PICK s \in bad : sector' = [sector EXCEPT ![s] = Fresh] /\ UNCHANGED pc
      BY <1>3, <2>1 DEF BootHdr
    <2>3. s \in Sector /\ ~sector[s].ok
      OBVIOUS
    <2>4. /\ sector' \in [Sector -> SectorType]
          /\ sector'[s] = Fresh /\ \A t \in Sector \ {s} : sector'[t] = sector[t]
          /\ Places' = {l \in Places : l[1] # s}
          /\ \A l \in Places' : Kv(l)' = Kv(l)
      BY <2>2, <2>3, <1>t, FreshTyped, FormatEffect
    <2> QED
      BY <1>1, <2>2, <2>3, <2>4
  <1> QED
    BY <1>2, <1>3

\* BootKv leaves the flash alone or marks one half-written KV.
LEMMA BootKvFlash ==
    ASSUME Shape, BootKv
    PROVE  /\ sector' \in [Sector -> SectorType] /\ SameHeaders /\ Places' = Places
           /\ \/ SameKvs /\ sector' = sector
              \/ \E l \in Places :
                   /\ Kv(l).part # "status" /\ Kv(l).status = PRE_WRITE
                   /\ Kv(l)' = [Kv(l) EXCEPT !.status = ERR_HDR]
                   /\ \A m \in Places \ {l} : Kv(m)' = Kv(m)
                   /\ pc' = "boot_end"
  <1>1. CASE UNCHANGED sector
    BY <1>1, SameFlash DEF Shape, SameKvs
  <1>2. CASE \E l \in Places : /\ Unfinished(l) /\ Kv(l).status = PRE_WRITE
                               /\ Mark(l, ERR_HDR) /\ pc' = "boot_end"
    <2>1. PICK l \in Places : /\ Unfinished(l) /\ Kv(l).status = PRE_WRITE
                              /\ Mark(l, ERR_HDR) /\ pc' = "boot_end"
      BY <1>2
    <2>2. ERR_HDR \in PRE_WRITE .. ERR_HDR /\ ~(PRE_WRITE > ERR_HDR) /\ PRE_WRITE # PRE_DELETE
      BY DEF PRE_WRITE, ERR_HDR, PRE_DELETE
    <2>3. /\ sector' \in [Sector -> SectorType] /\ SameHeaders /\ Places' = Places
          /\ Kv(l)' = [Kv(l) EXCEPT !.status = IF Kv(l).status > ERR_HDR THEN Kv(l).status ELSE ERR_HDR]
          /\ \A m \in Places \ {l} : Kv(m)' = Kv(m)
      BY <2>1, <2>2, MarkEffect DEF Shape
    <2>4. Kv(l).part # "status"
      BY <2>1, <2>2 DEF Unfinished
    <2> QED
      BY <2>1, <2>2, <2>3, <2>4
  <1> QED
    BY <1>1, <1>2, BootKvEffect

\* Which step runs, by pc.
LEMMA StepAt ==
    ASSUME Next
    PROVE  \/ PowerCut
           \/ /\ pc = "idle" => Call
              /\ pc = "new_kv" => NewKv("new_kv")
              /\ pc = "new_kv_again" => NewKv("new_kv_again")
              /\ pc = "pre_delete" => PreDelete
              /\ pc = "pre_delete_dirty" => PreDeleteDirty
              /\ pc = "use" => Use
              /\ pc = "pre_write" => PreWrite
              /\ pc = "header" => WriteHeader
              /\ pc = "data" => WriteData
              /\ pc = "write" => Write
              /\ pc = "delete" => Delete
              /\ pc = "delete_dirty" => DeleteDirty
              /\ pc = "done" => Done
              /\ pc = "move_kv" => MoveKv
              /\ pc = "gc" => Gc \/ GcNotNeeded
              /\ pc = "gc_sector" => GcSector \/ GcFinished
              /\ pc = "gc_kv" => GcKv
              /\ pc = "gc_erase" => GcErase
              /\ pc = "gc_format" => GcFormat
              /\ pc = "boot_hdr" => BootHdr
              /\ pc = "boot_gc" => BootGc
              /\ pc = "boot_kv" => BootKv
              /\ pc = "boot_end" => BootEnd
  BY DEF Next, Step, Call, At, NewKv, PreDelete, PreDeleteDirty, Use, PreWrite, WriteHeader,
     WriteData,
         WritePart, Write, Delete, DeleteDirty, Done, MoveKv, Gc, GcNotNeeded, GcSector,
            GcFinished,
         GcKv, GcErase, GcFormat, BootHdr, BootGc, BootKv, BootEnd, fdb_kv_set, fdb_kv_del

\* The steps that write the flash.
LEMMA FlashSteps ==
    ASSUME Shape, Next
    PROVE  \/ sector' = sector
           \/ PreDelete \/ PreDeleteDirty \/ Use \/ PreWrite \/ WriteHeader \/ WriteData
           \/ Write \/ Delete \/ DeleteDirty \/ GcSector \/ GcErase \/ GcFormat
           \/ BootHdr \/ BootKv
  <1>1. ASSUME \/ NewKv("new_kv") \/ NewKv("new_kv_again") \/ Done \/ MoveKv \/ Gc
                    \/ GcNotNeeded
               \/ GcFinished \/ GcKv \/ BootGc \/ BootEnd \/ Call \/ PowerCut
        PROVE  sector' = sector
    BY <1>1 DEF NewKv, Done, MoveKv, Gc, GcNotNeeded, GcFinished, GcEnds, GcKv, BootGc, BootEnd,
                Call, fdb_kv_set, fdb_kv_del, PowerCut
  <1> QED
    BY <1>1 DEF Next, Step

\* PreDelete, registers and flash together.
LEMMA PreDeleteFlash ==
    ASSUME Shape, PreDelete
    PROVE  /\ pc = "pre_delete" /\ Mark(job.from, PRE_DELETE) /\ last_is_complete_del' = TRUE
           /\ \/ pc' = "pre_delete_dirty" /\ sector[job.from[1]].dirty = "FALSE"
              \/ pc' = Prepared /\ sector[job.from[1]].dirty # "FALSE"
           /\ Prepared \in {"use", "pre_write", "move_kv"} /\ (Prepared = "move_kv"
                <=> job.why = "gc")
           /\ UNCHANGED <<oldest, gc_request, in_recovery_check, kv_cache, op, job, gc, it,
                          hist>>
           /\ sector' \in [Sector -> SectorType] /\ SameHeaders /\ Places' = Places
           /\ \E l \in Places : /\ l = job.from /\ Kv(l).key = job.key
                                /\ Kv(l)' = Advance(l, PRE_DELETE)
                                /\ \A m \in Places \ {l} : Kv(m)' = Kv(m)
  <1>1. /\ pc = "pre_delete" /\ Mark(job.from, PRE_DELETE) /\ last_is_complete_del' = TRUE
        /\ pc' = IF sector[job.from[1]].dirty = "FALSE" THEN "pre_delete_dirty" ELSE Prepared
        /\ UNCHANGED <<oldest, gc_request, in_recovery_check, kv_cache, op, job, gc, it, hist>>
    BY DEF PreDelete, At
  <1>2. Prepared \in {"use", "pre_write", "move_kv"} /\ (Prepared = "move_kv"
          <=> job.why = "gc")
    BY <1>1, WhereNext DEF Preparing
  <1> QED
    BY <1>1, <1>2, FromMarked

\* Delete marks the old KV of the job's name.
LEMMA DeleteFlash ==
    ASSUME Shape, Delete
    PROVE  /\ sector' \in [Sector -> SectorType] /\ SameHeaders /\ Places' = Places
           /\ \E l \in Places : /\ l = job.from /\ Kv(l).key = job.key
                                /\ Kv(l)' = Advance(l, DELETED)
                                /\ \A m \in Places \ {l} : Kv(m)' = Kv(m)
  BY DeleteEffect, FromMarked

\* A status leaves name, value and part of a KV alone.
LEMMA AdvanceKeeps ==
    ASSUME TypeOK, NEW l \in Places, NEW st
    PROVE  /\ Advance(l, st).key = Kv(l).key /\ Advance(l, st).val = Kv(l).val
           /\ Advance(l, st).part = Kv(l).part
           /\ Advance(l, st).status = IF Kv(l).status > st THEN Kv(l).status ELSE st
  <1>1. Kv(l) \in KvType
    BY PlaceFacts
  <1> QED
    BY <1>1 DEF Advance, KvType

\* Every step keeps the flash within its type, and what is whole named.
LEMMA NextTyped ==
    ASSUME Shape, Next
    PROVE  TypeOK' /\ Named'
  <1>t. TypeOK /\ Named
    BY DEF Shape
  <1>k. \A l \in Places : Kv(l) \in KvType
    BY <1>t, PlaceFacts
  <1>0. SUFFICES sector' \in [Sector -> SectorType] /\ Named'
    <2>1. oldest' \in Sector /\ kv_cache' \in [Key -> Loc \cup {NoLoc}]
      <3>1. Registers'
        BY NextRegisters
      <3>2. \/ oldest' = oldest \/ oldest' = 0 \/ GcFormat
        BY DEF Next, Step, Call, NewKv, fdb_kv_set, fdb_kv_del, PreDelete, PreDeleteDirty, Use,
               PreWrite, WriteHeader, WriteData, WritePart, Write, Delete, DeleteDirty, Done,
                  MoveKv,
               Gc, GcNotNeeded, GcSector, GcFinished, GcEnds, GcKv, GcErase, BootHdr, BootGc,
                  BootKv,
               BootEnd, PowerCut, ram
      <3>3. 0 \in Sector /\ oldest \in Sector
        BY <1>t, SizeAssumption DEF TypeOK, Sector
      <3> QED
        BY <3>1, <3>2, <3>3, GcFormatEffect DEF Registers
    <2>2. kv_cache' \in [Key -> (Sector \X Nat) \cup {NoLoc}]
      BY <2>1 DEF Loc
    <2> QED
      BY <2>1, <2>2 DEF TypeOK, SectorType, KvType
  <1>1. CASE SameKvs /\ sector' \in [Sector -> SectorType]
    BY <1>1, <1>t DEF SameKvs, Named
  <1>2. CASE sector' = sector
    BY <1>1, <1>2, <1>t, SameFlash
  <1>3. CASE PreDelete
    BY <1>3, <1>t, PreDeleteFlash, AdvanceKeeps DEF Named
  <1>4. CASE Delete
    BY <1>4, <1>t, DeleteFlash, AdvanceKeeps DEF Named
  <1>5. CASE PreDeleteDirty
    <2>1. pc = "pre_delete_dirty" /\ MakeDirty
      BY <1>5 DEF PreDeleteDirty, At
    <2> QED
      BY <1>1, <2>1, FromDirty
  <1>6. CASE DeleteDirty
    BY <1>1, <1>6, DeleteDirtyEffect, FromDirty
  <1>7. CASE Use
    BY <1>1, <1>7, UseFlash
  <1>8. CASE PreWrite
    BY <1>8, <1>t, PreWriteFlash DEF Named, NewKvRecord
  <1>9. CASE WriteHeader \/ WriteData
    <2>1. PICK l \in Places :
             /\ l = job.to
             /\ Kv(l)' = [Kv(l) EXCEPT !.part = IF pc = "header" THEN "header" ELSE "whole"]
             /\ \A m \in Places \ {l} : Kv(m)' = Kv(m)
      BY <1>9, PartFlash
    <2>2. Kv(l).key = job.key /\ Kv(l).val = job.val /\ job.key \in Key /\ job.val \in Value
      <3>1. pc \in {"header", "data"}
        BY <1>9, PartFlash
      <3>2. Kv(l).key = job.key /\ Kv(l).val = job.val
        BY <3>1, <2>1 DEF Shape, Tos, Writing
      <3>3. job.key \in Key /\ job.val \in Value
        BY <3>1 DEF Shape, Jobs, JobPcs, Writing, Deleting
      <3> QED
        BY <3>2, <3>3
    <2>3. Kv(l)'.key = Kv(l).key /\ Kv(l)'.val = Kv(l).val
      BY <1>k, <2>1 DEF KvType
    <2>4. sector' \in [Sector -> SectorType] /\ Places' = Places
      BY <1>9, PartFlash
    <2> QED
      BY <1>t, <2>1, <2>2, <2>3, <2>4 DEF Named
  <1>10. CASE Write
    <2>1. PICK l \in Places :
            /\ Kv(l)' = [Kv(l) EXCEPT !.status = WRITE]
            /\ \A m \in Places \ {l} : Kv(m)' = Kv(m)
      BY <1>10, WriteFlash
    <2>2. Kv(l)'.key = Kv(l).key /\ Kv(l)'.val = Kv(l).val /\ Kv(l)'.part = Kv(l).part
      BY <1>k, <2>1 DEF KvType
    <2>3. sector' \in [Sector -> SectorType] /\ Places' = Places
      BY <1>10, WriteFlash
    <2> QED
      BY <1>t, <2>1, <2>2, <2>3 DEF Named
  <1>11. CASE GcSector
    BY <1>1, <1>11, GcSectorFlash
  <1>12. CASE GcErase \/ GcFormat
    BY <1>12, <1>t, FormatFlash DEF Named
  <1>13. CASE BootHdr
    BY <1>13, <1>t, BootHdrFlash DEF Named, Burnt
  <1>14. CASE BootKv
    <2>1. CASE SameKvs
      BY <1>1, <1>14, <2>1, BootKvFlash
    <2>2. CASE ~SameKvs
      <3>1. PICK l \in Places :
              /\ Kv(l)' = [Kv(l) EXCEPT !.status = ERR_HDR]
              /\ \A m \in Places \ {l} : Kv(m)' = Kv(m)
        BY <1>14, <2>2, BootKvFlash
      <3>2. Kv(l)'.key = Kv(l).key /\ Kv(l)'.val = Kv(l).val /\ Kv(l)'.part = Kv(l).part
        BY <1>k, <3>1 DEF KvType
      <3>3. sector' \in [Sector -> SectorType] /\ Places' = Places
        BY <1>14, BootKvFlash
      <3> QED
        BY <1>t, <3>1, <3>2, <3>3 DEF Named
    <2> QED
      BY <2>1, <2>2
  <1> QED
    BY <1>2, <1>3, <1>4, <1>5, <1>6, <1>7, <1>8, <1>9, <1>10, <1>11, <1>12, <1>13, <1>14,
       FlashSteps

\* No place goes away while a job runs, and no KV changes its name or value.
LEMMA Kept ==
    ASSUME Shape, Next, pc' \in JobPcs \cup {"boot_kv", "boot_end"}
    PROVE  /\ Places \subseteq Places'
           /\ \A l \in Places : /\ Kv(l)'.key = Kv(l).key /\ Kv(l)'.val = Kv(l).val
                                /\ Kv(l)'.part = Kv(l).part \/ (l = job.to /\ pc \in Writing)
                                /\ Kv(l)'.status = Kv(l).status
                                     \/ pc \in {"pre_delete", "write", "delete", "boot_kv"}
  <1>t. TypeOK
    BY DEF Shape
  <1>k. \A l \in Places : Kv(l) \in KvType
    BY <1>t, PlaceFacts
  <1>1. CASE SameKvs
    BY <1>1 DEF SameKvs
  <1>2. CASE sector' = sector
    BY <1>1, <1>2, <1>t, SameFlash
  <1>3. CASE PreDelete
    BY <1>3, <1>t, PreDeleteFlash, AdvanceKeeps
  <1>4. CASE Delete
    BY <1>4, <1>t, DeleteEffect, DeleteFlash, AdvanceKeeps
  <1>5. CASE PreDeleteDirty
    <2>1. pc = "pre_delete_dirty" /\ MakeDirty
      BY <1>5 DEF PreDeleteDirty, At
    <2> QED
      BY <1>1, <2>1, FromDirty
  <1>6. CASE DeleteDirty
    BY <1>1, <1>6, DeleteDirtyEffect, FromDirty
  <1>7. CASE Use
    BY <1>1, <1>7, UseFlash
  <1>8. CASE PreWrite
    BY <1>8, PreWriteFlash
  <1>9. CASE WriteHeader \/ WriteData
    BY <1>9, <1>k, PartFlash DEF KvType, Writing
  <1>10. CASE Write
    BY <1>10, <1>k, WriteFlash, WriteEffect DEF KvType
  <1>11. CASE GcSector
    BY <1>1, <1>11, GcSectorFlash
  <1>12. CASE GcErase \/ GcFormat \/ BootHdr
    <2>1. pc' \in {"gc_format", "gc_sector", "boot_gc", "boot_hdr"}
      BY <1>12, BootHdrFlash DEF GcErase, GcFormat
    <2> QED
      BY <2>1 DEF JobPcs, Preparing, Creating, Writing, Deleting
  <1>13. CASE BootKv
    BY <1>1, <1>13, <1>k, BootKvFlash, BootKvEffect DEF KvType
  <1> QED
    BY <1>2, <1>3, <1>4, <1>5, <1>6, <1>7, <1>8, <1>9, <1>10, <1>11, <1>12, <1>13, FlashSteps

\* The old KV of the next state's job is a place of this state.
LEMMA FromsAhead ==
    ASSUME Shape, Next
    PROVE  pc' \in JobPcs \ {"done"} =>
              \E l \in Places \cup {NoLoc} :
                /\ l = job'.from
                /\ l = NoLoc => job'.why = "set" /\ pc' \in Creating \cup Writing
                /\ l # NoLoc => Kv(l).key = job'.key
  <1> DEFINE Ahead == pc' \in JobPcs \ {"done"} =>
         \E l \in Places \cup {NoLoc} :
           /\ l = job'.from
           /\ l = NoLoc => job'.why = "set" /\ pc' \in Creating \cup Writing
           /\ l # NoLoc => Kv(l).key = job'.key
  <1> USE DEF Shape, Froms, JobPcs, Preparing, Creating, Writing, Deleting, GcPcs, BootPcs,
     CallPcs
  <1>1. ASSUME NEW k \in Key, NEW v \in ValueOf[k], fdb_kv_set(k, v) PROVE Ahead
    BY <1>1, SetEffect, PlaceNotNoLoc
  <1>2. ASSUME NEW k \in Key, fdb_kv_del(k) PROVE Ahead
    BY <1>2, DelEffect, PlaceNotNoLoc
  <1>3. ASSUME NewKv("new_kv") PROVE Ahead
    BY <1>3, NewKvEffect, PlaceNotNoLoc DEF Create
  <1>4. ASSUME NewKv("new_kv_again") PROVE Ahead
    BY <1>4, NewKvEffect, PlaceNotNoLoc DEF Create
  <1>5. ASSUME PreDelete PROVE Ahead
    BY <1>5, PreDeleteFlash, PlaceNotNoLoc
  <1>6. ASSUME PreDeleteDirty PROVE Ahead
    BY <1>6, PlaceNotNoLoc DEF PreDeleteDirty, At
  <1>7. ASSUME Use PROVE Ahead
    BY <1>7, PlaceNotNoLoc DEF Use, At
  <1>8. ASSUME PreWrite PROVE Ahead
    BY <1>8, PreWriteEffect, PlaceNotNoLoc
  <1>9. ASSUME WriteHeader PROVE Ahead
    BY <1>9, PartFlash, PlaceNotNoLoc
  <1>10. ASSUME WriteData PROVE Ahead
    BY <1>10, PartFlash, PlaceNotNoLoc
  <1>11. ASSUME Write PROVE Ahead
    BY <1>11, WriteEffect, PlaceNotNoLoc
  <1>12. ASSUME Delete PROVE Ahead
    BY <1>12, DeleteEffect, PlaceNotNoLoc
  <1>13. ASSUME DeleteDirty PROVE Ahead
    BY <1>13, DeleteDirtyEffect, PlaceNotNoLoc
  <1>14. ASSUME Done PROVE Ahead
    BY <1>14, DoneEffect, PlaceNotNoLoc
  <1>15. ASSUME MoveKv PROVE Ahead
    BY <1>15, MoveKvEffect, PlaceNotNoLoc
  <1>16. ASSUME Gc PROVE Ahead
    BY <1>16, GcEffect, PlaceNotNoLoc
  <1>17. ASSUME GcNotNeeded PROVE Ahead
    BY <1>17, GcEndsEffect, PlaceNotNoLoc
  <1>18. ASSUME GcSector PROVE Ahead
    BY <1>18, GcSectorEffect, PlaceNotNoLoc
  <1>19. ASSUME GcFinished PROVE Ahead
    BY <1>19, GcEndsEffect, PlaceNotNoLoc
  <1>20. ASSUME GcKv PROVE Ahead
    BY <1>20, GcKvEffect, PlaceNotNoLoc
  <1>21. ASSUME GcErase PROVE Ahead
    BY <1>21, PlaceNotNoLoc DEF GcErase
  <1>22. ASSUME GcFormat PROVE Ahead
    BY <1>22, GcFormatEffect, PlaceNotNoLoc
  <1>23. ASSUME PowerCut PROVE Ahead
    BY <1>23, PlaceNotNoLoc DEF PowerCut
  <1>24. ASSUME BootHdr PROVE Ahead
    BY <1>24, PlaceNotNoLoc DEF BootHdr
  <1>25. ASSUME BootGc PROVE Ahead
    BY <1>25, BootGcEffect, PlaceNotNoLoc
  <1>26. ASSUME BootKv PROVE Ahead
    BY <1>26, BootKvEffect, PlaceNotNoLoc
  <1>27. ASSUME BootEnd PROVE Ahead
    BY <1>27, BootEndEffect, PlaceNotNoLoc
  <1> QED
    BY <1>1, <1>2, <1>3, <1>4, <1>5, <1>6, <1>7, <1>8, <1>9, <1>10, <1>11, <1>12, <1>13, <1>14,
       <1>15, <1>16, <1>17, <1>18, <1>19, <1>20, <1>21, <1>22, <1>23, <1>24, <1>25, <1>26,
       <1>27 DEF Next, Step, Call

\* Every step keeps the job's old KV a place of the job's name.
LEMMA NextFroms ==
    ASSUME Shape, Next
    PROVE  Froms'
  <1>t. TypeOK /\ TypeOK'
    BY NextTyped DEF Shape
  <1>1. ASSUME pc' \in JobPcs \ {"done"}
        PROVE  \/ job'.from \in Places' /\ Kv(job.from)'.key = job'.key
               \/ job'.from = NoLoc /\ job'.why = "set" /\ pc' \in Creating \cup Writing
    <2>1. PICK l \in Places \cup {NoLoc} :
                /\ l = job'.from
                /\ l = NoLoc => job'.why = "set" /\ pc' \in Creating \cup Writing
                /\ l # NoLoc => Kv(l).key = job'.key
      BY <1>1, FromsAhead
    <2>2. CASE l # NoLoc
      <3>1. l \in Places' /\ Kv(l)'.key = Kv(l).key
        BY <1>1, <2>2, Kept
      <3> QED
        BY <2>1, <2>2, <3>1 DEF Kv
    <2> QED
      BY <2>1, <2>2
  <1> QED
    BY <1>1 DEF Froms

\* How the job's new place comes about.
LEMMA TosAhead ==
    ASSUME Shape, Next
    PROVE
             /\ \/ pc' \in Creating
                \/ pc' \in Preparing /\ job'.why = "set"
                => \E s \in Sector : job'.to = <<s>>
             /\ pc' \in Writing => pc \in {"pre_write", "header", "data"}
  <1> DEFINE Ahead ==

             /\ \/ pc' \in Creating
                \/ pc' \in Preparing /\ job'.why = "set"
                => \E s \in Sector : job'.to = <<s>>
             /\ pc' \in Writing => pc \in {"pre_write", "header", "data"}
  <1> USE DEF Shape, JobPcs, Preparing, Creating, Writing, Deleting, GcPcs, BootPcs, CallPcs,
     Tos, Jobs
  <1>1. ASSUME NEW k \in Key, NEW v \in ValueOf[k], fdb_kv_set(k, v) PROVE Ahead
    BY <1>1, SetEffect
  <1>2. ASSUME NEW k \in Key, fdb_kv_del(k) PROVE Ahead
    BY <1>2, DelEffect
  <1>3. ASSUME NewKv("new_kv") PROVE Ahead
    BY <1>3, NewKvEffect DEF Create
  <1>4. ASSUME NewKv("new_kv_again") PROVE Ahead
    BY <1>4, NewKvEffect DEF Create
  <1>5. ASSUME PreDelete PROVE Ahead
    BY <1>5, PreDeleteFlash
  <1>6. ASSUME PreDeleteDirty PROVE Ahead
    BY <1>6, WhereNext DEF PreDeleteDirty, At
  <1>7. ASSUME Use PROVE Ahead
    BY <1>7 DEF Use, At
  <1>8. ASSUME PreWrite PROVE Ahead
    BY <1>8, PreWriteEffect
  <1>9. ASSUME WriteHeader PROVE Ahead
    BY <1>9, PartFlash
  <1>10. ASSUME WriteData PROVE Ahead
    BY <1>10, PartFlash
  <1>11. ASSUME Write PROVE Ahead
    BY <1>11, WriteEffect
  <1>12. ASSUME Delete PROVE Ahead
    BY <1>12, DeleteEffect
  <1>13. ASSUME DeleteDirty PROVE Ahead
    BY <1>13, DeleteDirtyEffect
  <1>14. ASSUME Done PROVE Ahead
    BY <1>14, DoneEffect
  <1>15. ASSUME MoveKv PROVE Ahead
    BY <1>15, MoveKvEffect DEF Create
  <1>16. ASSUME Gc PROVE Ahead
    BY <1>16, GcEffect
  <1>17. ASSUME GcNotNeeded PROVE Ahead
    BY <1>17, GcEndsEffect
  <1>18. ASSUME GcSector PROVE Ahead
    BY <1>18, GcSectorEffect
  <1>19. ASSUME GcFinished PROVE Ahead
    BY <1>19, GcEndsEffect
  <1>20. ASSUME GcKv PROVE Ahead
    BY <1>20, GcKvEffect
  <1>21. ASSUME GcErase PROVE Ahead
    BY <1>21 DEF GcErase
  <1>22. ASSUME GcFormat PROVE Ahead
    BY <1>22, GcFormatEffect
  <1>23. ASSUME PowerCut PROVE Ahead
    BY <1>23 DEF PowerCut
  <1>24. ASSUME BootHdr PROVE Ahead
    BY <1>24 DEF BootHdr, At
  <1>25. ASSUME BootGc PROVE Ahead
    BY <1>25, BootGcEffect
  <1>26. ASSUME BootKv PROVE Ahead
    BY <1>26, BootKvEffect
  <1>27. ASSUME BootEnd PROVE Ahead
    BY <1>27, BootEndEffect
  <1> QED
    BY <1>1, <1>2, <1>3, <1>4, <1>5, <1>6, <1>7, <1>8, <1>9, <1>10, <1>11, <1>12, <1>13, <1>14,
       <1>15, <1>16, <1>17, <1>18, <1>19, <1>20, <1>21, <1>22, <1>23, <1>24, <1>25, <1>26,
       <1>27 DEF Next, Step, Call

\* How a collection moves from step to step.
LEMMA GcAhead ==
    ASSUME Shape, Next
    PROVE
             /\ pc' = "gc_format" => pc = "gc_erase"
             /\ pc' \in {"gc_kv", "gc_erase", "gc_format"} \/ job'.why = "gc" => gc'.left > 0
             /\ pc' = "gc_kv" \/ job'.why = "gc" => gc'.i > 0
             /\ job'.why = "gc" => job'.from = <<gc'.at, gc'.i - 1>>
             /\ pc' \in {"gc_kv", "gc_erase"} \/ job'.why = "gc" =>
                  \/ pc = "gc_sector"
                  \/ gc'.at = gc.at /\ (pc = "gc_kv" \/ job.why = "gc")
             /\ pc' \in {"pre_delete_dirty", "delete_dirty"} =>
                  job' = job /\ sector[job.from[1]].dirty = "FALSE"
                    /\ pc \in {"pre_delete", "delete"}
  <1> DEFINE Ahead ==

             /\ pc' = "gc_format" => pc = "gc_erase"
             /\ pc' \in {"gc_kv", "gc_erase", "gc_format"} \/ job'.why = "gc" => gc'.left > 0
             /\ pc' = "gc_kv" \/ job'.why = "gc" => gc'.i > 0
             /\ job'.why = "gc" => job'.from = <<gc'.at, gc'.i - 1>>
             /\ pc' \in {"gc_kv", "gc_erase"} \/ job'.why = "gc" =>
                  \/ pc = "gc_sector"
                  \/ gc'.at = gc.at /\ (pc = "gc_kv" \/ job.why = "gc")
             /\ pc' \in {"pre_delete_dirty", "delete_dirty"} =>
                  job' = job /\ sector[job.from[1]].dirty = "FALSE"
                    /\ pc \in {"pre_delete", "delete"}
  <1> USE DEF Shape, JobPcs, Preparing, Creating, Writing, Deleting, GcPcs, BootPcs, CallPcs,
     GcLoop, Jobs, Registers, GcType
  <1>1. ASSUME NEW k \in Key, NEW v \in ValueOf[k], fdb_kv_set(k, v) PROVE Ahead
    BY <1>1, SetEffect
  <1>2. ASSUME NEW k \in Key, fdb_kv_del(k) PROVE Ahead
    BY <1>2, DelEffect
  <1>3. ASSUME NewKv("new_kv") PROVE Ahead
    BY <1>3, NewKvEffect, Quiet DEF Create
  <1>4. ASSUME NewKv("new_kv_again") PROVE Ahead
    BY <1>4, NewKvEffect DEF Create
  <1>5. ASSUME PreDelete PROVE Ahead
    BY <1>5, PreDeleteFlash
  <1>6. ASSUME PreDeleteDirty PROVE Ahead
    BY <1>6, WhereNext DEF PreDeleteDirty, At
  <1>7. ASSUME Use PROVE Ahead
    BY <1>7 DEF Use
  <1>8. ASSUME PreWrite PROVE Ahead
    BY <1>8, PreWriteEffect
  <1>9. ASSUME WriteHeader PROVE Ahead
    BY <1>9, PartFlash
  <1>10. ASSUME WriteData PROVE Ahead
    BY <1>10, PartFlash
  <1>11. ASSUME Write PROVE Ahead
    BY <1>11, WriteEffect
  <1>12. ASSUME Delete PROVE Ahead
    BY <1>12, DeleteEffect, Empties
  <1>13. ASSUME DeleteDirty PROVE Ahead
    BY <1>13, DeleteDirtyEffect, Empties
  <1>14. ASSUME Done PROVE Ahead
    BY <1>14, DoneEffect, Empties
  <1>15. ASSUME MoveKv PROVE Ahead
    BY <1>15, MoveKvEffect, Empties DEF Create
  <1>16. ASSUME Gc PROVE Ahead
    BY <1>16, GcEffect, Quiet
  <1>17. ASSUME GcNotNeeded PROVE Ahead
    BY <1>17, GcEndsEffect, Quiet
  <1>18. ASSUME GcSector PROVE Ahead
    BY <1>18, GcSectorEffect, Quiet
  <1>19. ASSUME GcFinished PROVE Ahead
    BY <1>19, GcEndsEffect, Quiet
  <1>20. ASSUME GcKv PROVE Ahead
    <2>1. CASE pc' = "gc_erase" /\ UNCHANGED <<job, gc>>
      BY <1>20, <2>1, GcKvEffect
    <2>2. CASE \E i \in Nat : /\ job'.from = <<gc.at, i>> /\ job'.why = "gc"
                             /\ gc'.i = i + 1 /\ gc'.at = gc.at /\ gc'.left = gc.left
                             /\ pc' \in {"pre_delete", "move_kv"}
      <3>1. pc = "gc_kv" /\ gc.left > 0
        BY <1>20, GcKvEffect
      <3>2. gc'.i > 0 /\ job'.from = <<gc'.at, gc'.i - 1>>
        BY <2>2
      <3> QED
        BY <2>2, <3>1, <3>2
    <2> QED
      BY <1>20, <2>1, <2>2, GcKvEffect
  <1>21. ASSUME GcErase PROVE Ahead
    BY <1>21 DEF GcErase, At
  <1>22. ASSUME GcFormat PROVE Ahead
    BY <1>22, GcFormatEffect, Quiet
  <1>23. ASSUME PowerCut PROVE Ahead
    BY <1>23, Empties DEF PowerCut
  <1>24. ASSUME BootHdr PROVE Ahead
    BY <1>24 DEF BootHdr, At
  <1>25. ASSUME BootGc PROVE Ahead
    BY <1>25, BootGcEffect, Quiet
  <1>26. ASSUME BootKv PROVE Ahead
    BY <1>26, BootKvEffect
  <1>27. ASSUME BootEnd PROVE Ahead
    BY <1>27, BootEndEffect, Quiet
  <1> QED
    BY <1>1, <1>2, <1>3, <1>4, <1>5, <1>6, <1>7, <1>8, <1>9, <1>10, <1>11, <1>12, <1>13, <1>14,
       <1>15, <1>16, <1>17, <1>18, <1>19, <1>20, <1>21, <1>22, <1>23, <1>24, <1>25, <1>26,
       <1>27 DEF Next, Step, Call

\* Every step keeps the job's new KV as far as it is written.
LEMMA NextTos ==
    ASSUME Shape, Next
    PROVE  Tos'
  <1>1. /\ pc' \in Creating \/ (pc' \in Preparing /\ job'.why = "set")
             => \E s \in Sector : job'.to = <<s>>
        /\ pc' \in Writing => pc \in {"pre_write", "header", "data"}
    BY TosAhead
  <1>2. ASSUME pc' \in Writing
        PROVE  /\ job'.to \in Places'
               /\ Kv(job.to)' = [key |-> job'.key, val |-> job'.val, status |-> PRE_WRITE,
                    part |-> IF pc' = "header" THEN "status"
                      ELSE IF pc' = "data" THEN "header" ELSE "whole"]
    <2>1. PreWrite \/ WriteHeader \/ WriteData
      <3>1. pc \in {"pre_write", "header", "data"}
        BY <1>1, <1>2
      <3>2. ~PowerCut
        BY <1>2 DEF Writing, PowerCut
      <3> QED
        BY <3>1, <3>2, StepAt
    <2>2. CASE PreWrite
      <3>1. PICK l \in Loc : job'.to = l /\ l \in Places'
                   /\ Kv(l)' = NewKvRecord(job.key, job.val)
        BY <2>2, PreWriteFlash
      <3>2. pc' = "header" /\ job'.key = job.key /\ job'.val = job.val
        BY <2>2, PreWriteEffect
      <3>3. Kv(job.to)' = Kv(l)'
        BY <3>1 DEF Kv
      <3> QED
        BY <3>1, <3>2, <3>3 DEF NewKvRecord
    <2>3. CASE WriteHeader \/ WriteData
      <3>1. PICK l \in Places :
              /\ l = job.to
              /\ Kv(l)' = [Kv(l) EXCEPT !.part = IF pc = "header" THEN "header" ELSE "whole"]
        BY <2>3, PartFlash
      <3>2. /\ Places' = Places /\ job' = job
            /\ pc \in {"header", "data"} /\ pc' = IF pc = "header" THEN "data" ELSE "write"
        BY <2>3, PartFlash
      <3>3. Kv(job.to)' = Kv(l)'
        BY <3>1, <3>2 DEF Kv
      <3>4. Kv(l) = [key |-> job.key, val |-> job.val, status |-> PRE_WRITE,
                     part |-> IF pc = "header" THEN "status" ELSE "header"]
        BY <3>1, <3>2 DEF Shape, Tos, Writing
      <3>5. Kv(l)' = [key |-> job.key, val |-> job.val, status |-> PRE_WRITE,
                      part |-> IF pc = "header" THEN "header" ELSE "whole"]
        BY <3>1, <3>4
      <3> QED
        BY <3>1, <3>2, <3>3, <3>5
    <2> QED
      BY <2>1, <2>2, <2>3
  <1> QED
    BY <1>1, <1>2 DEF Tos

\* Every header is good outside the check of the headers and the formatting.
LEMMA AllOk ==
    ASSUME Shape, pc \notin {"boot_hdr", "gc_format"}
    PROVE  \A s \in Sector : sector[s].ok
  BY DEF Shape, GcLoop

\* A good header stays good but for the erasing of its sector.
LEMMA OkStays ==
    ASSUME Shape, Next, pc \notin {"boot_hdr", "gc_format", "gc_erase"}
    PROVE  \A s \in Sector : sector'[s].ok
  <1>t. TypeOK /\ \A s \in Sector : sector[s].ok
    BY AllOk DEF Shape
  <1>1. CASE sector' = sector
    BY <1>1, <1>t
  <1>2. CASE SameHeaders
    BY <1>2, <1>t DEF SameHeaders
  <1>3. CASE PreDeleteDirty
    <2>1. pc = "pre_delete_dirty" /\ MakeDirty
      BY <1>3 DEF PreDeleteDirty, At
    <2> QED
      BY <1>t, <2>1, FromDirty
  <1>4. CASE DeleteDirty
    BY <1>t, <1>4, DeleteDirtyEffect, FromDirty
  <1>5. CASE Use
    BY <1>t, <1>5, UseFlash
  <1>6. CASE GcSector
    BY <1>t, <1>6, GcSectorFlash
  <1>7. ~GcErase /\ ~GcFormat /\ ~BootHdr
    BY DEF GcErase, GcFormat, BootHdr, At
  <1> QED
    BY <1>1, <1>2, <1>3, <1>4, <1>5, <1>6, <1>7, FlashSteps, PreDeleteFlash, DeleteFlash,
       PreWriteFlash, PartFlash, WriteFlash, BootKvFlash

\* A sector that is collected stays marked until it is erased.
LEMMA HeadersStay ==
    ASSUME Shape, Next, NEW s \in Sector, sector[s].dirty = "GC", pc # "gc_sector",
           pc \notin {"boot_hdr", "gc_format", "gc_erase"}
    PROVE  sector'[s].dirty = "GC"
  <1>1. CASE sector' = sector
    BY <1>1
  <1>2. CASE SameHeaders
    BY <1>2 DEF SameHeaders
  <1>3. ASSUME PreDeleteDirty \/ DeleteDirty
        PROVE  sector'[s].dirty = "GC"
    <2>1. pc \in {"pre_delete_dirty", "delete_dirty"} /\ MakeDirty
      BY <1>3 DEF PreDeleteDirty, DeleteDirty, At
    <2>2. PICK t \in Sector : t = job.from[1] /\ \A u \in Sector \ {t} : sector'[u] = sector[u]
      BY <2>1, FromDirty
    <2>3. s # t
      BY <2>1, <2>2 DEF Shape, GcLoop
    <2> QED
      BY <2>2, <2>3
  <1>5. CASE Use
    BY <1>5, UseFlash
  <1>7. ~GcErase /\ ~GcFormat /\ ~BootHdr /\ ~GcSector
    BY DEF GcErase, GcFormat, BootHdr, GcSector, At
  <1> QED
    BY <1>1, <1>2, <1>3, <1>5, <1>7, FlashSteps, PreDeleteFlash, DeleteFlash, PreWriteFlash,
       PartFlash, WriteFlash, BootKvFlash

\* Every step keeps the collection's own records true.
LEMMA NextGcLoop ==
    ASSUME Shape, Next
    PROVE  GcLoop'
  <1>t. TypeOK /\ Registers /\ Registers' /\ TypeOK'
    BY NextTyped, NextRegisters DEF Shape
  <1>0. gc.at \in Sector /\ gc'.at \in Sector /\ sector \in [Sector -> SectorType]
    BY <1>t, SectorTyped DEF Registers, GcType
  <1>a. /\ pc' = "gc_format" => pc = "gc_erase"
        /\ pc' \in {"gc_kv", "gc_erase", "gc_format"} \/ job'.why = "gc" => gc'.left > 0
        /\ pc' = "gc_kv" \/ job'.why = "gc" => gc'.i > 0
        /\ job'.why = "gc" => job'.from = <<gc'.at, gc'.i - 1>>
        /\ pc' \in {"gc_kv", "gc_erase"} \/ job'.why = "gc" =>
             \/ pc = "gc_sector"
             \/ gc'.at = gc.at /\ (pc = "gc_kv" \/ job.why = "gc")
        /\ pc' \in {"pre_delete_dirty", "delete_dirty"} =>
             job' = job /\ sector[job.from[1]].dirty = "FALSE"
               /\ pc \in {"pre_delete", "delete"}
    BY GcAhead
  <1>e. CASE GcErase
    <2>1. PICK s \in Sector : s = gc.at /\ sector'[s] = Erased
                 /\ \A t \in Sector \ {s} : sector'[t] = sector[t]
      BY <1>e, FormatFlash DEF GcErase
    <2>2. pc = "gc_erase" /\ pc' = "gc_format" /\ gc' = gc /\ job' = job /\ job.why # "gc"
            /\ gc.left > 0
      BY <1>e, Quiet DEF GcErase, At, JobPcs, Preparing, Creating, Writing, Deleting, Shape,
         GcLoop
    <2>3. \A t \in Sector : sector[t].ok
      BY <2>2, AllOk
    <2>4. \A t \in Sector : ~sector'[t].ok => sector'[t] = Erased /\ t = gc'.at
      BY <2>1, <2>2, <2>3
    <2>5. sector'[gc'.at] = Erased
      BY <2>1, <2>2
    <2> QED
      BY <2>2, <2>4, <2>5 DEF GcLoop
  <1>1. \A s \in Sector : ~sector'[s].ok => /\ sector'[s] = Erased
                                            /\ pc' = "boot_hdr" \/ (pc' = "gc_format"
                                                 /\ s = gc'.at)
    <2>1. CASE pc \notin {"boot_hdr", "gc_format", "gc_erase"}
      BY <2>1, OkStays
    <2>2. CASE BootHdr
      <3>1. pc = "boot_hdr"
        BY <2>2, BootHdrFlash
      <3>2. \A s \in Sector : ~sector[s].ok => sector[s] = Erased
        BY DEF Shape, GcLoop
      <3>3. Fresh.ok = TRUE
        BY DEF Fresh
      <3> QED
        BY <2>2, <3>1, <3>2, <3>3, BootHdrFlash DEF SameHeaders
    <2>3. CASE GcFormat
      <3>1. pc = "gc_format"
        BY <2>3 DEF GcFormat, At
      <3>2. \A s \in Sector : ~sector[s].ok => s = gc.at
        BY <3>1 DEF Shape, GcLoop
      <3>3. Fresh.ok = TRUE
        BY DEF Fresh
      <3> QED
        BY <2>3, <3>1, <3>2, <3>3, FormatFlash
    <2>4. CASE PowerCut
      BY <2>4 DEF PowerCut, Shape, GcLoop
    <2>5. BootHdr \/ GcFormat \/ GcErase \/ PowerCut
            \/ pc \notin {"boot_hdr", "gc_format", "gc_erase"}
      BY StepAt
    <2>6. CASE GcErase
      BY <2>6, <1>e DEF GcLoop
    <2> QED
      BY <2>1, <2>2, <2>3, <2>4, <2>5, <2>6
  <1>2. pc' = "gc_format" => sector'[gc'.at] = Erased
    <2>1. ASSUME pc' = "gc_format" PROVE GcErase
      <3>1. pc = "gc_erase" /\ ~PowerCut
        BY <1>a, <2>1 DEF PowerCut
      <3> QED
        BY <2>1, <3>1, StepAt
    <2> QED
      BY <1>e, <2>1 DEF GcLoop
  <1>3. ASSUME pc' \in {"gc_kv", "gc_erase"} \/ job'.why = "gc"
        PROVE  sector'[gc'.at].dirty = "GC"
    <2>1. CASE pc = "gc_sector"
      <3>1. GcSector
        <4>1. ~PowerCut
          BY <1>3, Empties DEF PowerCut
        <4>2. GcSector \/ GcFinished
          BY <2>1, <4>1, StepAt
        <4>3. ASSUME GcFinished PROVE FALSE
          <5>1. pc' = gc.ret /\ job' = job /\ job = NoJob
            BY <2>1, <4>3, GcEndsEffect, Quiet DEF JobPcs, Preparing, Creating, Writing,
               Deleting
          <5> QED
            BY <5>1, <1>3, <4>3, GcEndsEffect, Empties
        <4> QED
          BY <4>2, <4>3
      <3> QED
        BY <3>1, GcSectorFlash
    <2>2. CASE pc # "gc_sector"
      <3>1. gc'.at = gc.at /\ (pc = "gc_kv" \/ job.why = "gc")
        BY <1>3, <1>a, <2>2
      <3>2. sector[gc.at].dirty = "GC"
        BY <3>1 DEF Shape, GcLoop
      <3>3. pc \notin {"boot_hdr", "gc_format", "gc_erase"}
        BY <3>1, Quiet DEF JobPcs, Preparing, Creating, Writing, Deleting
      <3> QED
        BY <1>0, <2>2, <3>1, <3>2, <3>3, HeadersStay
    <2> QED
      BY <2>1, <2>2
  <1>4. ASSUME pc' \in {"pre_delete_dirty", "delete_dirty"}
        PROVE  sector'[job'.from[1]].dirty = "FALSE"
    <2>1. job' = job /\ sector[job.from[1]].dirty = "FALSE" /\ pc \in {"pre_delete", "delete"}
      BY <1>4, <1>a
    <2>2. job.from[1] \in Sector
      <3>1. job.from \in Places
        BY <2>1 DEF Shape, Froms, JobPcs, Preparing, Deleting, Creating, Writing
      <3> QED
        BY <3>1, PlaceFacts DEF Shape
    <2>3. SameHeaders
      <3>1. PreDelete \/ Delete
        <4>1. ~PowerCut
          BY <1>4 DEF PowerCut
        <4> QED
          BY <2>1, <4>1, StepAt
      <3> QED
        BY <3>1, PreDeleteFlash, DeleteFlash
    <2> QED
      BY <2>1, <2>2, <2>3 DEF SameHeaders
  <1>5. ASSUME job'.why = "gc", pc' \in Creating \cup Writing
        PROVE  job'.to[1] # gc'.at
    <2>1. CASE MoveKv
      <3>1. PICK to \in Sector : to = alloc_kv(KvLen[job.val]) /\ to # NoSector
                   /\ job'.to = <<to>> /\ job'.why = job.why
        BY <1>5, <2>1, Empties, MoveKvEffect
      <3>2. sector[to].dirty \in {"FALSE", "TRUE"}
        BY <3>1, <1>t, AllocEffect
      <3>3. sector[gc.at].dirty = "GC" /\ gc' = gc
        BY <1>5, <3>1, <2>1, MoveKvEffect DEF Shape, GcLoop
      <3> QED
        BY <3>1, <3>2, <3>3
    <2>2. CASE PreWrite
      <3>1. gc' = gc /\ job'.to[1] = job.to[1] /\ job.why = "gc" /\ pc \in Creating
        BY <1>5, <2>2, PreWriteEffect DEF Creating
      <3> QED
        BY <3>1 DEF Shape, GcLoop
    <2>3. CASE Use \/ WriteHeader \/ WriteData
      <3>1. gc' = gc /\ job' = job /\ pc \in Creating \cup Writing
        BY <1>5, <2>3, PartFlash DEF Creating, Writing, Use, At
      <3> QED
        BY <1>5, <3>1 DEF Shape, GcLoop
    <2>4. CASE PreDelete \/ PreDeleteDirty
      <3>1. /\ job' = job /\ pc \in Preparing
            /\ pc' = "pre_delete_dirty" \/ pc' = Prepared
        BY <2>4 DEF PreDelete, PreDeleteDirty, At, Preparing
      <3>2. pc' = "pre_delete_dirty" \/ pc' = "move_kv"
        BY <1>5, <3>1, WhereNext
      <3> QED
        BY <1>5, <3>2 DEF Creating, Writing
    <2>5. MoveKv \/ PreWrite \/ Use \/ WriteHeader \/ WriteData \/ PreDelete \/ PreDeleteDirty
      <3>1. ~PowerCut
        BY <1>5, Empties DEF PowerCut
      <3>2. pc' \in {"use", "pre_write", "header", "data", "write"}
        BY <1>5 DEF Creating, Writing
      <3>3. pc = "gc_sector" \/ pc = "gc_kv" \/ (pc \in JobPcs /\ pc # "done")
        BY <1>5, <1>a, Quiet DEF Shape, Jobs
      <3>4. ASSUME pc = "gc_sector" PROVE FALSE
        BY <3>1, <3>2, <3>4, <1>5, StepAt, GcSectorEffect, GcEndsEffect
      <3>5. ASSUME pc = "gc_kv" PROVE FALSE
        BY <3>1, <3>2, <3>5, <1>5, StepAt, GcKvEffect
      <3>6. ASSUME pc \in {"write", "delete", "delete_dirty"} PROVE FALSE
        BY <3>1, <3>2, <3>6, StepAt, WriteEffect, DeleteEffect, DeleteDirtyEffect
      <3> QED
        BY <3>1, <3>3, <3>4, <3>5, <3>6, StepAt DEF JobPcs, Preparing, Creating, Writing,
           Deleting
    <2> QED
      BY <2>1, <2>2, <2>3, <2>4, <2>5
  <1> QED
    BY <1>1, <1>2, <1>3, <1>4, <1>5, <1>a DEF GcLoop

\* Of two empty sectors one is left.
LEMMA TwoAreSpare ==
    ASSUME NEW S, NEW x, Cardinality(S) > 1
    PROVE  S \ {x} # {}
  <1>1. ASSUME S \ {x} = {} PROVE FALSE
    <2>1. S = {} \/ S = {x}
      BY <1>1
    <2>2. Cardinality({}) = 0 /\ Cardinality({x}) = 1
      BY FS_EmptySet, FS_Singleton
    <2> QED
      BY <2>1, <2>2
  <1> QED
    BY <1>1

\* Only Use takes an empty sector, and formatting gives one back.
LEMMA EmptyStays ==
    ASSUME Shape, Next
    PROVE  /\ pc \notin {"use", "gc_erase", "gc_format", "boot_hdr"} => Empty' = Empty
           /\ Use => Empty' = Empty \ {job.to[1]}
           /\ GcFormat \/ (BootHdr /\ pc' = "boot_hdr") => Empty' # {}
           /\ BootHdr /\ pc' = "boot_gc" =>
                Empty' = Empty /\ Marked' = Marked /\ \A s \in Sector : sector[s].ok
           /\ sector' = sector => Empty' = Empty /\ Marked' = Marked
  <1>t. TypeOK
    BY DEF Shape
  <1>1. SameHeaders => Empty' = Empty /\ Marked' = Marked
    BY DEF SameHeaders, Empty, Marked
  <1>2. sector' = sector => Empty' = Empty /\ Marked' = Marked
    BY DEF Empty, Marked
  <1>3. PreDeleteDirty => Empty' = Empty
    <2> HAVE PreDeleteDirty
    <2>1. pc = "pre_delete_dirty" /\ MakeDirty
      BY DEF PreDeleteDirty, At
    <2> QED
      BY <2>1, FromDirty DEF Empty
  <1>4. DeleteDirty => Empty' = Empty
    BY DeleteDirtyEffect, FromDirty DEF Empty
  <1>5. GcSector => Empty' = Empty
    BY GcSectorFlash DEF Empty
  <1>6. Use => Empty' = Empty \ {job.to[1]}
    BY UseFlash DEF Empty
  <1>7. GcFormat => Empty' # {}
    <2> HAVE GcFormat
    <2>1. PICK s \in Sector : sector'[s] = Fresh
      BY FormatFlash DEF GcFormat
    <2> QED
      BY <2>1 DEF Empty, Fresh
  <1>8. BootHdr /\ pc' = "boot_hdr" => Empty' # {}
    <2> HAVE BootHdr /\ pc' = "boot_hdr"
    <2>1. PICK s \in Sector : sector'[s] = Fresh
      BY BootHdrFlash
    <2> QED
      BY <2>1 DEF Empty, Fresh
  <1>9. BootHdr /\ pc' = "boot_gc" => SameHeaders /\ \A s \in Sector : sector[s].ok
    BY BootHdrFlash
  <1>10. \/ sector' = sector \/ SameHeaders \/ PreDeleteDirty \/ DeleteDirty \/ GcSector
         \/ Use \/ GcErase \/ GcFormat \/ (BootHdr /\ pc' = "boot_hdr")
    BY <1>9, FlashSteps, PreDeleteFlash, DeleteFlash, PreWriteFlash, PartFlash, WriteFlash,
       BootKvFlash, BootHdrFlash
  <1>11. (Use => pc = "use") /\ (GcErase => pc = "gc_erase") /\ (GcFormat => pc = "gc_format")
         /\ (BootHdr => pc = "boot_hdr")
    BY DEF Use, GcErase, GcFormat, BootHdr, At
  <1> QED
    BY <1>1, <1>2, <1>3, <1>4, <1>5, <1>6, <1>7, <1>8, <1>9, <1>10, <1>11

\* A collection that still has all sectors to look at finds a marked one.
LEMMA AllSectorsLookedAt ==
    ASSUME Shape, pc = "gc_sector", gc.left = SECTOR_NUM, Marked # {}
    PROVE  DirtyIn # {}
  <1>1. PICK s \in Sector : sector[s].dirty = "GC"
    BY DEF Marked
  <1>2. gc.at \in Sector /\ SECTOR_NUM \in Nat /\ SECTOR_NUM > 1
    BY SizeAssumption DEF Shape, Registers, GcType
  <1>3. \E n \in 0 .. SECTOR_NUM - 1 : (gc.at + n) % SECTOR_NUM = s
    <2>1. CASE s >= gc.at
      <3>1. s - gc.at \in 0 .. SECTOR_NUM - 1 /\ gc.at + (s - gc.at) = s
        BY <1>2, <2>1 DEF Sector
      <3>2. s % SECTOR_NUM = s
        BY <1>2 DEF Sector
      <3> QED
        BY <3>1, <3>2
    <2>2. CASE s < gc.at
      <3>1. s + SECTOR_NUM - gc.at \in 0 .. SECTOR_NUM - 1
        BY <1>2, <2>2 DEF Sector
      <3>2. gc.at + (s + SECTOR_NUM - gc.at) = s + SECTOR_NUM
              /\ (s + SECTOR_NUM) % SECTOR_NUM = s
        BY <1>2 DEF Sector
      <3> QED
        BY <3>1, <3>2
    <2> QED
      BY <1>2, <2>1, <2>2 DEF Sector
  <1> QED
    BY <1>1, <1>3 DEF DirtyIn

\* Outside a collection alloc_kv leaves an empty sector over.
LEMMA AllocSpares ==
    ASSUME Shape, Spare, Empty # {}, ~gc_request, NEW len, NEW to, to = alloc_kv(len),
        to # NoSector
    PROVE  Empty \ {to} # {}
  <1>1. to \in Empty => Cardinality(Empty) > 1
    BY AllocEffect DEF Shape, Registers
  <1>2. CASE to \in Empty
    BY <1>1, <1>2, TwoAreSpare
  <1>3. CASE to \notin Empty
    BY <1>3
  <1> QED
    BY <1>2, <1>3

\* Every step keeps a sector to collect into.
LEMMA NextSpare ==
    ASSUME Shape, Spare, Next
    PROVE  Spare'
  <1> USE DEF Spare, JobPcs, Preparing, Creating, Writing, Deleting, GcPcs, BootPcs, CallPcs
  <1>1. ASSUME NEW k \in Key, NEW v \in ValueOf[k], fdb_kv_set(k, v) PROVE Spare'
    BY <1>1, SetEffect, EmptyStays
  <1>2. ASSUME NEW k \in Key, fdb_kv_del(k) PROVE Spare'
    BY <1>2, DelEffect, EmptyStays
  <1>3. ASSUME NewKv("new_kv") PROVE Spare'
    <2>1. Empty # {} /\ Empty' = Empty
      BY <1>3, NewKvEffect, EmptyStays DEF NewKv
    <2>2. CASE \E to \in Sector : /\ to = alloc_kv(KvLen[op.val]) /\ to # NoSector
                                  /\ job'.to = <<to>> /\ job'.why = "set"
                                  /\ pc' \in {"use", "pre_write", "pre_delete"}
      <3>1. ~gc_request
        BY <1>3, NewKvEffect, Quiet
      <3>2. Empty' \ {job'.to[1]} # {}
        BY <2>1, <2>2, <3>1, AllocSpares
      <3> QED
        BY <2>1, <2>2, <3>2
    <2>3. CASE UNCHANGED job /\ pc' \in {"gc", "idle"}
      <3>1. job.why = "none"
        BY <1>3, NewKvEffect, Quiet
      <3> QED
        BY <2>1, <2>3, <3>1
    <2> QED
      BY <1>3, <2>2, <2>3, NewKvEffect, WhereNext
  <1>4. ASSUME NewKv("new_kv_again") PROVE Spare'
    <2>1. Empty # {} /\ Empty' = Empty
      BY <1>4, NewKvEffect, EmptyStays DEF NewKv
    <2>2. CASE \E to \in Sector : /\ to = alloc_kv(KvLen[op.val]) /\ to # NoSector
                                  /\ job'.to = <<to>> /\ job'.why = "set"
                                  /\ pc' \in {"use", "pre_write", "pre_delete"}
      <3>1. ~gc_request
        BY <1>4, NewKvEffect, Quiet
      <3>2. Empty' \ {job'.to[1]} # {}
        BY <2>1, <2>2, <3>1, AllocSpares
      <3> QED
        BY <2>1, <2>2, <3>2
    <2>3. CASE UNCHANGED job /\ pc' \in {"gc", "idle"}
      <3>1. job.why = "none"
        BY <1>4, NewKvEffect, Quiet
      <3> QED
        BY <2>1, <2>3, <3>1
    <2> QED
      BY <1>4, <2>2, <2>3, NewKvEffect, WhereNext
  <1>5. ASSUME PreDelete PROVE Spare'
    <2>1. pc \in {"pre_delete", "pre_delete_dirty"} /\ job' = job
            /\ pc' \in {"pre_delete_dirty", "use", "pre_write", "move_kv"}
      BY <1>5, PreDeleteFlash
    <2>2. job.why \in {"set", "gc"}
      BY <2>1 DEF Shape, Jobs
    <2>3. Empty' = Empty
      BY <2>1, EmptyStays
    <2> QED
      BY <2>1, <2>2, <2>3
  <1>6. ASSUME PreDeleteDirty PROVE Spare'
    <2>1. pc \in {"pre_delete", "pre_delete_dirty"} /\ job' = job
            /\ pc' \in {"pre_delete_dirty", "use", "pre_write", "move_kv"}
      BY <1>6, WhereNext DEF PreDeleteDirty, At
    <2>2. job.why \in {"set", "gc"}
      BY <2>1 DEF Shape, Jobs
    <2>3. Empty' = Empty
      BY <2>1, EmptyStays
    <2> QED
      BY <2>1, <2>2, <2>3
  <1>7. ASSUME Use PROVE Spare'
    <2>1. pc = "use" /\ job' = job /\ pc' = "pre_write"
      BY <1>7 DEF Use, At
    <2>2. job.why \in {"set", "gc", "recovery"}
      BY <2>1, WhereNext DEF Shape, Jobs
    <2>3. Empty' = Empty \ {job.to[1]}
      BY <1>7, EmptyStays
    <2> QED
      BY <2>1, <2>2, <2>3
  <1>8. ASSUME PreWrite PROVE Spare'
    BY <1>8, PreWriteEffect, EmptyStays
  <1>9. ASSUME WriteHeader PROVE Spare'
    BY <1>9, PartFlash, EmptyStays
  <1>10. ASSUME WriteData PROVE Spare'
    BY <1>10, PartFlash, EmptyStays
  <1>11. ASSUME Write PROVE Spare'
    BY <1>11, WriteEffect, EmptyStays
  <1>12. ASSUME Delete PROVE Spare'
    BY <1>12, DeleteEffect, EmptyStays, Empties
  <1>13. ASSUME DeleteDirty PROVE Spare'
    BY <1>13, DeleteDirtyEffect, EmptyStays, Empties
  <1>14. ASSUME Done PROVE Spare'
    BY <1>14, DoneEffect, EmptyStays
  <1>15. ASSUME MoveKv PROVE Spare'
    <2>1. Empty' = Empty /\ (job.why = "recovery" => Empty # {} /\ ~gc_request)
      <3>1. Empty' = Empty
        BY <1>15, MoveKvEffect, EmptyStays
      <3>2. pc = "move_kv" /\ (job.why = "recovery" => ~InGc)
        BY <1>15, MoveKvEffect DEF InGc
      <3> QED
        BY <3>1, <3>2 DEF Shape, Modes
    <2>2. CASE \E to \in Sector : /\ to = alloc_kv(KvLen[job.val]) /\ to # NoSector
                                  /\ job'.to = <<to>> /\ job'.why = job.why
                                  /\ pc' \in {"use", "pre_write", "delete"}
      <3>1. job.why = "recovery" => Empty' \ {job'.to[1]} # {}
        BY <2>1, <2>2, AllocSpares
      <3>2. job.why \in {"gc", "recovery"}
        BY <1>15, MoveKvEffect
      <3> QED
        BY <2>1, <2>2, <3>1, <3>2
    <2>3. CASE job' = NoJob /\ pc' = IF job.why = "gc" THEN "gc_kv" ELSE "boot_end"
      <3>1. job.why \in {"gc", "recovery"}
        BY <1>15, MoveKvEffect
      <3> QED
        BY <2>1, <2>3, <3>1, Empties
    <2> QED
      BY <1>15, <2>2, <2>3, MoveKvEffect, WhereNext
  <1>16. ASSUME Gc PROVE Spare'
    BY <1>16, GcEffect, EmptyStays
  <1>17. ASSUME GcNotNeeded PROVE Spare'
    <2>1. Empty' = Empty
      BY <1>17, EmptyStays, GcEndsEffect
    <2>2. Empty # {}
      <3>1. Cardinality(Empty) > 1
        BY <1>17 DEF GcNotNeeded, FDB_GC_EMPTY_SEC_THRESHOLD
      <3> QED
        BY <3>1, TwoAreSpare
    <2>3. /\ pc \in {"gc", "gc_sector"} /\ job' = job
               /\ pc' \in {"idle", "new_kv_again", "boot_gc", "boot_kv"}
      BY <1>17, GcEndsEffect
    <2>4. job'.why = "none"
      BY <2>3, Quiet
    <2> QED
      BY <2>1, <2>2, <2>3, <2>4
  <1>18. ASSUME GcSector PROVE Spare'
    BY <1>18, GcSectorEffect, EmptyStays
  <1>19. ASSUME GcFinished PROVE Spare'
    <2>1. Empty' = Empty
      BY <1>19, EmptyStays, GcEndsEffect
    <2>2. Empty # {}
      BY <1>19, AllSectorsLookedAt DEF GcFinished, At
    <2>3. /\ pc \in {"gc", "gc_sector"} /\ job' = job
               /\ pc' \in {"idle", "new_kv_again", "boot_gc", "boot_kv"}
      BY <1>19, GcEndsEffect
    <2>4. job'.why = "none"
      BY <2>3, Quiet
    <2> QED
      BY <2>1, <2>2, <2>3, <2>4
  <1>20. ASSUME GcKv PROVE Spare'
    BY <1>20, GcKvEffect, EmptyStays
  <1>21. ASSUME GcErase PROVE Spare'
    BY <1>21, EmptyStays, Quiet DEF GcErase, At
  <1>22. ASSUME GcFormat PROVE Spare'
    BY <1>22, GcFormatEffect, EmptyStays
  <1>23. ASSUME PowerCut PROVE Spare'
    <2>1. Empty' = Empty /\ Marked' = Marked /\ sector' = sector /\ pc' = "boot_hdr"
            /\ job' = NoJob
      BY <1>23, EmptyStays DEF PowerCut
    <2>2. ASSUME pc \in {"gc_kv", "gc_erase"} \/ job.why = "gc" PROVE Marked # {}
      <3>1. gc.at \in Sector /\ sector[gc.at].dirty = "GC"
        BY <2>2 DEF Shape, Registers, GcType, GcLoop
      <3> QED
        BY <3>1 DEF Marked
    <2>3. ASSUME pc = "gc_format" PROVE \E s \in Sector : ~sector[s].ok
      <3>1. gc.at \in Sector /\ sector[gc.at] = Erased
        BY <2>3 DEF Shape, Registers, GcType, GcLoop
      <3> QED
        BY <3>1 DEF Erased
    <2>4. Empty # {} \/ Marked # {} \/ \E s \in Sector : ~sector[s].ok
      <3>1. pc \in JobPcs => job.why \in {"set", "del", "gc", "recovery"}
        BY WhereNext
      <3>2. pc \in CallPcs \cup BootPcs \cup GcPcs \cup JobPcs
        BY DEF Shape, Registers, Pcs
      <3> QED
        BY <2>2, <2>3, <3>1, <3>2
    <2> QED
      BY <2>1, <2>4, Empties
  <1>24. ASSUME BootHdr PROVE Spare'
    <2>1. CASE pc' = "boot_gc"
      <3>1. Empty' = Empty /\ Marked' = Marked /\ \A s \in Sector : sector[s].ok
        BY <1>24, <2>1, EmptyStays
      <3>2. pc = "boot_hdr" /\ it' = it /\ job' = job
        BY <1>24 DEF BootHdr, At
      <3>3. it'[1] = 0
        BY <3>2 DEF Shape, Modes, NoIt
      <3>4. \A s \in Marked : s \in Sector /\ s >= 0
        BY SizeAssumption DEF Marked, Sector
      <3>5. job'.why = "none"
        BY <3>2, Quiet
      <3> QED
        BY <2>1, <3>1, <3>2, <3>3, <3>4, <3>5
    <2>2. CASE pc' = "boot_hdr"
      BY <1>24, <2>2, EmptyStays, BootHdrFlash
    <2> QED
      BY <1>24, <2>1, <2>2, BootHdrFlash
  <1>25. ASSUME BootGc PROVE Spare'
    <2>1. Empty' = Empty /\ Marked' = Marked /\ job' = job /\ job.why = "none" /\ pc = "boot_gc"
      BY <1>25, BootGcEffect, EmptyStays, Quiet
    <2>2. CASE pc' = "boot_kv" /\ \A s \in Sector : s >= it[1] => sector[s].dirty # "GC"
      <3>1. Empty # {}
        BY <2>1, <2>2 DEF Marked
      <3> QED
        BY <2>1, <2>2, <3>1
    <2>3. CASE pc' = "gc" /\ \E s \in Sector : sector[s].dirty = "GC"
      <3>1. Marked # {}
        BY <2>3 DEF Marked
      <3> QED
        BY <2>1, <2>3, <3>1
    <2> QED
      BY <1>25, <2>2, <2>3, BootGcEffect
  <1>26. ASSUME BootKv PROVE Spare'
    BY <1>26, BootKvEffect, EmptyStays
  <1>27. ASSUME BootEnd PROVE Spare'
    BY <1>27, BootEndEffect, EmptyStays
  <1> QED
    BY <1>1, <1>2, <1>3, <1>4, <1>5, <1>6, <1>7, <1>8, <1>9, <1>10, <1>11, <1>12, <1>13, <1>14,
       <1>15, <1>16, <1>17, <1>18, <1>19, <1>20, <1>21, <1>22, <1>23, <1>24, <1>25, <1>26,
       <1>27 DEF Next, Step, Call

\* The empty flash of a first start has the structure.
LEMMA InitStructure == Init => Structure
  <1> SUFFICES ASSUME Init PROVE Structure
    OBVIOUS
  <1>0. 0 \in Sector /\ Sector # {}
    BY SizeAssumption DEF Sector
  <1>1. sector \in [Sector -> SectorType] /\ oldest \in Sector
          /\ kv_cache = [k \in Key |-> NoLoc]
        /\ kv_cache \in [Key -> Loc \cup {NoLoc}]
    BY <1>0, FreshTyped DEF Init
  <1>2. TypeOK
    BY <1>1 DEF TypeOK, SectorType, KvType
  <1>3. \A s \in Sector : sector[s] = Erased /\ ~sector[s].ok /\ DOMAIN sector[s].kv = {}
    BY DEF Init, Erased
  <1>4. Places = {}
    BY <1>3 DEF Places
  <1>5. Named
    BY <1>4 DEF Named
  <1>6. pc = "boot_hdr" /\ job = NoJob /\ gc = NoGc /\ it = NoIt /\ op = NoOp
          /\ in_recovery_check = TRUE /\ gc_request = FALSE
        /\ last_is_complete_del = FALSE
    BY DEF Init
  <1>7. Registers
    BY <1>1, <1>6, Empties DEF Registers, Pcs, BootPcs
  <1>8. ~InGc
    BY <1>6, Empties DEF InGc, GcPcs
  <1>9. Modes
    BY <1>6, <1>8, Empties DEF Modes, BootPcs
  <1>10. pc \notin JobPcs
    BY <1>6 DEF JobPcs, Preparing, Creating, Writing, Deleting
  <1>11. Jobs /\ Froms /\ Tos
    BY <1>6, <1>10, Empties DEF Jobs, Froms, Tos, JobPcs, Preparing, Creating, Writing, Deleting
  <1>12. GcLoop
    BY <1>3, <1>6, Empties DEF GcLoop
  <1>13. Spare
    BY <1>0, <1>3, <1>6, Empties DEF Spare, CallPcs, Preparing
  <1> QED
    BY <1>2, <1>5, <1>7, <1>9, <1>11, <1>12, <1>13 DEF Structure, Shape

\* A stutter keeps the structure.
LEMMA SameStructure == Structure /\ UNCHANGED vars => Structure'
  <1> SUFFICES ASSUME Structure, UNCHANGED vars PROVE Structure'
    OBVIOUS
  <1>1. UNCHANGED <<sector, oldest, gc_request, in_recovery_check, last_is_complete_del,
     kv_cache,
                    pc, op, job, gc, it, cuts, sound>>
    BY DEF vars, ram, hist
  <1>2. UNCHANGED <<Places, Empty, Marked, InGc>>
    BY <1>1 DEF Places, Empty, Marked, InGc
  <1>3. TypeOK' /\ Named'
    BY <1>1, <1>2 DEF Structure, Shape, TypeOK, Named, Kv
  <1>4. Registers' /\ Modes' /\ Jobs'
    BY <1>1, <1>2 DEF Structure, Shape, Registers, Modes, Jobs
  <1>5. Froms' /\ Tos'
    BY <1>1, <1>2 DEF Structure, Shape, Froms, Tos, Kv
  <1>6. GcLoop' /\ Spare'
    BY <1>1, <1>2 DEF Structure, Shape, GcLoop, Spare
  <1> QED
    BY <1>3, <1>4, <1>5, <1>6 DEF Structure, Shape

\* Every step keeps the structure.
LEMMA NextStructure == Structure /\ [Next]_vars => Structure'
  <1> SUFFICES ASSUME Structure, [Next]_vars PROVE Structure'
    OBVIOUS
  <1>1. CASE Next
    BY <1>1, NextTyped, NextRegisters, NextModes, NextJobs, NextFroms, NextTos, NextGcLoop,
       NextSpare
       DEF Structure, Shape
  <1>2. CASE UNCHANGED vars
    BY <1>2, SameStructure
  <1> QED
    BY <1>1, <1>2

\* The registers always belong to the operation at hand, they point to KVs
\* that are in the flash, and a collection has an empty sector to move to:
\* the inductive invariant of fdb_kvdb.c.
THEOREM StructureHolds == Spec => []Structure
  BY InitStructure, NextStructure, PTL DEF Spec

\* The flash, the cache and oldest_addr keep their types.
THEOREM TypeCorrect == Spec => []TypeOK
  <1>1. Structure => TypeOK
    BY DEF Structure, Shape
  <1> QED
    BY <1>1, StructureHolds, PTL

\* Between calls, and before the second try of create_kv_blob, one sector is
\* empty, so that a garbage collection can always move its KVs.
THEOREM SpareSectorKept == Spec => []SpareSector
  <1>1. Structure => SpareSector
    BY DEF Structure, Spare, SpareSector, CallPcs
  <1> QED
    BY <1>1, StructureHolds, PTL

\* Counting up from 0 to n.
LEMMA Counting ==
    ASSUME NEW n \in Nat, NEW S, 0 \in S, \A i \in 0 .. n : i # n /\ i \in S => i + 1 \in S
    PROVE  \A i \in 0 .. n : i \in S
  <1>1. SUFFICES ASSUME NEW j \in 0 .. n, j \notin S PROVE FALSE
    OBVIOUS
  <1> DEFINE T == {i \in 0 .. n : i \notin S}
  <1>2. T \in SUBSET Nat /\ T # {}
    BY <1>1
  <1>3. PICK m \in T : \A i \in T : m <= i
    BY <1>2, LeastNatural
  <1>4. m \in Nat /\ m # 0 /\ m - 1 \in 0 .. n /\ m - 1 # n
    BY <1>3
  <1>5. m - 1 \in S
    BY <1>3, <1>4
  <1> QED
    BY <1>3, <1>4, <1>5

\* The recursion of RoomAfter has a solution.
LEMMA RoomExists ==
    ASSUME NEW n \in Nat, NEW kv
    PROVE  \E r : r = [i \in 0 .. n |-> IF i = 0 THEN SecSize ELSE r[i - 1] - LenOf(kv[i])]
  <1> DEFINE Upto(j) == \E r : r = [i \in 0 .. j |-> IF i = 0 THEN SecSize
        ELSE r[i - 1] - LenOf(kv[i])]
             S == {j \in 0 .. n : Upto(j)}
  <1>1. Upto(0)
    <2>1. [i \in 0 .. 0 |-> SecSize] = [i \in 0 .. 0 |-> IF i = 0 THEN SecSize
            ELSE [k \in 0 .. 0 |-> SecSize][i - 1] - LenOf(kv[i])]
      OBVIOUS
    <2> QED
      BY <2>1
  <1>2. ASSUME NEW j \in 0 .. n, j # n, Upto(j) PROVE Upto(j + 1)
    <2>1. PICK r : r = [i \in 0 .. j |-> IF i = 0 THEN SecSize ELSE r[i - 1] - LenOf(kv[i])]
      BY <1>2
    <2> DEFINE q == [i \in 0 .. j + 1 |-> IF i = j + 1 THEN r[j] - LenOf(kv[j + 1]) ELSE r[i]]
    <2>2. \A i \in 0 .. j : r[i] = IF i = 0 THEN SecSize ELSE r[i - 1] - LenOf(kv[i])
      BY <2>1
    <2>3. \A i \in 0 .. j + 1 : q[i] = IF i = 0 THEN SecSize ELSE q[i - 1] - LenOf(kv[i])
      <3>1. \A i \in 0 .. j : q[i] = r[i]
        OBVIOUS
      <3>2. \A i \in 1 .. j : i - 1 \in 0 .. j
        OBVIOUS
      <3>3. q[j + 1] = q[j] - LenOf(kv[j + 1]) /\ j + 1 # 0 /\ (j + 1) - 1 = j
        BY <3>1
      <3>4. \A i \in 0 .. j + 1 : i \in 0 .. j \/ i = j + 1
        OBVIOUS
      <3> HIDE DEF q
      <3> QED
        BY <2>2, <3>1, <3>2, <3>3, <3>4
    <2>4. q = [i \in 0 .. j + 1 |-> IF i = 0 THEN SecSize ELSE q[i - 1] - LenOf(kv[i])]
      <3>1. q = [i \in 0 .. j + 1 |-> q[i]]
        OBVIOUS
      <3> HIDE DEF q
      <3> QED
        BY <2>3, <3>1
    <2> QED
      BY <2>4
  <1> HIDE DEF Upto
  <1>3. 0 \in S
    BY <1>1
  <1>4. \A i \in 0 .. n : i # n /\ i \in S => i + 1 \in S
    BY <1>2
  <1> HIDE DEF S
  <1>5. \A i \in 0 .. n : i \in S
    BY <1>3, <1>4, Counting, Zenon
  <1> QED
    BY <1>5 DEF S, Upto

\* the function RoomAfter denotes

\* read_sector_info takes the length of one KV after the other from the room.
LEMMA RoomRecursion ==
    ASSUME NEW kv \in Seq(KvType)
    PROVE  \A i \in 0 .. Len(kv) :
             RoomAfter(kv)[i] = IF i = 0 THEN SecSize ELSE RoomAfter(kv)[i - 1] - LenOf(kv[i])
  <1> DEFINE room[n \in 0 .. Len(kv)] == IF n = 0 THEN SecSize ELSE room[n - 1] - LenOf(kv[n])
  <1>1. Len(kv) \in Nat
    OBVIOUS
  <1>2. PICK r : r = [i \in 0 .. Len(kv) |-> IF i = 0 THEN SecSize ELSE r[i - 1] - LenOf(kv[i])]
    BY <1>1, RoomExists, Zenon
  <1>3. room = [i \in 0 .. Len(kv) |-> IF i = 0 THEN SecSize ELSE room[i - 1] - LenOf(kv[i])]
    BY <1>2
  <1>4. RoomAfter(kv) = room
    BY DEF RoomAfter
  <1> HIDE DEF room
  <1> QED
    BY <1>3, <1>4

\* The room depends on the lengths of the KVs only.
LEMMA SameRoom ==
    ASSUME NEW kv \in Seq(KvType), NEW new \in Seq(KvType), NEW n \in 0 .. Len(kv),
       n <= Len(new),
           \A i \in 1 .. Len(kv) : LenOf(kv[i]) \in Nat,
           \A i \in 1 .. Len(new) : LenOf(new[i]) \in Nat,
           \A i \in 1 .. n : LenOf(new[i]) = LenOf(kv[i])
    PROVE  RoomAfter(new)[n] = RoomAfter(kv)[n]
  <1> DEFINE S == {i \in 0 .. n : RoomAfter(new)[i] = RoomAfter(kv)[i]}
  <1>0. Len(kv) \in Nat /\ Len(new) \in Nat /\ n \in Nat
    OBVIOUS
  <1>1. 0 \in S
    BY <1>0, RoomRecursion
  <1>2. ASSUME NEW i \in 0 .. n, i # n, i \in S PROVE i + 1 \in S
    <2>1. i + 1 \in 1 .. n /\ i + 1 \in 0 .. Len(kv) /\ i + 1 \in 0 .. Len(new)
            /\ (i + 1) - 1 = i /\ i + 1 # 0
      BY <1>0, <1>2
    <2>2. RoomAfter(new)[i + 1] = RoomAfter(new)[i] - LenOf(new[i + 1])
      BY <2>1, RoomRecursion
    <2>3. RoomAfter(kv)[i + 1] = RoomAfter(kv)[i] - LenOf(kv[i + 1])
      BY <2>1, RoomRecursion
    <2> QED
      BY <1>2, <2>1, <2>2, <2>3
  <1> HIDE DEF S
  <1>3. \A i \in 0 .. n : i \in S
    <2>1. \A i \in 0 .. n : i # n /\ i \in S => i + 1 \in S
      BY <1>2
    <2> QED
      BY <1>0, <1>1, <2>1, Counting, Zenon
  <1> QED
    BY <1>0, <1>3 DEF S

\* The room never exceeds that of an empty sector.
LEMMA RoomBound ==
    ASSUME NEW kv \in Seq(KvType), \A i \in 1 .. Len(kv) : LenOf(kv[i]) \in Nat
    PROVE  \A i \in 0 .. Len(kv) : RoomAfter(kv)[i] \in Int /\ RoomAfter(kv)[i] <= SecSize
  <1> DEFINE n == Len(kv)
             S == {i \in 0 .. n : RoomAfter(kv)[i] \in Int /\ RoomAfter(kv)[i] <= SecSize}
  <1>0. n \in Nat
    OBVIOUS
  <1>1. 0 \in S
    BY <1>0, RoomRecursion, SizeAssumption
  <1>2. ASSUME NEW i \in 0 .. n, i # n, i \in S PROVE i + 1 \in S
    <2>1. i + 1 \in 1 .. n /\ i + 1 \in 0 .. n /\ (i + 1) - 1 = i /\ i + 1 # 0
      BY <1>0, <1>2
    <2>2. RoomAfter(kv)[i + 1] = RoomAfter(kv)[i] - LenOf(kv[i + 1])
      BY <2>1, RoomRecursion
    <2> QED
      BY <1>2, <2>1, <2>2, SizeAssumption
  <1> HIDE DEF S
  <1>3. \A i \in 0 .. n : i \in S
    <2>1. \A i \in 0 .. n : i # n /\ i \in S => i + 1 \in S
      BY <1>2
    <2> QED
      BY <1>0, <1>1, <2>1, Counting, Zenon
  <1> QED
    BY <1>0, <1>3 DEF S

\* A KV with a header has the length of its value.
LEMMA Sized ==
    ASSUME NEW x \in KvType, x.part # "status" => x.val \in Value
    PROVE  LenOf(x) \in Nat
  BY SizeAssumption DEF LenOf

\* Every KV in the flash has a length.
LEMMA PlacesSized ==
    ASSUME TypeOK, Named, NEW s \in Sector
    PROVE  /\ sector[s].kv \in Seq(KvType) /\ Len(sector[s].kv) \in Nat
           /\ \A i \in 1 .. Len(sector[s].kv) :
                 /\ sector[s].kv[i] \in KvType /\ <<s, i>> \in Places
                 /\ LenOf(sector[s].kv[i]) \in Nat
  <1>1. sector[s].kv \in Seq(KvType)
    BY DEF TypeOK, KvType
  <1>2. /\ Len(sector[s].kv) \in Nat /\ DOMAIN sector[s].kv = 1 .. Len(sector[s].kv)
        /\ \A i \in 1 .. Len(sector[s].kv) : sector[s].kv[i] \in KvType
    BY <1>1
  <1>3. \A i \in 1 .. Len(sector[s].kv) : <<s, i>> \in Places
    BY <1>2 DEF Places
  <1>4. ASSUME NEW i \in 1 .. Len(sector[s].kv) PROVE LenOf(sector[s].kv[i]) \in Nat
    <2>1. sector[s].kv[i].part # "status" => sector[s].kv[i].val \in Value
      BY <1>3 DEF Named, Kv
    <2> QED
      BY <1>2, <2>1, Sized
  <1> QED
    BY <1>1, <1>2, <1>3, <1>4

\* Every KV has a length after the step, too.
LEMMA PlacesSizedNext ==
    ASSUME TypeOK', Named', NEW s \in Sector
    PROVE  /\ sector'[s].kv \in Seq(KvType) /\ Len(sector'[s].kv) \in Nat
           /\ \A i \in 1 .. Len(sector'[s].kv) :
                 /\ sector'[s].kv[i] \in KvType /\ <<s, i>> \in Places'
                 /\ LenOf(sector'[s].kv[i]) \in Nat
  <1>1. sector'[s].kv \in Seq(KvType)
    BY DEF TypeOK, KvType
  <1>2. /\ Len(sector'[s].kv) \in Nat /\ DOMAIN sector'[s].kv = 1 .. Len(sector'[s].kv)
        /\ \A i \in 1 .. Len(sector'[s].kv) : sector'[s].kv[i] \in KvType
    BY <1>1
  <1>3. \A i \in 1 .. Len(sector'[s].kv) : <<s, i>> \in Places'
    BY <1>2 DEF Places
  <1>4. ASSUME NEW i \in 1 .. Len(sector'[s].kv) PROVE LenOf(sector'[s].kv[i]) \in Nat
    <2>1. sector'[s].kv[i].part # "status" => sector'[s].kv[i].val \in Value
      BY <1>3 DEF Named, Kv
    <2> QED
      BY <1>2, <2>1, Sized
  <1> QED
    BY <1>1, <1>2, <1>3, <1>4

\* The remaining room is an integer and at most that of an empty sector.
LEMMA RemainBound ==
    ASSUME TypeOK, Named, NEW s \in Sector
    PROVE  Remain(s) \in Int /\ Remain(s) <= SecSize
  <1>1. Len(sector[s].kv) \in 0 .. Len(sector[s].kv)
    BY PlacesSized
  <1> QED
    BY <1>1, PlacesSized, RoomBound DEF Remain

\* The room stays where no KV changes its length.
LEMMA SameRemain ==
    ASSUME TypeOK, Named, TypeOK', Named', NEW s \in Sector,
           Len(sector'[s].kv) = Len(sector[s].kv),
           \A i \in 1 .. Len(sector[s].kv) : LenOf(sector'[s].kv[i]) = LenOf(sector[s].kv[i])
    PROVE  Remain(s)' = Remain(s)
  <1> DEFINE kv == sector[s].kv
             new == sector'[s].kv
             n == Len(kv)
  <1>1. kv \in Seq(KvType) /\ n \in Nat /\ \A i \in 1 .. Len(kv) : LenOf(kv[i]) \in Nat
    BY PlacesSized
  <1>2. new \in Seq(KvType) /\ Len(new) = n /\ \A i \in 1 .. Len(new) : LenOf(new[i]) \in Nat
    BY PlacesSizedNext
  <1>3. \A i \in 1 .. n : LenOf(new[i]) = LenOf(kv[i])
    OBVIOUS
  <1>4. Remain(s)' = RoomAfter(new)[Len(new)] /\ Remain(s) = RoomAfter(kv)[Len(kv)]
    BY DEF Remain
  <1> HIDE DEF kv, new
  <1>5. n \in 0 .. Len(kv) /\ n <= Len(new)
    BY <1>1, <1>2
  <1>6. RoomAfter(new)[n] = RoomAfter(kv)[n]
    BY <1>1, <1>2, <1>3, <1>5, SameRoom
  <1> QED
    BY <1>2, <1>4, <1>6

\* A new KV takes its length from the room.
LEMMA OneMore ==
    ASSUME TypeOK, Named, TypeOK', Named', NEW s \in Sector,
           Len(sector'[s].kv) = Len(sector[s].kv) + 1,
           \A i \in 1 .. Len(sector[s].kv) : LenOf(sector'[s].kv[i]) = LenOf(sector[s].kv[i])
    PROVE  Remain(s)' = Remain(s) - LenOf(sector'[s].kv[Len(sector'[s].kv)])
  <1> DEFINE kv == sector[s].kv
             new == sector'[s].kv
             n == Len(kv)
  <1>1. kv \in Seq(KvType) /\ n \in Nat /\ \A i \in 1 .. Len(kv) : LenOf(kv[i]) \in Nat
    BY PlacesSized
  <1>2. new \in Seq(KvType) /\ Len(new) = n + 1
          /\ \A i \in 1 .. Len(new) : LenOf(new[i]) \in Nat
    BY PlacesSizedNext
  <1>3. \A i \in 1 .. n : LenOf(new[i]) = LenOf(kv[i])
    OBVIOUS
  <1>4. Remain(s)' = RoomAfter(new)[Len(new)] /\ Remain(s) = RoomAfter(kv)[Len(kv)]
    BY DEF Remain
  <1> HIDE DEF kv, new
  <1>5. n \in 0 .. Len(kv) /\ n <= Len(new) /\ n + 1 \in 0 .. Len(new) /\ n + 1 # 0
          /\ (n + 1) - 1 = n
    BY <1>1, <1>2
  <1>6. RoomAfter(new)[n] = RoomAfter(kv)[n]
    BY <1>1, <1>2, <1>3, <1>5, SameRoom
  <1>7. RoomAfter(new)[n + 1] = RoomAfter(new)[n] - LenOf(new[n + 1])
    BY <1>2, <1>5, RoomRecursion
  <1> QED
    BY <1>2, <1>4, <1>6, <1>7 DEF new

\* A last KV that changes its length takes the difference from the room.
LEMMA LastChanged ==
    ASSUME TypeOK, Named, TypeOK', Named', NEW s \in Sector, NEW n \in Nat \ {0},
           Len(sector[s].kv) = n, Len(sector'[s].kv) = n,
           \A i \in 1 .. n - 1 : LenOf(sector'[s].kv[i]) = LenOf(sector[s].kv[i])
    PROVE  Remain(s)' = Remain(s) + LenOf(sector[s].kv[n]) - LenOf(sector'[s].kv[n])
  <1> DEFINE kv == sector[s].kv
             new == sector'[s].kv
  <1>1. kv \in Seq(KvType) /\ Len(kv) = n /\ \A i \in 1 .. Len(kv) : LenOf(kv[i]) \in Nat
    BY PlacesSized
  <1>2. new \in Seq(KvType) /\ Len(new) = n /\ \A i \in 1 .. Len(new) : LenOf(new[i]) \in Nat
    BY PlacesSizedNext
  <1>3. \A i \in 1 .. n - 1 : LenOf(new[i]) = LenOf(kv[i])
    OBVIOUS
  <1>4. Remain(s)' = RoomAfter(new)[n] /\ Remain(s) = RoomAfter(kv)[n]
    BY DEF Remain
  <1> HIDE DEF kv, new
  <1>5. n - 1 \in 0 .. Len(kv) /\ n - 1 <= Len(new) /\ n \in 0 .. Len(kv)
          /\ n \in 0 .. Len(new) /\ n # 0
    BY <1>1, <1>2
  <1>6. RoomAfter(new)[n - 1] = RoomAfter(kv)[n - 1]
    BY <1>1, <1>2, <1>3, <1>5, SameRoom
  <1>7. RoomAfter(new)[n] = RoomAfter(new)[n - 1] - LenOf(new[n])
    BY <1>2, <1>5, RoomRecursion
  <1>8. RoomAfter(kv)[n] = RoomAfter(kv)[n - 1] - LenOf(kv[n])
    BY <1>1, <1>5, RoomRecursion
  <1>9. LenOf(kv[n]) \in Nat /\ LenOf(new[n]) \in Nat /\ RoomAfter(kv)[n - 1] \in Int
    <2>1. LenOf(kv[n]) \in Nat /\ LenOf(new[n]) \in Nat
      BY <1>1, <1>2
    <2>2. RoomAfter(kv)[n - 1] \in Int
      BY <1>1, <1>5, RoomBound
    <2> QED
      BY <2>1, <2>2
  <1>10. RoomAfter(new)[n] = RoomAfter(kv)[n] + LenOf(kv[n]) - LenOf(new[n])
    <2>1. \A a, b, c \in Int : a - b = (a - c) + c - b
      OBVIOUS
    <2> QED
      BY <1>6, <1>7, <1>8, <1>9, <2>1
  <1> QED
    BY <1>4, <1>10 DEF new, kv

\* A sector whose places stay keeps its number of KVs.
LEMMA SameLen ==
    ASSUME TypeOK, TypeOK', Places' = Places
    PROVE  \A s \in Sector : Len(sector'[s].kv) = Len(sector[s].kv)
  <1> SUFFICES ASSUME NEW s \in Sector PROVE Len(sector'[s].kv) = Len(sector[s].kv)
    OBVIOUS
  <1>1. sector[s].kv \in Seq(KvType) /\ sector'[s].kv \in Seq(KvType)
    BY DEF TypeOK, KvType
  <1>2. \A i : i \in DOMAIN sector[s].kv <=> <<s, i>> \in Places
    BY DEF Places
  <1>3. \A i : i \in DOMAIN sector'[s].kv <=> <<s, i>> \in Places'
    BY DEF Places
  <1>4. DOMAIN sector'[s].kv = DOMAIN sector[s].kv
    BY <1>2, <1>3
  <1> QED
    BY <1>1, <1>4

\* A sector in use has room for the header of a KV.
LongEnough == (\E s \in Sector : sector[s].store = "USING") => SecSize > KV_HDR_DATA_SIZE

\* A sector that was allocated for a KV has room for it until it is written.
Reserved ==
    pc \in Creating \/ (pc \in Preparing /\ job.why = "set")
      => Remain(job.to[1]) > KvLen[job.val]

\* A KV that has its first status only is the last of its sector, and the
\* room it was promised is still there.
Begun ==
    pc = "header" => /\ job.to[2] = Len(sector[job.to[1]].kv)
                     /\ Remain(job.to[1]) + KV_HDR_DATA_SIZE > KvLen[job.val]

\* What alloc_kv promises for the KV that is about to be written.
Room == Fits /\ LongEnough /\ Reserved /\ Begun

\* alloc_kv answers with a sector that has room for the length.
LEMMA AllocRoom ==
    ASSUME TypeOK, Named, NEW len \in Nat, NEW to, to = alloc_kv(len), to # NoSector
    PROVE  to \in Sector /\ Remain(to) > len
  <1> DEFINE roomy == {s \in Using : HasRoom(s, len)}
             fresh == {s \in Empty : HasRoom(s, len)}
  <1>o. oldest \in Sector
    BY DEF TypeOK
  <1>1. to \in Sector /\ HasRoom(to, len)
    <2>1. CASE roomy # {}
      <3>1. to = FirstSector(roomy)
        BY <2>1 DEF alloc_kv
      <3>2. to \in roomy
        BY <1>o, <2>1, <3>1, FirstSectorIsFirst DEF Using
      <3> QED
        BY <3>2 DEF Using
    <2>2. CASE roomy = {}
      <3>1. to = FirstSector(fresh)
        BY <2>2 DEF alloc_kv
      <3>2. fresh # {}
        BY <3>1 DEF FirstSector
      <3>3. to \in fresh
        BY <1>o, <3>1, <3>2, FirstSectorIsFirst DEF Empty
      <3> QED
        BY <3>3 DEF Empty
    <2> QED
      BY <2>1, <2>2
  <1>2. Remain(to) \in Int
    BY <1>1, RemainBound
  <1> QED
    BY <1>1, <1>2, SizeAssumption DEF HasRoom

\* A sector that no step touches keeps its room.
LEMMA RemainOfSame ==
    ASSUME NEW s, sector'[s] = sector[s]
    PROVE  Remain(s)' = Remain(s)
  BY DEF Remain

\* Only PreWrite, WriteHeader, erasing and the first reading change the room.
LEMMA RemainKept ==
    ASSUME Shape, Next, ~PreWrite, ~WriteHeader, ~GcErase, ~GcFormat, ~BootHdr
    PROVE  \A s \in Sector : Len(sector'[s].kv) = Len(sector[s].kv) /\ Remain(s)' = Remain(s)
  <1>t. TypeOK /\ Named /\ TypeOK' /\ Named'
    BY NextTyped DEF Shape
  <1>k. \A l \in Places : Kv(l) \in KvType
    BY <1>t, PlaceFacts
  <1> DEFINE SameSizes == Places' = Places /\ \A l \in Places : LenOf(Kv(l)') = LenOf(Kv(l))
  <1>0. SUFFICES SameSizes
    <2> HIDE DEF SameSizes
    <2> SUFFICES ASSUME NEW s \in Sector
                 PROVE  Len(sector'[s].kv) = Len(sector[s].kv) /\ Remain(s)' = Remain(s)
      OBVIOUS
    <2>1. Len(sector'[s].kv) = Len(sector[s].kv)
      BY <1>0, <1>t, SameLen DEF SameSizes
    <2>2. \A i \in 1 .. Len(sector[s].kv) : LenOf(sector'[s].kv[i]) = LenOf(sector[s].kv[i])
      <3>1. \A i \in 1 .. Len(sector[s].kv) : <<s, i>> \in Places
        BY <1>t, PlacesSized
      <3> QED
        BY <1>0, <3>1 DEF SameSizes, Kv
    <2> QED
      BY <1>t, <2>1, <2>2, SameRemain
  <1>1. CASE SameKvs
    BY <1>1 DEF SameKvs
  <1>2. CASE sector' = sector
    BY <1>1, <1>2, <1>t, SameFlash
  <1>3. CASE PreDelete
    BY <1>3, <1>t, PreDeleteFlash, AdvanceKeeps DEF LenOf
  <1>4. CASE Delete
    BY <1>4, <1>t, DeleteFlash, AdvanceKeeps DEF LenOf
  <1>5. CASE PreDeleteDirty
    <2>1. pc = "pre_delete_dirty" /\ MakeDirty
      BY <1>5 DEF PreDeleteDirty, At
    <2> QED
      BY <1>1, <2>1, FromDirty
  <1>6. CASE DeleteDirty
    BY <1>1, <1>6, DeleteDirtyEffect, FromDirty
  <1>7. CASE Use
    BY <1>1, <1>7, UseFlash
  <1>8. CASE WriteData
    <2>1. pc = "data"
      BY <1>8 DEF WriteData, WritePart, At
    <2>2. PICK l \in Places :
             /\ l = job.to /\ Places' = Places
             /\ Kv(l)' = [Kv(l) EXCEPT !.part = "whole"]
             /\ \A m \in Places \ {l} : Kv(m)' = Kv(m)
      BY <1>8, <2>1, PartFlash
    <2>3. Kv(l).part = "header"
      BY <2>1, <2>2 DEF Shape, Tos, Writing
    <2>4. Kv(l)'.part = "whole" /\ Kv(l)'.val = Kv(l).val
      BY <1>k, <2>2 DEF KvType
    <2> QED
      <3>1. LenOf(Kv(l)') = LenOf(Kv(l))
        BY <2>3, <2>4 DEF LenOf
      <3> QED
        BY <2>2, <3>1
  <1>9. CASE Write
    <2>1. PICK l \in Places :
             /\ Places' = Places
             /\ Kv(l)' = [Kv(l) EXCEPT !.status = WRITE]
             /\ \A m \in Places \ {l} : Kv(m)' = Kv(m)
      BY <1>9, WriteFlash
    <2>2. Kv(l)'.part = Kv(l).part /\ Kv(l)'.val = Kv(l).val
      BY <1>k, <2>1 DEF KvType
    <2> QED
      BY <2>1, <2>2 DEF LenOf
  <1>10. CASE GcSector
    BY <1>1, <1>10, GcSectorFlash
  <1>11. CASE BootKv /\ ~SameKvs
    <2>1. PICK l \in Places :
             /\ Places' = Places
             /\ Kv(l)' = [Kv(l) EXCEPT !.status = ERR_HDR]
             /\ \A m \in Places \ {l} : Kv(m)' = Kv(m)
      BY <1>11, BootKvFlash
    <2>2. Kv(l)'.part = Kv(l).part /\ Kv(l)'.val = Kv(l).val
      BY <1>k, <2>1 DEF KvType
    <2> QED
      BY <2>1, <2>2 DEF LenOf
  <1> QED
    BY <1>1, <1>2, <1>3, <1>4, <1>5, <1>6, <1>7, <1>8, <1>9, <1>10, <1>11, FlashSteps

\* The first status of a KV takes the length of its header.
LEMMA RemainPreWrite ==
    ASSUME Shape, PreWrite, TypeOK', Named'
    PROVE  \E s \in Sector :
             /\ job.to = <<s>>
             /\ job'.to = <<s, Len(sector[s].kv) + 1>>
             /\ Len(sector'[s].kv) = Len(sector[s].kv) + 1
             /\ Remain(s)' = Remain(s) - KV_HDR_DATA_SIZE
             /\ \A t \in Sector \ {s} : sector'[t] = sector[t]
  <1>t. TypeOK /\ Named
    BY DEF Shape
  <1> DEFINE x == [key |-> job.key, val |-> job.val, status |-> PRE_WRITE, part |-> "status"]
  <1>1. PICK s \in Sector :
          /\ job.to = <<s>>
          /\ sector' = [sector EXCEPT ![s].kv = Append(@, x)]
          /\ job'.to = <<s, Len(sector[s].kv) + 1>>
    BY PreWriteEffect
  <1>2. job.key \in Key \cup {NoValue} /\ job.val \in Value \cup {NoValue}
    BY DEF Shape, Registers, JobType
  <1>3. x \in KvType /\ LenOf(x) = KV_HDR_DATA_SIZE
    BY <1>2 DEF KvType, PRE_WRITE, ERR_HDR, LenOf
  <1> HIDE DEF x
  <1>4. /\ Len(sector'[s].kv) = Len(sector[s].kv) + 1
        /\ \A t \in Sector \ {s} : sector'[t] = sector[t]
        /\ sector'[s].kv[Len(sector[s].kv) + 1] = x
        /\ \A m \in Places : Kv(m)' = Kv(m)
    BY <1>1, <1>3, <1>t, AppendEffect
  <1>5. \A i \in 1 .. Len(sector[s].kv) : LenOf(sector'[s].kv[i]) = LenOf(sector[s].kv[i])
    <2>1. \A i \in 1 .. Len(sector[s].kv) : <<s, i>> \in Places
      BY <1>t, PlacesSized
    <2> QED
      BY <1>4, <2>1 DEF Kv
  <1>6. Remain(s)' = Remain(s) - KV_HDR_DATA_SIZE
    BY <1>t, <1>3, <1>4, <1>5, OneMore
  <1> QED
    BY <1>1, <1>4, <1>6

\* The header of a KV takes what is left of its length.
LEMMA RemainHeader ==
    ASSUME Shape, Begun, WriteHeader, TypeOK', Named'
    PROVE  \E s \in Sector :
             /\ s = job.to[1]
             /\ Len(sector'[s].kv) = Len(sector[s].kv)
             /\ Remain(s)' = Remain(s) + KV_HDR_DATA_SIZE - KvLen[job.val]
             /\ \A t \in Sector \ {s} : /\ Len(sector'[t].kv) = Len(sector[t].kv)
                                        /\ Remain(t)' = Remain(t)
  <1>t. TypeOK /\ Named
    BY DEF Shape
  <1>k. \A l \in Places : Kv(l) \in KvType
    BY <1>t, PlaceFacts
  <1>1. pc = "header"
    BY DEF WriteHeader, WritePart, At
  <1>2. PICK l \in Places :
           /\ l = job.to /\ Places' = Places
           /\ Kv(l)' = [Kv(l) EXCEPT !.part = "header"]
           /\ \A m \in Places \ {l} : Kv(m)' = Kv(m)
    BY <1>1, PartFlash
  <1>3. Kv(l).part = "status" /\ Kv(l).val = job.val
    BY <1>1, <1>2 DEF Shape, Tos, Writing
  <1>4. Kv(l)'.part = "header" /\ Kv(l)'.val = job.val
    BY <1>k, <1>2, <1>3 DEF KvType
  <1>5. LenOf(Kv(l)) = KV_HDR_DATA_SIZE /\ LenOf(Kv(l)') = KvLen[job.val]
    BY <1>3, <1>4 DEF LenOf
  <1>6. \A t \in Sector : Len(sector'[t].kv) = Len(sector[t].kv)
    BY <1>t, <1>2, SameLen
  <1>7. PICK s \in Sector, n \in Nat \ {0} : l = <<s, n>>
    BY <1>t, PlaceFacts DEF Loc
  <1>8. Len(sector[s].kv) = n /\ Len(sector'[s].kv) = n
    BY <1>1, <1>2, <1>6, <1>7 DEF Begun
  <1>9. \A t \in Sector : \A i \in 1 .. Len(sector[t].kv) :
          <<t, i>> # l => LenOf(sector'[t].kv[i]) = LenOf(sector[t].kv[i])
    <2>1. \A t \in Sector : \A i \in 1 .. Len(sector[t].kv) : <<t, i>> \in Places
      BY <1>t, PlacesSized
    <2>2. ASSUME NEW t \in Sector, NEW i \in 1 .. Len(sector[t].kv), <<t, i>> # l
          PROVE  sector'[t].kv[i] = sector[t].kv[i]
      <3>1. Kv(<<t, i>>)' = Kv(<<t, i>>)
        BY <1>2, <2>1, <2>2
      <3> QED
        BY <3>1 DEF Kv
    <2> QED
      BY <2>2
  <1>10. Remain(s)' = Remain(s) + KV_HDR_DATA_SIZE - KvLen[job.val]
    <2>1. \A i \in 1 .. n - 1 : i \in 1 .. n /\ <<s, i>> # <<s, n>>
      OBVIOUS
    <2>2. \A i \in 1 .. n - 1 : LenOf(sector'[s].kv[i]) = LenOf(sector[s].kv[i])
      BY <1>7, <1>8, <1>9, <2>1
    <2>3. Remain(s)' = Remain(s) + LenOf(sector[s].kv[n]) - LenOf(sector'[s].kv[n])
      BY <1>t, <1>8, <2>2, LastChanged
    <2> QED
      BY <1>5, <1>7, <2>3 DEF Kv
  <1>11. ASSUME NEW t \in Sector \ {s} PROVE Remain(t)' = Remain(t)
    <2>1. \A i \in 1 .. Len(sector[t].kv) : LenOf(sector'[t].kv[i]) = LenOf(sector[t].kv[i])
      BY <1>7, <1>9
    <2> QED
      BY <1>t, <1>6, <2>1, SameRemain
  <1> QED
    BY <1>2, <1>6, <1>7, <1>10, <1>11

\* The first reading changes the room of an empty sector in use only.
LEMMA RemainRead ==
    ASSUME Shape, BootHdr, \A s \in Sector : sector[s].ok, TypeOK', Named', NEW s \in Sector
    PROVE  \/ Len(sector'[s].kv) = Len(sector[s].kv) /\ Remain(s)' = Remain(s)
           \/ sector[s].store = "USING" /\ Remain(s)' = SecSize - KV_HDR_DATA_SIZE
  <1>t. TypeOK /\ Named
    BY DEF Shape
  <1>1. sector' = [t \in Sector |-> Read(sector[t])]
    BY DEF BootHdr
  <1>2. sector[s] \in SectorType /\ sector'[s] = Read(sector[s])
    BY <1>t, <1>1, SectorTyped
  <1>3. /\ DOMAIN sector[s].kv \subseteq DOMAIN sector'[s].kv
        /\ \A i \in DOMAIN sector[s].kv :
             sector'[s].kv[i] = IF sector[s].kv[i].part = "status" THEN Burnt
               ELSE sector[s].kv[i]
    BY <1>2, ReadEffect
  <1>4. LenOf(Burnt) = KV_HDR_DATA_SIZE
    BY DEF LenOf, Burnt
  <1>5. \A i \in 1 .. Len(sector[s].kv) : LenOf(sector'[s].kv[i]) = LenOf(sector[s].kv[i])
    <2>1. DOMAIN sector[s].kv = 1 .. Len(sector[s].kv)
      BY <1>t, PlaceFacts
    <2> QED
      BY <1>3, <1>4, <2>1 DEF LenOf
  <1>6. CASE sector[s].store = "USING" /\ sector[s].kv = <<>>
    <2>1. sector'[s].kv = <<Burnt>>
      BY <1>2, <1>6 DEF Read, SectorType
    <2>2. Len(sector[s].kv) = 0 /\ Len(sector'[s].kv) = 1 /\ sector'[s].kv[1] = Burnt
          /\ Len(sector'[s].kv) = Len(sector[s].kv) + 1
      BY <1>6, <2>1
    <2>3. Remain(s)' = Remain(s) - KV_HDR_DATA_SIZE
      BY <1>t, <1>4, <1>5, <2>2, OneMore
    <2>4. Remain(s) = SecSize
      <3>1. sector[s].kv \in Seq(KvType) /\ 0 \in 0 .. Len(sector[s].kv)
        BY <1>t, <2>2, PlacesSized
      <3> QED
        BY <2>2, <3>1, RoomRecursion DEF Remain
    <2> QED
      BY <1>6, <2>3, <2>4
  <1>7. CASE ~(sector[s].store = "USING" /\ sector[s].kv = <<>>)
    <2>1. DOMAIN sector'[s].kv = DOMAIN sector[s].kv
      BY <1>2, <1>7 DEF Read, SectorType
    <2>2. sector[s].kv \in Seq(KvType) /\ sector'[s].kv \in Seq(KvType)
      BY <1>t, PlacesSized, PlacesSizedNext
    <2>3. Len(sector'[s].kv) = Len(sector[s].kv)
      BY <2>1, <2>2
    <2> QED
      BY <1>t, <1>5, <2>3, SameRemain
  <1> QED
    BY <1>6, <1>7

\* A KV is longer than its header.
LEMMA LenNotNegative ==
    ASSUME Shape, NEW v \in Value
    PROVE  KvLen[v] \in Nat /\ KvLen[v] > KV_HDR_DATA_SIZE
  BY SizeAssumption

\* A KV that is about to be written has a length.
LEMMA JobSized ==
    ASSUME Shape, \/ pc \in Creating \cup Writing \cup {"move_kv"}
                  \/ pc \in Preparing /\ job.why = "set"
    PROVE  job.val \in Value /\ KvLen[job.val] \in Nat /\ KvLen[job.val] > KV_HDR_DATA_SIZE
  <1>1. pc \in JobPcs /\ job.why # "del"
    BY DEF Shape, Jobs, JobPcs, Preparing, Creating, Writing, Deleting
  <1>2. job.val \in Value
    BY <1>1 DEF Shape, Jobs
  <1> QED
    BY <1>2, LenNotNegative

\* Every step leaves the KVs within their sector.
LEMMA NextFits ==
    ASSUME Shape, Room, Next
    PROVE  Fits'
  <1>t. TypeOK /\ Named /\ TypeOK' /\ Named'
    BY NextTyped DEF Shape
  <1>e. \A s \in Sector : /\ sector[s].kv = <<>> <=> Len(sector[s].kv) = 0
                          /\ sector'[s].kv = <<>> <=> Len(sector'[s].kv) = 0
    BY <1>t, PlacesSized, PlacesSizedNext
  <1>h. SecSize \in Nat /\ KV_HDR_DATA_SIZE \in Nat /\ Fits
    BY SizeAssumption DEF Room
  <1> SUFFICES ASSUME NEW s \in Sector, sector'[s].kv # <<>> PROVE Remain(s)' > 0
    BY DEF Fits
  <1>r. Remain(s) \in Int
    BY <1>t, RemainBound
  <1>0. CASE Len(sector'[s].kv) = Len(sector[s].kv) /\ Remain(s)' = Remain(s)
    BY <1>0, <1>e, <1>h DEF Fits
  <1>s. CASE sector'[s] = sector[s]
    BY <1>0, <1>s, RemainOfSame
  <1>1. CASE PreWrite
    <2>1. PICK t \in Sector :
             /\ job.to = <<t>>
             /\ Remain(t)' = Remain(t) - KV_HDR_DATA_SIZE
             /\ \A u \in Sector \ {t} : sector'[u] = sector[u]
      BY <1>1, <1>t, RemainPreWrite
    <2>2. CASE s = t
      <3>1. pc \in Creating
        BY <1>1 DEF PreWrite, At, Creating
      <3>2. Remain(s) > KvLen[job.val]
        BY <2>1, <2>2, <3>1 DEF Room, Reserved
      <3>3. KvLen[job.val] \in Nat /\ KvLen[job.val] > KV_HDR_DATA_SIZE
        BY <3>1, JobSized
      <3> QED
        BY <1>h, <1>r, <2>1, <2>2, <3>2, <3>3
    <2> QED
      BY <1>s, <2>1, <2>2
  <1>2. CASE WriteHeader
    <2>1. PICK t \in Sector :
             /\ t = job.to[1]
             /\ Remain(t)' = Remain(t) + KV_HDR_DATA_SIZE - KvLen[job.val]
             /\ \A u \in Sector \ {t} : Len(sector'[u].kv) = Len(sector[u].kv)
                  /\ Remain(u)' = Remain(u)
      BY <1>2, <1>t, RemainHeader DEF Room
    <2>2. CASE s = t
      <3>1. pc = "header" /\ pc \in Writing
        BY <1>2 DEF WriteHeader, WritePart, At, Writing
      <3>2. Remain(s) + KV_HDR_DATA_SIZE > KvLen[job.val]
        BY <2>1, <2>2, <3>1 DEF Room, Begun
      <3>3. KvLen[job.val] \in Nat
        BY <3>1, JobSized
      <3> QED
        BY <1>h, <1>r, <2>1, <2>2, <3>2, <3>3
    <2> QED
      BY <1>0, <2>1, <2>2
  <1>3. CASE GcErase \/ GcFormat
    <2>1. PICK t \in Sector : /\ sector'[t] = IF pc = "gc_erase" THEN Erased ELSE Fresh
                              /\ \A u \in Sector \ {t} : sector'[u] = sector[u]
      BY <1>3, FormatFlash
    <2> QED
      BY <1>s, <2>1, FreshTyped
  <1>4. CASE BootHdr
    <2>1. CASE \A t \in Sector : sector[t].ok
      <3>1. \/ Len(sector'[s].kv) = Len(sector[s].kv) /\ Remain(s)' = Remain(s)
            \/ sector[s].store = "USING" /\ Remain(s)' = SecSize - KV_HDR_DATA_SIZE
        BY <1>4, <1>t, <2>1, RemainRead
      <3>2. ASSUME sector[s].store = "USING", Remain(s)' = SecSize - KV_HDR_DATA_SIZE
            PROVE  Remain(s)' > 0
        BY <1>h, <3>2 DEF Room, LongEnough
      <3> QED
        BY <1>0, <3>1, <3>2
    <2>2. CASE ~\A t \in Sector : sector[t].ok
      <3>1. PICK t \in Sector : sector'[t] = Fresh
                   /\ \A u \in Sector \ {t} : sector'[u] = sector[u]
        BY <1>4, <2>2, BootHdrFlash
      <3> QED
        BY <1>s, <3>1, FreshTyped
    <2> QED
      BY <2>1, <2>2
  <1> QED
    BY <1>0, <1>1, <1>2, <1>3, <1>4, RemainKept

\* No sector comes into use without room for a header.
LEMMA NextLongEnough ==
    ASSUME Shape, Room, Next
    PROVE  LongEnough'
  <1>t. TypeOK /\ Named
    BY DEF Shape
  <1>l. LongEnough
    BY DEF Room
  <1>0. CASE \A s \in Sector : sector'[s].store = "USING" => sector[s].store = "USING"
    BY <1>0, <1>l DEF LongEnough
  <1>h. CASE SameHeaders
    BY <1>0, <1>h DEF SameHeaders
  <1>1. CASE sector' = sector
    BY <1>0, <1>1
  <1>2. CASE PreDelete \/ PreWrite \/ WriteHeader \/ WriteData \/ Write \/ Delete \/ BootKv
    BY <1>2, <1>h, PreDeleteFlash, PreWriteFlash, PartFlash, WriteFlash, DeleteFlash,
       BootKvFlash
  <1>3. CASE PreDeleteDirty
    <2>1. pc = "pre_delete_dirty" /\ MakeDirty
      BY <1>3 DEF PreDeleteDirty, At
    <2> QED
      BY <1>0, <2>1, FromDirty
  <1>4. CASE DeleteDirty
    BY <1>0, <1>4, DeleteDirtyEffect, FromDirty
  <1>5. CASE GcSector
    BY <1>0, <1>5, GcSectorFlash
  <1>6. CASE GcErase \/ GcFormat
    <2>1. PICK t \in Sector : /\ sector'[t] = IF pc = "gc_erase" THEN Erased ELSE Fresh
                              /\ \A u \in Sector \ {t} : sector'[u] = sector[u]
      BY <1>6, FormatFlash
    <2> QED
      BY <1>0, <2>1 DEF Fresh, Erased
  <1>7. CASE BootHdr
    <2>1. CASE \A t \in Sector : sector[t].ok
      BY <1>7, <1>h, <2>1, BootHdrFlash
    <2>2. CASE ~\A t \in Sector : sector[t].ok
      <3>1. PICK t \in Sector : sector'[t] = Fresh
                   /\ \A u \in Sector \ {t} : sector'[u] = sector[u]
        BY <1>7, <2>2, BootHdrFlash
      <3> QED
        BY <1>0, <3>1 DEF Fresh
    <2> QED
      BY <2>1, <2>2
  <1>8. CASE Use
    <2>1. pc = "use" /\ pc \in Creating
      BY <1>8 DEF Use, At, Creating
    <2>2. PICK s \in Sector : job.to = <<s>>
      BY <2>1 DEF Shape, Tos
    <2>3. Remain(s) > KvLen[job.val] /\ KvLen[job.val] > KV_HDR_DATA_SIZE
            /\ KvLen[job.val] \in Nat
      BY <2>1, <2>2, JobSized DEF Room, Reserved
    <2>4. Remain(s) \in Int /\ Remain(s) <= SecSize
      BY <1>t, RemainBound
    <2> QED
      BY <2>3, <2>4, SizeAssumption DEF LongEnough
  <1> QED
    BY <1>1, <1>2, <1>3, <1>4, <1>5, <1>6, <1>7, <1>8, FlashSteps

\* No step takes the room of the KV that is about to be written.
LEMMA NextReserved ==
    ASSUME Shape, Room, Next
    PROVE  Reserved'
  <1>t. TypeOK /\ Named
    BY DEF Shape
  <1>l. Reserved
    BY DEF Room
  <1> SUFFICES ASSUME pc' \in Creating \/ (pc' \in Preparing /\ job'.why = "set")
               PROVE  Remain(job.to[1])' > KvLen[job'.val]
    BY DEF Reserved, Creating, Preparing
  <1>a. ASSUME NEW to \in Sector, NEW v \in Value, to = alloc_kv(KvLen[v]), to # NoSector,
               sector' = sector, job'.to = <<to>>, job'.val = v
        PROVE  Remain(job.to[1])' > KvLen[job'.val]
    <2>1. Remain(to) > KvLen[v]
      BY <1>a, <1>t, AllocRoom, LenNotNegative
    <2>2. Remain(job.to[1])' = Remain(to)
      BY <1>a DEF Remain
    <2> QED
      BY <1>a, <2>1, <2>2
  <1>k. ASSUME UNCHANGED <<job>>, pc \in Creating \/ (pc \in Preparing /\ job.why = "set"),
               PreDelete \/ PreDeleteDirty \/ Use
        PROVE  Remain(job.to[1])' > KvLen[job'.val]
    <2>1. PICK s \in Sector : job.to = <<s>>
      BY <1>k DEF Shape, Tos
    <2>2. pc \in {"pre_delete", "pre_delete_dirty", "use"}
      BY <1>k DEF PreDelete, PreDeleteDirty, Use, At
    <2>3. ~PreWrite /\ ~WriteHeader /\ ~GcErase /\ ~GcFormat /\ ~BootHdr
      BY <2>2 DEF PreWrite, WriteHeader, WritePart, GcErase, GcFormat, BootHdr, At
    <2>4. Remain(s)' = Remain(s)
      BY <2>3, RemainKept
    <2>5. Remain(job.to[1])' = Remain(s)'
      BY <1>k, <2>1 DEF Remain
    <2> QED
      BY <1>k, <1>l, <2>1, <2>4, <2>5 DEF Reserved
  <1>1. ASSUME NEW p \in {"new_kv", "new_kv_again"}, NewKv(p)
        PROVE  Remain(job.to[1])' > KvLen[job'.val]
    <2>1. pc' # "gc" /\ pc' # "idle"
      BY DEF Creating, Preparing
    <2>2. PICK to \in Sector : /\ to = alloc_kv(KvLen[op.val]) /\ to # NoSector
                               /\ job'.val = op.val /\ job'.to = <<to>>
      BY <1>1, <2>1, NewKvEffect
    <2>3. op.val \in Value /\ sector' = sector
      BY <1>1, NewKvEffect
    <2> QED
      BY <1>a, <2>2, <2>3
  <1>2. CASE MoveKv
    <2>1. pc' # "gc_kv" /\ pc' # "boot_end"
      BY DEF Creating, Preparing
    <2>2. PICK to \in Sector : /\ to = alloc_kv(KvLen[job.val]) /\ to # NoSector
                               /\ job'.val = job.val /\ job'.to = <<to>>
      BY <1>2, <2>1, MoveKvEffect
    <2>3. job.val \in Value /\ sector' = sector
      BY <1>2, MoveKvEffect
    <2> QED
      BY <1>a, <2>2, <2>3
  <1>3. CASE PreDelete \/ PreDeleteDirty \/ Use
    <2>1. job' = job
      BY <1>3 DEF PreDelete, PreDeleteDirty, Use
    <2>2. pc \in {"pre_delete", "pre_delete_dirty", "use"}
      BY <1>3 DEF PreDelete, PreDeleteDirty, Use, At
    <2>3. CASE pc = "use"
      BY <1>3, <1>k, <2>1, <2>3 DEF Creating
    <2>4. CASE pc \in Preparing
      <3>1. pc' \in {"pre_delete_dirty", Prepared}
        BY <1>3, <2>4 DEF PreDelete, PreDeleteDirty, Use, At, Preparing
      <3>2. job.why = "set"
        <4>1. job.why \in {"set", "gc"} /\ (Prepared = "move_kv" <=> job.why = "gc")
          BY <2>4, WhereNext DEF Shape, Jobs
        <4> QED
          BY <2>1, <3>1, <4>1 DEF Creating, Preparing
      <3> QED
        BY <1>3, <1>k, <2>1, <2>4, <3>2
    <2> QED
      BY <2>2, <2>3, <2>4 DEF Preparing
  <1>4. pc' \notin {"idle", "new_kv", "gc", "boot_kv", "boot_end", "boot_hdr", "boot_gc",
     "gc_sector",
                    "gc_kv", "gc_erase", "gc_format", "move_kv", "header", "data", "write",
                       "delete",
                    "delete_dirty", "done", "new_kv_again"}
    BY DEF Creating, Preparing
  <1>5. ~GcKv
    BY <1>4, GcKvEffect DEF Creating, Preparing
  <1>6. ~Delete /\ ~DeleteDirty /\ ~GcNotNeeded /\ ~GcFinished
    BY <1>4, DeleteEffect, DeleteDirtyEffect, GcEndsEffect
  <1>7. ~PreWrite /\ ~WriteHeader /\ ~WriteData /\ ~Write /\ ~Done /\ ~Gc /\ ~GcSector
          /\ ~GcErase
        /\ ~GcFormat /\ ~BootGc /\ ~BootEnd /\ ~PowerCut /\ ~Call
    BY <1>4 DEF PreWrite, WriteHeader, WriteData, WritePart, Write, Done, Gc, GcSector,
       GcErase, GcFormat,
                BootGc, BootEnd, PowerCut, Call, fdb_kv_set, fdb_kv_del
  <1>8. ~BootHdr /\ ~BootKv
    BY <1>4, BootHdrFlash, BootKvEffect
  <1> QED
    BY <1>1, <1>2, <1>3, <1>5, <1>6, <1>7, <1>8 DEF Next, Step

\* The KV that was begun stays the last of its sector.
LEMMA NextBegun ==
    ASSUME Shape, Room, Next
    PROVE  Begun'
  <1>t. TypeOK /\ Named /\ TypeOK' /\ Named'
    BY NextTyped DEF Shape
  <1> SUFFICES ASSUME pc' = "header"
               PROVE  /\ job'.to[2] = Len(sector'[job'.to[1]].kv)
                      /\ Remain(job.to[1])' + KV_HDR_DATA_SIZE > KvLen[job'.val]
    BY DEF Begun
  <1>1. PreWrite
    <2>1. ~GcKv /\ ~BootKv /\ ~BootHdr /\ ~MoveKv
      BY GcKvEffect, BootKvEffect, BootHdrFlash, MoveKvEffect DEF Create
    <2>2. ~Delete /\ ~DeleteDirty /\ ~GcNotNeeded /\ ~GcFinished
      BY DeleteEffect, DeleteDirtyEffect, GcEndsEffect
    <2>3. /\ ~WriteHeader /\ ~WriteData /\ ~Write /\ ~Done /\ ~Gc /\ ~GcSector /\ ~GcErase
          /\ ~GcFormat /\ ~BootGc /\ ~BootEnd /\ ~PowerCut /\ ~Call /\ ~Use
      BY DEF WriteHeader, WriteData, WritePart, Write, Done, Gc, GcSector, GcErase, GcFormat,
             BootGc, BootEnd, PowerCut, Call, fdb_kv_set, fdb_kv_del, Use
    <2>4. ~NewKv("new_kv") /\ ~NewKv("new_kv_again") /\ ~PreDelete /\ ~PreDeleteDirty
      BY DEF NewKv, PreDelete, PreDeleteDirty, Prepared, Create
    <2> QED
      BY <2>1, <2>2, <2>3, <2>4 DEF Next, Step
  <1>2. PICK s \in Sector :
          /\ job.to = <<s>>
          /\ job'.to = <<s, Len(sector[s].kv) + 1>>
          /\ Len(sector'[s].kv) = Len(sector[s].kv) + 1
          /\ Remain(s)' = Remain(s) - KV_HDR_DATA_SIZE
    BY <1>1, <1>t, RemainPreWrite
  <1>3. pc \in Creating /\ job'.val = job.val
    BY <1>1, PreWriteEffect DEF Creating
  <1>4. Remain(s) > KvLen[job.val] /\ Remain(s) \in Int /\ KvLen[job.val] \in Nat
    BY <1>t, <1>2, <1>3, RemainBound, JobSized DEF Room, Reserved
  <1>5. Remain(job.to[1])' = Remain(s)'
    BY <1>2 DEF Remain
  <1> QED
    BY <1>2, <1>3, <1>4, <1>5, SizeAssumption

\* The empty flash has the room.
LEMMA InitRoom == Init => Room
  <1> SUFFICES ASSUME Init PROVE Room
    OBVIOUS
  <1>1. \A s \in Sector : sector[s].kv = <<>> /\ sector[s].store = "UNUSED"
    BY DEF Init, Erased
  <1>2. pc = "boot_hdr"
    BY DEF Init
  <1> QED
    BY <1>1, <1>2 DEF Room, Fits, LongEnough, Reserved, Begun, Creating, Preparing

\* Every step keeps the promised room.
LEMMA NextRoom == Structure /\ Room /\ [Next]_vars => Room'
  <1> SUFFICES ASSUME Structure, Room, [Next]_vars PROVE Room'
    OBVIOUS
  <1>1. CASE Next
    BY <1>1, NextFits, NextLongEnough, NextReserved, NextBegun DEF Structure, Room
  <1>2. CASE UNCHANGED vars
    <2>1. UNCHANGED <<sector, pc, job>>
      BY <1>2 DEF vars
    <2>2. \A s : Remain(s)' = Remain(s)
      BY <2>1 DEF Remain
    <2> QED
      BY <2>1, <2>2 DEF Room, Fits, LongEnough, Reserved, Begun
  <1> QED
    BY <1>1, <1>2

\* The room that alloc_kv found for a KV is there until the KV is written.
THEOREM RoomHolds == Spec => [](Structure /\ Room)
  BY InitStructure, InitRoom, NextStructure, NextRoom, PTL DEF Spec

\* No KV is ever written beyond the end of its sector, whatever the sizes of
\* sectors and values: alloc_kv_cb and create_kv_blob agree on the length.
THEOREM FitsHolds == Spec => []Fits
  <1>1. Room => Fits
    BY DEF Room
  <1> QED
    BY <1>1, RoomHolds, PTL
===============================================================================
