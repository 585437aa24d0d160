---------------------------------- MODULE KVDB ----------------------------------
(***************************************************************************)
(* The key-value store of FlashDB (flashdb/src/fdb_kvdb.c): a log of KVs   *)
(* in flash sectors, with a status table in every KV and every sector, a   *)
(* garbage collection that moves KVs to an empty sector, and a recovery    *)
(* when the database is opened.  One step is one flash operation with the  *)
(* reading that leads to it, and the power may fail between any two.       *)
(*                                                                         *)
(* A sector's content is the sequence of its KVs, an address a sector and  *)
(* a place in this sequence.  Name and value are written in one step, the  *)
(* CRC is perfect.  The sector cache agrees with the flash and is left     *)
(* out, and so are the eviction of the KV cache, combined sectors, default *)
(* KVs, and the status FULL: alloc_kv asks for more room than the test of  *)
(* update_sec_status leaves, so that no sector ever gets it.               *)
(***************************************************************************)
EXTENDS Naturals, Sequences, FiniteSets

CONSTANTS
    Key, Value,
    ValueOf,            \* bound: the values a key is set to
    SECTOR_NUM,
    SecSize,            \* room in a sector behind its header
    KvLen,              \* length of a KV by its value, header included
    KV_HDR_DATA_SIZE,
    FDB_SEC_REMAIN_THRESHOLD,
    MaxCuts             \* bound: power cuts

NoValue == "none"

ASSUME SizeAssumption ==
    /\ ValueOf \in [Key -> SUBSET Value]
    /\ SECTOR_NUM \in Nat /\ SECTOR_NUM > 1
    /\ SecSize \in Nat /\ KV_HDR_DATA_SIZE \in Nat /\ FDB_SEC_REMAIN_THRESHOLD \in Nat
    /\ KvLen \in [Value -> Nat]
    /\ \A v \in Value : KvLen[v] > KV_HDR_DATA_SIZE

ASSUME NameAssumption == NoValue \notin Key \cup Value

FDB_GC_EMPTY_SEC_THRESHOLD == 1

\* enum fdb_kv_status
PRE_WRITE  == 1
WRITE      == 2
PRE_DELETE == 3
DELETED    == 4
ERR_HDR    == 5

Sector == 0 .. SECTOR_NUM - 1
NoSector == SECTOR_NUM
NoLoc == <<>>

VARIABLES
    sector,     \* the flash: per sector header check, store and dirty status, KVs
    oldest,     \* oldest_addr
    gc_request,
    in_recovery_check,
    last_is_complete_del,
    kv_cache,   \* kv_cache_table: the address of a key, or NoLoc
    pc,         \* the flash operation that is next, "idle" between calls
    op,         \* key and value of the call of fdb_kv_set
    job,        \* the KV that is written, deleted or moved
    gc,         \* gc_collect_by_free_size and do_gc
    it,         \* the position of the iterators of _fdb_kv_load
    cuts,       \* history: power cuts
    sound       \* history: FALSE once recovery or collection left a KV behind

ram  == <<oldest, gc_request, in_recovery_check, last_is_complete_del, kv_cache>>
hist == <<cuts, sound>>
vars == <<sector, ram, pc, op, job, gc, it, hist>>

NoOp  == [key |-> NoValue, val |-> NoValue]
NoJob == [key |-> NoValue, val |-> NoValue, from |-> NoLoc, to |-> NoLoc,
          was |-> WRITE, why |-> "none"]
NoGc  == [ret |-> "idle", free |-> 0, left |-> 0, at |-> 0, i |-> 0, last |-> 0]
NoIt  == <<0, 0>>

Fresh  == [ok |-> TRUE, store |-> "EMPTY", dirty |-> "FALSE", kv |-> <<>>]
Erased == [ok |-> FALSE, store |-> "UNUSED", dirty |-> "UNUSED", kv |-> <<>>]

\* A place where nothing but a status word was ever written.
Burnt == [key |-> NoValue, val |-> NoValue, status |-> ERR_HDR, part |-> "status"]

-------------------------------------------------------------------------------
(* Reading the flash.                                                      *)

Kv(l) == sector[l[1]].kv[l[2]]
Places == UNION {{<<s, i>> : i \in DOMAIN sector[s].kv} : s \in Sector}

\* get_next_sector_addr, and the order in which the iterators visit sectors;
\* the first is a bug for mutation runs.
get_next_sector_addr_NoWrap(s) == s + 1
get_next_sector_addr(s) == (s + 1) % SECTOR_NUM
Turn(s) == (s + SECTOR_NUM - oldest) % SECTOR_NUM

FirstSector(S) ==
    IF S = {} THEN NoSector ELSE CHOOSE s \in S : \A t \in S : Turn(s) <= Turn(t)

\* kv_iterator
Before(l, m) == Turn(l[1]) < Turn(m[1]) \/ (l[1] = m[1] /\ l[2] < m[2])
FirstPlace(S) == IF S = {} THEN NoLoc ELSE CHOOSE l \in S : \A m \in S \ {l} : Before(l, m)
LastPlace(S)  == CHOOSE l \in S : \A m \in S \ {l} : Before(m, l)

With(k, st) == {l \in Places : Kv(l).key = k /\ Kv(l).part = "whole" /\ Kv(l).status = st}

find_kv_no_cache(k) == FirstPlace(With(k, WRITE))

\* The cached address is believed when the name is there, whatever the status.
InCache(k) == kv_cache[k] \in Places /\ Kv(kv_cache[k]).key = k
find_kv(k) == IF InCache(k) THEN kv_cache[k] ELSE find_kv_no_cache(k)

\* read_kv marks a KV that has no length.  read_sector_info and kv_iterator
\* always read a first KV from a sector in use, even when there is none.
Read(c) ==
    [c EXCEPT !.kv = IF c.store = "USING" /\ @ = <<>> THEN <<Burnt>>
                     ELSE [i \in DOMAIN @ |-> IF @[i].part = "status" THEN Burnt ELSE @[i]]]

LenOf(x) == IF x.part = "status" THEN KV_HDR_DATA_SIZE ELSE KvLen[x.val]

\* What the first KVs of a sector leave of its room.
RoomAfter(kv) ==
    LET room[n \in 0 .. Len(kv)] == IF n = 0 THEN SecSize ELSE room[n - 1] - LenOf(kv[n])
    IN  room
Remain(s) == RoomAfter(sector[s].kv)[Len(sector[s].kv)]

Using == {s \in Sector : sector[s].ok /\ sector[s].store = "USING"}
Empty == {s \in Sector : sector[s].ok /\ sector[s].store = "EMPTY"}

\* A bug for mutation runs: room for any KV is taken for room for this one.
HasRoom_AnyLength(s, len) ==
    /\ Remain(s) > FDB_SEC_REMAIN_THRESHOLD
    /\ \/ sector[s].dirty = "FALSE"
       \/ sector[s].dirty = "TRUE" /\ ~gc_request

\* alloc_kv_cb
HasRoom(s, len) ==
    /\ Remain(s) > len + FDB_SEC_REMAIN_THRESHOLD
    /\ \/ sector[s].dirty = "FALSE"
       \/ sector[s].dirty = "TRUE" /\ ~gc_request

\* A bug for mutation runs: the last empty sector is not kept for the collection.
alloc_kv_Greedy(len) ==
    LET inUse == {s \in Using : HasRoom(s, len)} IN
    IF inUse # {} THEN FirstSector(inUse) ELSE FirstSector({s \in Empty : HasRoom(s, len)})

alloc_kv(len) ==
    LET inUse == {s \in Using : HasRoom(s, len)} IN
    IF inUse # {} THEN FirstSector(inUse)
    ELSE IF Cardinality(Empty) > FDB_GC_EMPTY_SEC_THRESHOLD \/ gc_request
         THEN FirstSector({s \in Empty : HasRoom(s, len)})
         ELSE NoSector

\* gc_request after an alloc_kv that failed
GcRequestAfter(len) == gc_request \/ Cardinality(Empty) = FDB_GC_EMPTY_SEC_THRESHOLD

-------------------------------------------------------------------------------
Init ==
    /\ sector = [s \in Sector |-> Erased]
    /\ oldest = 0
    /\ gc_request = FALSE
    /\ in_recovery_check = TRUE
    /\ last_is_complete_del = FALSE
    /\ kv_cache = [k \in Key |-> NoLoc]
    /\ pc = "boot_hdr"
    /\ op = NoOp /\ job = NoJob /\ gc = NoGc /\ it = NoIt
    /\ cuts = 0 /\ sound = TRUE

At(p) == pc = p

\* Status words are programmed from first to last and read from last to first.
Mark(l, st) ==
    sector' = [sector EXCEPT ![l[1]].kv[l[2]].status = IF @ > st THEN @ ELSE st]

\* Where set_kv, do_gc and the recovery go on after the old KV is deleted.
Deleted == CASE job.why = "set"      -> "done"
             [] job.why = "del"      -> "idle"
             [] job.why = "gc"       -> "gc_kv"
             [] job.why = "recovery" -> "boot_kv"

\* update_sec_status writes only when the sector was empty.
Create(s) == IF sector[s].store = "EMPTY" THEN "use" ELSE "pre_write"

\* Where the preparation of set_kv and move_kv goes on.
Prepared == IF job.why = "set" THEN Create(job.to[1]) ELSE "move_kv"

-------------------------------------------------------------------------------
(* fdb_kv_set and fdb_kv_del.                                              *)

fdb_kv_set(k, v) ==
    /\ At("idle")
    /\ op' = [key |-> k, val |-> v]
    /\ pc' = "new_kv"
    /\ UNCHANGED <<sector, ram, job, gc, it, hist>>

\* new_kv, before and after it has collected.
NewKv(p) ==
    /\ At(p)
    /\ LET len == KvLen[op.val]
           to  == alloc_kv(len)
           old == find_kv(op.key)
       IN  \/ /\ to # NoSector
              /\ job' = [NoJob EXCEPT !.key = op.key, !.val = op.val, !.from = old,
                                      !.to = <<to>>, !.why = "set"]
              /\ kv_cache' = [kv_cache EXCEPT ![op.key] = IF old = NoLoc THEN @ ELSE old]
              /\ pc' = IF old = NoLoc THEN Create(to) ELSE "pre_delete"
              /\ op' = NoOp
              /\ UNCHANGED <<gc_request, gc>>
           \/ /\ to = NoSector /\ p = "new_kv" /\ GcRequestAfter(len)
              /\ gc_request' = TRUE
              /\ pc' = "gc"
              /\ gc' = [NoGc EXCEPT !.ret = "new_kv_again", !.free = len]
              /\ UNCHANGED <<op, job, kv_cache>>
           \/ /\ to = NoSector /\ (p = "new_kv" => ~GcRequestAfter(len))
              /\ gc_request' = FALSE
              /\ op' = NoOp
              /\ pc' = "idle"
              /\ UNCHANGED <<gc, job, kv_cache>>
    /\ UNCHANGED <<sector, oldest, in_recovery_check, last_is_complete_del, it, hist>>

fdb_kv_del(k) ==
    /\ At("idle")
    /\ find_kv(k) # NoLoc
    /\ job' = [NoJob EXCEPT !.key = k, !.from = find_kv(k), !.why = "del"]
    /\ kv_cache' = [kv_cache EXCEPT ![k] = find_kv(k)]
    /\ pc' = "delete"
    /\ UNCHANGED <<sector, oldest, gc_request, in_recovery_check, last_is_complete_del,
                   op, gc, it, hist>>

\* del_kv, not complete
PreDelete ==
    /\ At("pre_delete")
    /\ Mark(job.from, PRE_DELETE)
    /\ last_is_complete_del' = TRUE
    /\ pc' = IF sector[job.from[1]].dirty = "FALSE" THEN "pre_delete_dirty" ELSE Prepared
    /\ UNCHANGED <<oldest, gc_request, in_recovery_check, kv_cache, op, job, gc, it, hist>>

\* A bug for mutation runs: a deleted KV stays in the cache.
Delete_KeepsCache ==
    /\ At("delete")
    /\ Mark(job.from, DELETED)
    /\ last_is_complete_del' = FALSE
    /\ IF sector[job.from[1]].dirty = "FALSE"
         THEN pc' = "delete_dirty" /\ UNCHANGED job
         ELSE pc' = Deleted /\ job' = IF job.why = "set" THEN job ELSE NoJob
    /\ UNCHANGED <<oldest, gc_request, in_recovery_check, kv_cache, op, gc, it, hist>>

\* del_kv, complete
Delete ==
    /\ At("delete")
    /\ Mark(job.from, DELETED)
    /\ kv_cache' = [kv_cache EXCEPT ![job.key] = IF last_is_complete_del THEN @ ELSE NoLoc]
    /\ last_is_complete_del' = FALSE
    /\ IF sector[job.from[1]].dirty = "FALSE"
         THEN pc' = "delete_dirty" /\ UNCHANGED job
         ELSE pc' = Deleted /\ job' = IF job.why = "set" THEN job ELSE NoJob
    /\ UNCHANGED <<oldest, gc_request, in_recovery_check, op, gc, it, hist>>

MakeDirty == sector' = [sector EXCEPT ![job.from[1]].dirty = "TRUE"]

PreDeleteDirty ==
    /\ At("pre_delete_dirty")
    /\ MakeDirty
    /\ pc' = Prepared
    /\ UNCHANGED <<ram, op, job, gc, it, hist>>

DeleteDirty ==
    /\ At("delete_dirty")
    /\ MakeDirty
    /\ pc' = Deleted
    /\ job' = IF job.why = "set" THEN job ELSE NoJob
    /\ UNCHANGED <<ram, op, gc, it, hist>>

\* update_sec_status
Use ==
    /\ At("use")
    /\ sector' = [sector EXCEPT ![job.to[1]].store = "USING"]
    /\ pc' = "pre_write"
    /\ UNCHANGED <<ram, op, job, gc, it, hist>>

\* write_kv_hdr
PreWrite ==
    /\ At("pre_write")
    /\ sector' = [sector EXCEPT ![job.to[1]].kv =
                    Append(@, [key |-> job.key, val |-> job.val,
                               status |-> PRE_WRITE, part |-> "status"])]
    /\ job' = [job EXCEPT !.to = <<@[1], Len(sector[@[1]].kv) + 1>>]
    /\ pc' = "header"
    /\ UNCHANGED <<ram, op, gc, it, hist>>

WritePart(at, part, next) ==
    /\ At(at)
    /\ sector' = [sector EXCEPT ![job.to[1]].kv[job.to[2]].part = part]
    /\ pc' = next
    /\ UNCHANGED <<ram, op, job, gc, it, hist>>

WriteHeader == WritePart("header", "header", "data")
WriteData   == WritePart("data", "whole", "write")

Write ==
    /\ At("write")
    /\ Mark(job.to, WRITE)
    /\ kv_cache' = [kv_cache EXCEPT ![job.key] = job.to]
    /\ pc' = IF job.from = NoLoc THEN "done" ELSE "delete"
    /\ UNCHANGED <<oldest, gc_request, in_recovery_check, last_is_complete_del,
                   op, job, gc, it, hist>>

\* set_kv: "process the GC after set KV"
Done ==
    /\ At("done")
    /\ job' = NoJob
    /\ IF gc_request
         THEN pc' = "gc" /\ gc' = [NoGc EXCEPT !.free = KvLen[job.val]]
         ELSE pc' = "idle" /\ UNCHANGED gc
    /\ UNCHANGED <<sector, ram, op, it, hist>>

-------------------------------------------------------------------------------
(* Garbage collection.                                                     *)

move(l, why) ==
    /\ job' = [NoJob EXCEPT !.key = Kv(l).key, !.val = Kv(l).val, !.from = l,
                            !.was = Kv(l).status, !.why = why]
    /\ pc' = IF Kv(l).status = WRITE THEN "pre_delete" ELSE "move_kv"

\* A bug for mutation runs: an older KV is moved though its successor exists.
HasSuccessor_Never(k) == FALSE

\* move_kv: a KV found prepared for deletion when the database is opened is
\* only deleted if its successor was written.
HasSuccessor(k) == in_recovery_check /\ job.was = PRE_DELETE /\ find_kv_no_cache(k) # NoLoc

MoveKv ==
    /\ At("move_kv")
    /\ LET to == alloc_kv(KvLen[job.val]) IN
         \/ /\ to # NoSector
            /\ pc' = IF HasSuccessor(job.key) THEN "delete" ELSE Create(to)
            /\ job' = [job EXCEPT !.to = <<to>>]
            /\ UNCHANGED <<gc_request, sound>>
         \/ /\ to = NoSector
            /\ gc_request' = GcRequestAfter(KvLen[job.val])
            /\ pc' = IF job.why = "gc" THEN "gc_kv" ELSE "boot_end"
            /\ job' = NoJob
            /\ sound' = (sound /\ job.why = "recovery" /\ gc_request')
    /\ UNCHANGED <<sector, oldest, in_recovery_check, last_is_complete_del, kv_cache,
                   op, gc, it, cuts>>

GcEnds ==
    /\ gc_request' = FALSE
    /\ pc' = gc.ret
    /\ gc' = NoGc
    /\ UNCHANGED <<sector, oldest, in_recovery_check, last_is_complete_del, kv_cache,
                   op, job, it, hist>>

\* gc_collect_by_free_size
Gc ==
    /\ At("gc") /\ Cardinality(Empty) <= FDB_GC_EMPTY_SEC_THRESHOLD
    /\ gc' = [gc EXCEPT !.left = SECTOR_NUM, !.at = oldest,
                        !.last = IF Empty = {} THEN 0 ELSE FirstSector(Empty)]
    /\ pc' = "gc_sector"
    /\ UNCHANGED <<sector, ram, op, job, it, hist>>

GcNotNeeded == At("gc") /\ Cardinality(Empty) > FDB_GC_EMPTY_SEC_THRESHOLD /\ GcEnds

\* do_gc: how many sectors on the next dirty one lies.
DirtyIn == {n \in 0 .. gc.left - 1 : sector[(gc.at + n) % SECTOR_NUM].dirty \in {"TRUE", "GC"}}

GcSector ==
    /\ At("gc_sector") /\ DirtyIn # {}
    /\ LET n == CHOOSE n \in DirtyIn : \A m \in DirtyIn : n <= m
           s == (gc.at + n) % SECTOR_NUM
       IN  /\ sector' = [sector EXCEPT ![s].dirty = "GC"]
           /\ gc' = [gc EXCEPT !.at = s, !.left = @ - n, !.i = 1]
    /\ pc' = "gc_kv"
    /\ UNCHANGED <<ram, op, job, it, hist>>

GcFinished == At("gc_sector") /\ DirtyIn = {} /\ GcEnds

\* A bug for mutation runs: a KV prepared for deletion is taken for garbage.
Movable_WriteOnly(x) == x.part = "whole" /\ x.status = WRITE

Movable(x) == x.part = "whole" /\ x.status \in {WRITE, PRE_DELETE}

\* The next KV to move, or the sector is formatted.
GcKv ==
    /\ At("gc_kv")
    /\ LET rest == {i \in gc.i .. Len(sector[gc.at].kv) : Movable(sector[gc.at].kv[i])} IN
         IF rest = {} THEN pc' = "gc_erase" /\ UNCHANGED <<job, gc>>
         ELSE LET i == CHOOSE i \in rest : \A j \in rest : i <= j IN
                /\ gc' = [gc EXCEPT !.i = i + 1]
                /\ move(<<gc.at, i>>, "gc")
    /\ UNCHANGED <<sector, ram, op, it, hist>>

\* format_sector
GcErase ==
    /\ At("gc_erase")
    /\ sector' = [sector EXCEPT ![gc.at] = Erased]
    /\ pc' = "gc_format"
    /\ UNCHANGED <<ram, op, job, gc, it, hist>>

GcFormat ==
    /\ At("gc_format")
    /\ sector' = [sector EXCEPT ![gc.at] = Fresh]
    /\ oldest' = get_next_sector_addr(gc.at)
    /\ LET remain == IF gc.last = gc.at THEN SecSize ELSE Remain(gc.last) IN
         gc' = [gc EXCEPT !.at = get_next_sector_addr(@), !.last = gc.at, !.i = 0,
                          !.left = IF remain > gc.free THEN 0 ELSE @ - 1]
    /\ pc' = "gc_sector"
    /\ UNCHANGED <<gc_request, in_recovery_check, last_is_complete_del, kv_cache,
                   op, job, it, hist>>

-------------------------------------------------------------------------------
(* fdb_kvdb_init and _fdb_kv_load.                                         *)

\* The power fails: what is in RAM is lost.  oldest_addr is searched before
\* the sector cache is cleared: it is full of zeros then, a hit for sector 0,
\* so that the search never leaves sector 0.
PowerCut ==
    /\ cuts < MaxCuts
    /\ cuts' = cuts + 1
    /\ oldest' = 0
    /\ gc_request' = FALSE
    /\ in_recovery_check' = TRUE
    /\ last_is_complete_del' = FALSE
    /\ kv_cache' = [k \in Key |-> NoLoc]
    /\ pc' = "boot_hdr"
    /\ op' = NoOp /\ job' = NoJob /\ gc' = NoGc /\ it' = NoIt
    /\ UNCHANGED <<sector, sound>>

\* check_sec_hdr_cb.  When every header was wrong fdb_kv_set_default formats
\* the sectors once more, which changes nothing.  The marks that the reads of
\* the recovery leave are all made here: until it made them no reader sees a
\* difference.
BootHdr ==
    /\ At("boot_hdr")
    /\ LET bad == {s \in Sector : ~sector[s].ok} IN
         IF bad = {}
         THEN /\ sector' = [s \in Sector |-> Read(sector[s])]
              /\ pc' = "boot_gc"
         ELSE /\ sector' = [sector EXCEPT ![FirstSector(bad)] = Fresh]
              /\ UNCHANGED pc
    /\ UNCHANGED <<ram, op, job, gc, it, hist>>

\* check_and_recovery_gc_cb; the iterator counts sectors from the first one.
BootGc ==
    /\ At("boot_gc")
    /\ LET rest == {s \in Sector : s >= it[1] /\ sector[s].dirty = "GC"} IN
         IF rest = {}
         THEN /\ pc' = "boot_kv" /\ it' = NoIt
              /\ UNCHANGED <<gc_request, gc>>
         ELSE /\ it' = <<1 + CHOOSE s \in rest : \A t \in rest : s <= t, 0>>
              /\ gc_request' = TRUE
              /\ pc' = "gc"
              /\ gc' = [NoGc EXCEPT !.ret = "boot_gc", !.free = SECTOR_NUM * SecSize]
    /\ UNCHANGED <<sector, oldest, in_recovery_check, last_is_complete_del, kv_cache,
                   op, job, hist>>

\* check_and_recovery_kv_cb: the iteration passes over the KVs in use, which
\* it caches, and ends at a KV that was not finished.
Passed(l) == Turn(l[1]) < it[1] \/ (Turn(l[1]) = it[1] /\ l[2] <= it[2])
BootKv ==
    /\ At("boot_kv")
    /\ LET ahead == {l \in Places : ~Passed(l)}
           here  == FirstPlace({l \in ahead : \/ Kv(l).part # "status" /\ Kv(l).status = PRE_WRITE
                                              \/ Kv(l).part = "whole" /\ Kv(l).status = PRE_DELETE})
           seen(k) == {l \in ahead \cap With(k, WRITE) : here = NoLoc \/ Before(l, here)}
       IN  /\ kv_cache' = [k \in Key |-> IF seen(k) = {} THEN kv_cache[k] ELSE LastPlace(seen(k))]
           /\ \/ /\ here = NoLoc
                 /\ pc' = "boot_end"
                 /\ UNCHANGED <<sector, job, it, sound>>
              \/ /\ here # NoLoc /\ Kv(here).status = PRE_WRITE
                 /\ Mark(here, ERR_HDR)
                 /\ pc' = "boot_end"
                 /\ sound' = (sound /\ \A k \in Key : With(k, PRE_DELETE) = {})
                 /\ UNCHANGED <<job, it>>
              \/ /\ here # NoLoc /\ Kv(here).status = PRE_DELETE
                 /\ move(here, "recovery")
                 /\ it' = <<Turn(here[1]), here[2]>>
                 /\ UNCHANGED <<sector, sound>>
    /\ UNCHANGED <<oldest, gc_request, in_recovery_check, last_is_complete_del, op, gc, cuts>>

\* "__retry"
BootEnd ==
    /\ At("boot_end")
    /\ it' = NoIt
    /\ IF gc_request
         THEN /\ pc' = "gc"
              /\ gc' = [NoGc EXCEPT !.ret = "boot_kv", !.free = SECTOR_NUM * SecSize]
              /\ UNCHANGED in_recovery_check
         ELSE pc' = "idle" /\ in_recovery_check' = FALSE /\ UNCHANGED gc
    /\ UNCHANGED <<sector, oldest, gc_request, last_is_complete_del, kv_cache, op, job, hist>>

-------------------------------------------------------------------------------
Step ==
    \/ NewKv("new_kv") \/ NewKv("new_kv_again")
    \/ PreDelete \/ PreDeleteDirty \/ Use \/ PreWrite
    \/ WriteHeader \/ WriteData \/ Write \/ Delete \/ DeleteDirty \/ Done
    \/ MoveKv \/ Gc \/ GcNotNeeded \/ GcSector \/ GcFinished \/ GcKv \/ GcErase \/ GcFormat
    \/ BootHdr \/ BootGc \/ BootKv \/ BootEnd

Call ==
    \/ \E k \in Key : \E v \in ValueOf[k] : fdb_kv_set(k, v)
    \/ \E k \in Key : fdb_kv_del(k)

Next == Step \/ Call \/ PowerCut

Spec == Init /\ [][Next]_vars
FairSpec == Spec /\ WF_vars(Step)
-------------------------------------------------------------------------------
\* What the flash holds for a key: the value written last, or the one before
\* while the new one is being written.
Stored(k) ==
    LET new == With(k, WRITE)
        old == With(k, PRE_DELETE)
    IN  IF new # {} THEN Kv(FirstPlace(new)).val
        ELSE IF old # {} THEN Kv(FirstPlace(old)).val
        ELSE NoValue

\* fdb_kv_get
Get(k) == IF find_kv(k) = NoLoc THEN NoValue ELSE Kv(find_kv(k)).val

\* The call that has not taken effect yet: a deletion when the KV is marked, a
\* new value when its KV is complete.
Pending ==
    IF op # NoOp THEN op
    ELSE IF \/ job.why = "set" /\ pc \in {"pre_delete", "pre_delete_dirty", "use", "pre_write",
                                          "header", "data", "write"}
            \/ job.why = "del" /\ pc = "delete"
         THEN [key |-> job.key, val |-> job.val]
    ELSE NoOp

TypeOK ==
    /\ sector \in [Sector -> [ok: BOOLEAN, store: {"UNUSED", "EMPTY", "USING"},
                              dirty: {"UNUSED", "FALSE", "TRUE", "GC"},
                              kv: Seq([key: Key \cup {NoValue}, val: Value \cup {NoValue},
                                       status: PRE_WRITE .. ERR_HDR,
                                       part: {"status", "header", "whole"}])]]
    /\ oldest \in Sector
    /\ kv_cache \in [Key -> (Sector \X Nat) \cup {NoLoc}]

\* Between calls a value that is in flash is found, through the cache or not.
ReadsBack == pc = "idle" /\ sound => \A k \in Key : Get(k) = Stored(k)

\* A key has one KV in use, but for the moment in which its successor is in
\* use and it is only prepared for deletion.
OneCopy == sound => \A k \in Key : Cardinality(With(k, WRITE)) <= 1

\* "there is at least one empty sector for GC"
SpareSector == pc = "idle" => Empty # {}

\* No KV ends behind the end of its sector.
Fits == \A s \in Sector : sector[s].kv # <<>> => Remain(s) > 0

\* The store seen from outside: one atomic value per key.
Store == INSTANCE KVStore WITH kv <- [k \in Key |-> Stored(k)], ask <- Pending
StoreIsAtomic == Store!Spec

\* A start ends: fdb_kvdb_init returns.
BootEnds == in_recovery_check ~> pc = "idle"

\* "check all KV for recovery" (fdb_kvdb.c:1675) and "there is at least one empty
\* sector for GC" (:1802): the store is atomic without the excuse of KVStore.  No
\* collection formats a sector that holds the value of a key, and after a start
\* fdb_kv_get finds every value that the flash held.
Seen(k) == IF pc = "idle" THEN Get(k) ELSE Stored(k)
Strict == INSTANCE KVStore WITH
            kv <- [k \in Key |-> Seen(k)], ask <- Pending, sound <- TRUE
NothingLost == Strict!Spec
=============================================================================
