------------------------- MODULE EnhancedFlashDataset -------------------------
(* The key-value store of efd_kv.c, in which OpenThread keeps its settings.   *)
(* Records are appended to sectors of flash; a new value is written before    *)
(* the record it replaces is struck out, and a sector with struck records is  *)
(* collected: what is live in it is copied to other sectors, then it is       *)
(* erased.  After a reset the start finishes or undoes what was cut short.    *)
(*                                                                           *)
(* Calls run with the scheduler suspended, so one is in progress at a time;   *)
(* every step below writes to flash at most once, and power may be lost       *)
(* between any two of them.  The length of records is counted in units of the *)
(* smallest one, which is also the remainder that makes a sector full.        *)
EXTENDS Integers, Sequences, FiniteSets

CONSTANTS Key, Value,
          NoKey, NoValue,
          Size,         \* units a record with each value takes
          SectorNum,    \* SECTOR_NUM (8)
          SectorSize,   \* units in a sector
          GcThreshold,  \* EFD_GC_EMPTY_SEC_THRESHOLD (2)
          DefaultKey, DefaultValue,  \* default_env_set
          StrayName,    \* the byte behind a copied name may be other than 0
          AnyLoss,      \* power may also be lost where the start gives up early
          MaxCalls,     \* bound: calls in one behaviour
          MaxRestarts   \* bound: losses of power in one behaviour

ASSUME StoreAssumption ==
  /\ NoKey \notin Key /\ NoValue \notin Value
  /\ SectorNum \in Nat /\ SectorSize \in Nat \ {0}
  /\ GcThreshold \in 1..(SectorNum - 1)
  /\ Size \in [Value -> 1..SectorSize]
  /\ DefaultKey \in Key /\ DefaultValue \in Value
  /\ StrayName \in BOOLEAN /\ AnyLoss \in BOOLEAN
  /\ MaxCalls \in Nat /\ MaxRestarts \in Nat

VARIABLES
  flash,        \* the header and the records of each sector
  gcRequest,    \* gc_request
  lastDel,      \* last_is_complete_del (true after an incomplete one)
  cache,        \* env_cache_table: where each key was last seen
  recovering,   \* in_recovery_check
  todo,         \* what is left of the call, or of the start, in progress
  power,        \* "off", "boot" (efd_load_env runs) or "on"
  call,         \* the call in progress
  taken,        \* it has taken effect
  result,       \* what the last call returned
  calls, restarts

ram    == <<gcRequest, lastDel, cache, recovering>>
caller == <<call, taken, result, calls>>
vars   == <<flash, ram, todo, power, caller, restarts>>

Sector == 1..SectorNum
Offset == 0..(SectorSize - 1)
Addr   == Sector \X Offset
NoAddr == <<0, 0>>                              \* FAILED_ADDR

Before(a, b) == a[1] < b[1] \/ (a[1] = b[1] /\ a[2] < b[2])

Least(S) == CHOOSE x \in S : \A y \in S : x <= y

First(S) == CHOOSE a \in S : \A b \in S \ {a} : Before(a, b)

\* enum env_status, in the order in which the bytes of a status table are
\* cleared: the last one cleared is what get_status reports.
Statuses == <<"UNUSED", "PRE_WRITE", "WRITE", "PRE_DELETE", "DELETED",
              "ERR_HDR">>

Rank(st) == CHOOSE i \in 1..6 : Statuses[i] = st

Marked(old, new) == IF Rank(new) > Rank(old) THEN new ELSE old

\* A record; "whole": its crc is right.
Record == [st : {Statuses[i] : i \in 1..6}, key : Key \cup {NoKey},
           val : Value \cup {NoValue}, whole : BOOLEAN]

Blank == [st |-> "UNUSED", key |-> NoKey, val |-> NoValue, whole |-> FALSE]

\* What is left of a record of which only the status was written.
Scar == [Blank EXCEPT !.st = "ERR_HDR"]

Length(r) == IF r.val = NoValue THEN 1 ELSE Size[r.val]

\* The header of a sector: "NONE" has no magic word.
Stores == {"NONE", "EMPTY", "USING", "FULL"}
Dirts  == {"FALSE", "TRUE", "GC"}

Erased    == [store |-> "NONE", dirty |-> "FALSE", recs |-> [o \in Offset |-> Blank]]
Formatted == [Erased EXCEPT !.store = "EMPTY"]

At(a) == flash[a[1]].recs[a[2]]

\* empty_env of read_sector_meta_data, as an offset
Fill(s) ==
  LET used == {o \in Offset : flash[s].recs[o] # Blank}
      last == CHOOSE o \in used : \A x \in used : x <= o
  IN  IF used = {} THEN 0 ELSE last + Length(flash[s].recs[last])

Remain(s) == SectorSize - Fill(s)

With(store) == {s \in Sector : flash[s].store = store}

Empties == Cardinality(With("EMPTY"))

-----------------------------------------------------------------------------
(* Looking for a record, and for space.                                      *)

\* The addresses the iteration over all sectors visits.
Visited == {a \in Addr : /\ flash[a[1]].store \in {"USING", "FULL"}
                         /\ At(a) # Blank}

Live(k) == {a \in Visited : At(a).whole /\ At(a).st = "WRITE" /\ At(a).key = k}

\* find_env_no_cache
Search(k) == IF Live(k) = {} THEN NoAddr ELSE First(Live(k))

\* get_env_from_cache compares the name, and nothing else.
CacheHit(k) == cache[k] # NoAddr /\ At(cache[k]).key = k

\* find_env
Find(k) == IF CacheHit(k) THEN cache[k] ELSE Search(k)

FoundInCache(k) == IF Find(k) = NoAddr THEN cache
                                       ELSE [cache EXCEPT ![k] = Find(k)]

\* efd_get_env_blob
Reads(k) == IF Find(k) = NoAddr THEN NoValue ELSE At(Find(k)).val

\* Mutant: one unit too many.
FitsAlmost(s, size) == Remain(s) + 1 >= size /\ flash[s].dirty = "FALSE"

\* alloc_env_cb: units are whole, a sector has room for less than one more, so
\* "more than the size is free" is Remain(s) >= size here.
Fits(s, size) == /\ Remain(s) >= size
                 /\ \/ flash[s].dirty = "FALSE"
                    \/ flash[s].dirty = "TRUE" /\ ~gcRequest

FirstSpace(S) == <<Least(S), Fill(Least(S))>>

\* Mutant: no empty sector is kept for collections.
AllocUnreserved(size) ==
  LET using == {s \in With("USING") : Fits(s, size)}
      empty == {s \in With("EMPTY") : Fits(s, size)}
  IN
  IF using # {}
    THEN [addr |-> FirstSpace(using), gc |-> gcRequest]
  ELSE IF empty # {}
    THEN [addr |-> FirstSpace(empty), gc |-> gcRequest]
    ELSE [addr |-> NoAddr, gc |-> gcRequest \/ Empties > 0]

\* alloc_env: the address, or none, and gc_request afterwards.
Alloc(size) ==
  LET using == {s \in With("USING") : Fits(s, size)}
      empty == {s \in With("EMPTY") : Fits(s, size)}
  IN
  IF using # {}
    THEN [addr |-> FirstSpace(using), gc |-> gcRequest]
  ELSE IF empty # {} /\ (Empties > GcThreshold \/ gcRequest)
    THEN [addr |-> FirstSpace(empty), gc |-> gcRequest]
    ELSE [addr |-> NoAddr, gc |-> gcRequest \/ Empties > 0]

-----------------------------------------------------------------------------
(* The steps a call or the start is made of.                                 *)

MarkOf(a, st)    == [op |-> "mark", addr |-> a, st |-> st]
DirtyOf(s)       == [op |-> "dirty", sec |-> s]
UseOf(s, size)   == [op |-> "use", sec |-> s, size |-> size]
HeadOf(a, k, v)  == [op |-> "head", addr |-> a, key |-> k, val |-> v]
BodyOf(a)        == [op |-> "body", addr |-> a]
CommitOf(a, by, full) == [op |-> "commit", addr |-> a, by |-> by, full |-> full]
PutOf(k, v, tried)    == [op |-> "put", key |-> k, val |-> v, tried |-> tried]
MoveOf(a, by)    == [op |-> "move", addr |-> a, by |-> by]
SweepOf(s, o)    == [op |-> "sweep", sec |-> s, off |-> o]
CollectOf(s)     == [op |-> "collect", sec |-> s]
EraseOf(s)       == [op |-> "erase", sec |-> s]
HeaderOf(s)      == [op |-> "header", sec |-> s]
ResumeOf(s)      == [op |-> "resume", sec |-> s]
RecoverOf(a)     == [op |-> "recover", addr |-> a]
ReturnOf(r)      == [op |-> "return", res |-> r]
Repair           == [op |-> "repair"]
DefaultFrom(s)   == [op |-> "default", sec |-> s]
Scars            == [op |-> "scars"]
Gc               == [op |-> "gc"]
GcIfRequested    == [op |-> "gcif"]
GcEnd            == [op |-> "gcend"]
RecoverEnd       == [op |-> "recovered"]

HeadIs(op) == todo # <<>> /\ Head(todo).op = op

Go(steps) == todo' = steps \o Tail(todo)

SetRec(a, r) == flash' = [flash EXCEPT ![a[1]].recs[a[2]] = r]

\* write_status of a record by del_env, and its cache and flag.
Mark ==
  /\ HeadIs("mark")
  /\ LET a   == Head(todo).addr
         st  == Head(todo).st
         new == Marked(At(a).st, st)
         s   == a[1]
     IN
     /\ SetRec(a, [At(a) EXCEPT !.st = new])
     /\ lastDel' = (st = "PRE_DELETE")
     /\ cache' = IF st = "DELETED" /\ ~lastDel
                   THEN [cache EXCEPT ![At(a).key] = NoAddr] ELSE cache
     /\ taken' = (taken \/ (st = "DELETED" /\ call.kind = "delete"))
     /\ Go(IF flash[s].dirty = "FALSE" THEN <<DirtyOf(s)>> ELSE <<>>)
  /\ UNCHANGED <<gcRequest, recovering, power, call, result, calls, restarts>>

\* The end of del_env: the sector has a struck record.
Dirty ==
  /\ HeadIs("dirty")
  /\ flash' = [flash EXCEPT ![Head(todo).sec].dirty = "TRUE"]
  /\ Go(<<>>)
  /\ UNCHANGED <<ram, power, caller, restarts>>

BecomesFull(s, size) == flash[s].store = "USING" /\ Remain(s) - size < 1

\* update_sec_status
Use ==
  /\ HeadIs("use")
  /\ LET s == Head(todo).sec IN
     flash' = [flash EXCEPT ![s].store =
                 IF @ = "EMPTY" THEN "USING"
                 ELSE IF BecomesFull(s, Head(todo).size) THEN "FULL" ELSE @]
  /\ Go(<<>>)
  /\ UNCHANGED <<ram, power, caller, restarts>>

\* write_env_hdr: the status, then the rest of the header and the name.
WriteHead ==
  /\ HeadIs("head")
  /\ SetRec(Head(todo).addr, [st |-> "PRE_WRITE", key |-> Head(todo).key,
                              val |-> Head(todo).val, whole |-> FALSE])
  /\ Go(<<>>)
  /\ UNCHANGED <<ram, power, caller, restarts>>

WriteBody ==
  /\ HeadIs("body")
  /\ SetRec(Head(todo).addr, [At(Head(todo).addr) EXCEPT !.whole = TRUE])
  /\ Go(<<>>)
  /\ UNCHANGED <<ram, power, caller, restarts>>

\* Mutant: the cache keeps the address of the old record.
CommitOldCache ==
  /\ HeadIs("commit")
  /\ SetRec(Head(todo).addr, [At(Head(todo).addr) EXCEPT !.st = "WRITE"])
  /\ gcRequest' = (gcRequest \/ Head(todo).full)
  /\ taken' = (taken \/ Head(todo).by = "set")
  /\ Go(<<>>)
  /\ UNCHANGED <<lastDel, cache, recovering, power, call, result, calls, restarts>>

\* The record becomes valid; the cache points to it.
Commit ==
  /\ HeadIs("commit")
  /\ LET a == Head(todo).addr IN
     /\ SetRec(a, [At(a) EXCEPT !.st = "WRITE"])
     /\ cache' = [cache EXCEPT ![At(a).key] = a]
  /\ gcRequest' = (gcRequest \/ Head(todo).full)
  /\ taken' = (taken \/ Head(todo).by = "set")
  /\ Go(<<>>)
  /\ UNCHANGED <<lastDel, recovering, power, call, result, calls, restarts>>

WriteSteps(a, k, v, by, full) ==
  <<UseOf(a[1], Size[v]), HeadOf(a, k, v), BodyOf(a), CommitOf(a, by, full)>>

\* Mutant: the old record is struck out before the new one is valid.
ReplaceEarly(old, writing) ==
  (IF old = NoAddr THEN <<>> ELSE <<MarkOf(old, "DELETED")>>) \o writing

\* set_env: the old record may go only when the new one is valid.
Replace(old, writing) ==
  IF old = NoAddr THEN writing
  ELSE <<MarkOf(old, "PRE_DELETE")>> \o writing \o <<MarkOf(old, "DELETED")>>

\* set_env: make sure there is space, collecting once, then replace.
Put ==
  /\ HeadIs("put")
  /\ LET k   == Head(todo).key
         v   == Head(todo).val
         r   == Alloc(Size[v])
         old == Find(k)
     IN
     /\ gcRequest' = r.gc
     /\ IF r.addr # NoAddr
          THEN /\ cache' = FoundInCache(k)
               /\ Go(Replace(old, WriteSteps(r.addr, k, v, "set",
                                              BecomesFull(r.addr[1], Size[v])))
                     \o <<GcIfRequested, ReturnOf("ok")>>)
          ELSE /\ Go(IF r.gc /\ ~Head(todo).tried
                       THEN <<Gc, PutOf(k, v, TRUE)>> ELSE <<ReturnOf("full")>>)
               /\ UNCHANGED cache
  /\ UNCHANGED <<flash, lastDel, recovering, power, caller, restarts>>

Return ==
  /\ HeadIs("return")
  /\ call' = [kind |-> "none"]
  /\ taken' = FALSE
  /\ result' = Head(todo).res
  /\ Go(<<>>)
  /\ UNCHANGED <<flash, ram, power, calls, restarts>>

-----------------------------------------------------------------------------
(* Collecting sectors.                                                       *)

\* gc_collect
CollectSteps ==
  IF Empties <= GcThreshold THEN [s \in Sector |-> CollectOf(s)] \o <<GcEnd>>
                            ELSE <<GcEnd>>

StartGc ==
  /\ HeadIs("gc") \/ HeadIs("gcif")
  /\ Go(IF HeadIs("gcif") /\ ~gcRequest THEN <<>> ELSE CollectSteps)
  /\ UNCHANGED <<flash, ram, power, caller, restarts>>

FinishGc ==
  /\ HeadIs("gcend")
  /\ gcRequest' = FALSE
  /\ Go(<<>>)
  /\ UNCHANGED <<flash, lastDel, cache, recovering, power, caller, restarts>>

\* do_gc: a sector without struck records is passed over.
Collect ==
  /\ HeadIs("collect")
  /\ LET s == Head(todo).sec IN
     IF flash[s].store # "NONE" /\ flash[s].dirty # "FALSE"
       THEN /\ flash' = [flash EXCEPT ![s].dirty = "GC"]
            /\ Go(<<SweepOf(s, 0), EraseOf(s), HeaderOf(s)>>)
       ELSE Go(<<>>) /\ UNCHANGED flash
  /\ UNCHANGED <<ram, power, caller, restarts>>

Movable(s, o) == {x \in Offset : /\ x >= o
                                 /\ flash[s].recs[x].whole
                                 /\ flash[s].recs[x].st \in {"WRITE", "PRE_DELETE"}}

\* The loop of do_gc over the records of a sector.
Sweep ==
  /\ HeadIs("sweep")
  /\ LET s == Head(todo).sec
         M == Movable(s, Head(todo).off)
         x == Least(M)
     IN
     IF M = {}
       THEN Go(<<>>)
       ELSE Go((IF flash[s].recs[x].st = "WRITE"
                  THEN <<MarkOf(<<s, x>>, "PRE_DELETE")>> ELSE <<>>)
               \o <<MoveOf(<<s, x>>, "gc")>>
               \o (IF x + 1 \in Offset THEN <<SweepOf(s, x + 1)>> ELSE <<>>))
  /\ UNCHANGED <<flash, ram, power, caller, restarts>>

\* Mutant: the start copies whatever it finds.
NeverKnown(k) == {FALSE}

\* What the start may find of a successor of a record it is about to copy: the
\* copied name may be longer by a stray byte, and then nothing is found.
Known(k) == IF Live(k) = {} THEN {FALSE}
            ELSE IF StrayName THEN BOOLEAN ELSE {TRUE}

\* move_env behind its del_env: the record is copied, unless the start finds
\* that its successor was written.
Move ==
  /\ HeadIs("move")
  /\ LET a == Head(todo).addr
         r == Alloc(Length(At(a)))
     IN
     /\ gcRequest' = r.gc
     /\ IF r.addr = NoAddr
          THEN IF Head(todo).by = "gc" THEN Go(<<>>)
                                       ELSE todo' = <<RecoverEnd>>
          ELSE \E known \in Known(At(a).key) :
               IF recovering /\ known
                 THEN Go(<<MarkOf(a, "DELETED")>>)
                 ELSE Go(WriteSteps(r.addr, At(a).key, At(a).val, "move", FALSE)
                         \o <<MarkOf(a, "DELETED")>>)
  /\ UNCHANGED <<flash, lastDel, cache, recovering, power, caller, restarts>>

\* format_sector erases, then writes the header.
Erase ==
  /\ HeadIs("erase")
  /\ flash' = [flash EXCEPT ![Head(todo).sec] = Erased]
  /\ Go(<<>>)
  /\ UNCHANGED <<ram, power, caller, restarts>>

Header ==
  /\ HeadIs("header")
  /\ flash' = [flash EXCEPT ![Head(todo).sec] = Formatted]
  /\ Go(<<>>)
  /\ UNCHANGED <<ram, power, caller, restarts>>

-----------------------------------------------------------------------------
(* The start.                                                                *)

\* efd_load_env
Start ==
  /\ power = "off"
  /\ power' = "boot"
  /\ recovering' = TRUE
  /\ todo' = <<Repair>>
             \o (IF With("NONE") = Sector THEN <<DefaultFrom(1)>> ELSE <<>>)
             \o <<Scars>> \o [s \in Sector |-> ResumeOf(s)] \o <<RecoverOf(<<1, 0>>)>>
  /\ UNCHANGED <<flash, gcRequest, lastDel, cache, caller, restarts>>

\* check_sec_hdr_cb, for the sectors one by one
RepairSector ==
  /\ HeadIs("repair")
  /\ Go(IF With("NONE") = {} THEN <<>>
        ELSE <<EraseOf(Least(With("NONE"))), HeaderOf(Least(With("NONE"))), Repair>>)
  /\ UNCHANGED <<flash, ram, power, caller, restarts>>

\* efd_env_set_default: every sector is formatted, then the default is written.
SetDefault ==
  /\ HeadIs("default")
  /\ LET s == Head(todo).sec
         r == Alloc(Size[DefaultValue])
     IN
     Go(IF s \in Sector
          THEN <<EraseOf(s), HeaderOf(s), DefaultFrom(s + 1)>>
          ELSE WriteSteps(r.addr, DefaultKey, DefaultValue, "default", FALSE))
  /\ UNCHANGED <<flash, ram, power, caller, restarts>>

\* Sectors taken into use whose first record was never begun.
Unbegun == {s \in With("USING") : Fill(s) = 0}

\* read_env of a record without a length; the first read of the sector does it.
MarkScar ==
  /\ HeadIs("scars")
  /\ IF Unbegun = {}
       THEN Go(<<>>) /\ UNCHANGED flash
       ELSE SetRec(<<Least(Unbegun), 0>>, Scar) /\ UNCHANGED todo
  /\ UNCHANGED <<ram, power, caller, restarts>>

\* check_and_recovery_gc_cb
ResumeGc ==
  /\ HeadIs("resume")
  /\ LET s == Head(todo).sec IN
     IF flash[s].store # "NONE" /\ flash[s].dirty = "GC"
       THEN Go(<<Gc>>) /\ gcRequest' = TRUE
       ELSE Go(<<>>) /\ UNCHANGED gcRequest
  /\ UNCHANGED <<flash, lastDel, cache, recovering, power, caller, restarts>>

Unfinished(from) ==
  {a \in Visited : /\ ~Before(a, from)
                   /\ \/ At(a).whole /\ At(a).st = "PRE_DELETE"
                      \/ At(a).st = "PRE_WRITE"}

Next1(a) == IF a[2] + 1 \in Offset THEN <<a[1], a[2] + 1>> ELSE <<a[1] + 1, 0>>

\* check_and_recovery_env_cb, called for the records one by one: it ends the
\* iteration at the first record that was not written to its end.
Recover ==
  /\ HeadIs("recover")
  /\ LET U == Unfinished(Head(todo).addr)
         a == First(U)
     IN
     IF U = {}
       THEN Go(<<RecoverEnd>>) /\ UNCHANGED flash
     ELSE IF At(a).st = "PRE_DELETE"
       THEN Go(<<MoveOf(a, "start"), RecoverOf(Next1(a))>>) /\ UNCHANGED flash
       ELSE /\ SetRec(a, [At(a) EXCEPT !.st = "ERR_HDR"])
            /\ Go(<<RecoverEnd>>)
  /\ UNCHANGED <<ram, power, caller, restarts>>

\* After a collection the iteration begins anew.
Recovered ==
  /\ HeadIs("recovered")
  /\ IF gcRequest
       THEN /\ Go(<<Gc, RecoverOf(<<1, 0>>)>>)
            /\ UNCHANGED <<recovering, power>>
       ELSE /\ Go(<<>>)
            /\ recovering' = FALSE
            /\ power' = "on"
  /\ UNCHANGED <<flash, gcRequest, lastDel, cache, caller, restarts>>

-----------------------------------------------------------------------------
(* Calls and losses of power.                                                *)

Idle == power = "on" /\ todo = <<>>

Call(c) == /\ Idle
           /\ calls < MaxCalls
           /\ calls' = calls + 1
           /\ call' = c
           /\ UNCHANGED <<flash, gcRequest, lastDel, recovering, power, taken,
                          result, restarts>>

\* efd_set_env_blob
CallSet(k, v) ==
  /\ Call([kind |-> "set", key |-> k, val |-> v])
  /\ todo' = <<PutOf(k, v, FALSE)>>
  /\ UNCHANGED cache

\* efd_del_env
CallDelete(k) ==
  /\ Call([kind |-> "delete", key |-> k])
  /\ cache' = FoundInCache(k)
  /\ todo' = IF Find(k) = NoAddr THEN <<ReturnOf("missing")>>
                                 ELSE <<MarkOf(Find(k), "DELETED"), ReturnOf("ok")>>

\* efd_get_env_blob fills the cache.
CallGet(k) ==
  /\ Idle
  /\ cache' = FoundInCache(k)
  /\ UNCHANGED <<flash, gcRequest, lastDel, recovering, todo, power, caller,
                 restarts>>

\* The next start can finish what is interrupted: no record that was being
\* written lies before one that is to be recovered (unless the sector of that
\* one is collected first), and what is to be copied has an empty sector left.
Recoverable ==
  /\ \A a, b \in Visited :
       /\ At(a).st = "PRE_WRITE" /\ At(b).st = "PRE_DELETE" /\ At(b).whole
       /\ ~(flash[b[1]].dirty = "GC" /\ Empties <= GcThreshold)
       => Before(b, a)
  /\ \/ Empties > 0
     \/ /\ \A s \in Sector : flash[s].dirty # "GC"
        /\ \A a \in Visited : At(a).st # "PRE_DELETE"

LosePower ==
  /\ power # "off"
  /\ restarts < MaxRestarts
  /\ AnyLoss \/ Recoverable
  /\ restarts' = restarts + 1
  /\ power' = "off"
  /\ todo' = <<>>
  /\ gcRequest' = FALSE /\ lastDel' = FALSE /\ recovering' = FALSE
  /\ cache' = [k \in Key |-> NoAddr]
  /\ call' = [kind |-> "none"] /\ taken' = FALSE
  /\ \/ UNCHANGED flash
     \/ HeadIs("head") /\ SetRec(Head(todo).addr, Scar)
  /\ UNCHANGED <<result, calls>>

-----------------------------------------------------------------------------
Init ==
  /\ flash = [s \in Sector |-> Erased]
  /\ gcRequest = FALSE /\ lastDel = FALSE /\ recovering = FALSE
  /\ cache = [k \in Key |-> NoAddr]
  /\ todo = <<>>
  /\ power = "off"
  /\ call = [kind |-> "none"] /\ taken = FALSE /\ result = "ok"
  /\ calls = 0 /\ restarts = 0

Step == \/ Mark \/ Dirty \/ Use \/ WriteHead \/ WriteBody \/ Commit
        \/ Put \/ Return
        \/ StartGc \/ FinishGc \/ Collect \/ Sweep \/ Move \/ Erase \/ Header
        \/ RepairSector \/ SetDefault \/ MarkScar \/ ResumeGc \/ Recover \/ Recovered

Next == \/ Start \/ Step
        \/ \E k \in Key : CallDelete(k) \/ CallGet(k) \/ \E v \in Value : CallSet(k, v)
        \/ LosePower

Spec == Init /\ [][Next]_vars

\* The processor goes on with what it has begun.
FairSpec == Spec /\ WF_vars(Start \/ Step)

-----------------------------------------------------------------------------
(* Properties                                                                *)

\* Every variable has the values the code can give it; a record to be written
\* lies within its sector.
TypeOK ==
  /\ flash \in [Sector -> [store : Stores, dirty : Dirts, recs : [Offset -> Record]]]
  /\ gcRequest \in BOOLEAN /\ lastDel \in BOOLEAN /\ recovering \in BOOLEAN
  /\ cache \in [Key -> Addr \cup {NoAddr}]
  /\ \A i \in DOMAIN todo : todo[i].op = "head" =>
       /\ todo[i].addr \in Addr
       /\ todo[i].addr[2] + Size[todo[i].val] <= SectorSize
  /\ power \in {"off", "boot", "on"}
  /\ taken \in BOOLEAN
  /\ result \in {"ok", "full", "missing"}
  /\ calls \in 0..MaxCalls /\ restarts \in 0..MaxRestarts

\* What is on file for a key: the valid record, or the one which is to be
\* deleted and has no successor yet.
Stored(k) ==
  LET Whole(st) == {a \in Addr : At(a).whole /\ At(a).st = st /\ At(a).key = k}
  IN  IF Whole("WRITE") # {} THEN At(First(Whole("WRITE"))).val
      ELSE IF Whole("PRE_DELETE") # {} THEN At(First(Whole("PRE_DELETE"))).val
      ELSE NoValue

Envs == INSTANCE EnvStore WITH store <- [k \in Key |-> Stored(k)]

\* With power lost between any two writes to flash, in calls, collections and
\* starts, every call takes effect at one instant or not at all: no collection
\* and no recovery brings an old value back or loses one (set_env, move_env,
\* do_gc, efd_load_env).
ImplementsEnvStore == Envs!Spec

\* A read returns what is on file: the cache, which compares nothing but the
\* name, never leads to a struck record, and the start leaves no record behind
\* that only a recovery could read (find_env, check_and_recovery_env_cb).
ReadsStored == Idle => \A k \in Key : Reads(k) = Stored(k)

\* "already create success, don't need to duplicate" (move_env): a key has one
\* valid record, or a search could find the older one.
OneLiveRecord == Idle => \A k \in Key : Cardinality(Live(k)) <= 1

\* A sector is erased whether or not its records could be moved (do_gc ignores
\* what move_env returns): a collection must find room for each of them.
Room == HeadIs("move") /\ Head(todo).by = "gc" =>
          Alloc(Length(At(Head(todo).addr))).addr # NoAddr

\* No record that awaits its deletion is left when a start comes to its end,
\* though the recovery ends at the first record that was not written to its end
\* (efd_load_env, check_and_recovery_env_cb).
RecoveryComplete ==
  HeadIs("recovered") /\ ~gcRequest =>
    \A a \in Addr : ~(At(a).whole /\ At(a).st = "PRE_DELETE")

\* Neither a collection nor a recovery leaves out a record that it has to deal
\* with, so none is lost with its sector and none returns.
NothingLeftOut == Room /\ RecoveryComplete

\* "Check and load the flash ENV meta data. @return result": efd_load_env
\* returns; "Now will GC then retry" does not go on for ever.
StartCompletes == power = "boot" ~> power # "boot"

=============================================================================
