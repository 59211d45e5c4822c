----------------------------- MODULE FlashDataSet -----------------------------
(* The data set of flashds.c: typed records appended to one of two flash     *)
(* pages, the latest of a type being its value.  A full page is moved: the   *)
(* other page is erased and takes a copy of every live record.  After a      *)
(* reset the pages are scanned, and what was interrupted is repaired.        *)
(*                                                                           *)
(* Records have one size here, so a page is a row of slots, and a remainder  *)
(* too short for a record follows the last slot.  A record is programmed in  *)
(* three parts that a loss of power can separate: the type, then length,     *)
(* serial number and data, then the crc.  Flash erases a page at once.       *)
EXTENDS Integers, Sequences

CONSTANTS MaxType,      \* types are 1..MaxType (DS_TABLE_TYPE_MAX)
          Value,        \* what records may hold
          Junk,         \* erased or garbled bytes taken for data
          NoValue,      \* what ds_read reports for a type that is not on file
          PageSlots,    \* records that fit into a page
          SnMax,        \* DS_SERAIL_NUMBER_MAX (0xFFFF)
          StrayAddress, \* the uninitialised "address" of a scan may be high
          Calls,        \* the calls made: a subset of CallKinds
          MaxCalls,     \* bound: calls in one behaviour
          MaxRestarts   \* bound: losses of power in one behaviour

CallKinds == {"write", "delete", "reset"}

ASSUME DataSetAssumption ==
  /\ PageSlots \in Nat \ {0}
  /\ MaxType \in 1..PageSlots
  /\ Junk \notin Value /\ NoValue \notin Value /\ Junk # NoValue
  /\ SnMax \in Nat \ {0}
  /\ StrayAddress \in BOOLEAN
  /\ Calls \subseteq CallKinds
  /\ MaxCalls \in Nat /\ MaxRestarts \in Nat

VARIABLES
  flash,    \* the cells of both pages
  table,    \* ds_record_table: the record each type is read from
  page,     \* dsinfo.current_page
  pos,      \* dsinfo.current_address, as a slot of the current page
  sn,       \* dsinfo.current_sn
  mig,      \* dsinfo.migration_address, as a slot of the page moved to
  job,      \* what is left to do of the call, or of the start, in progress
  stage,    \* parts programmed of the record at the head of job
  power,    \* "off", "boot" (ds_initinal runs) or "on"
  last,     \* the value of the last completed write of each type
  hidden,   \* types whose last write had the serial number already on file
  held,     \* at the last loss of power: the values each type may come back as
  shut,     \* how power was lost: "clean", "safe" or "bad", see Lost
  calls, restarts

ram    == <<table, page, pos, sn, mig>>
ghosts == <<last, hidden, held, shut, calls, restarts>>
vars   == <<flash, ram, job, stage, power, ghosts>>

Type  == 1..MaxType
Page  == 0..1           \* DS_PAGE_0, DS_PAGE_1
Slot  == 0..(PageSlots - 1)
Other(p) == 1 - p
SnStart == 1            \* DS_SERAIL_NUMBER_START

\* A cell is the space of one record.  "headless": programmed up to the type,
\* its length reads 0xFFxx.  "broken": it has its length and a wrong crc.
CellStates == {"erased", "headless", "broken", "garbled", "whole"}

Cell == [state : CellStates, type : 0..MaxType, sn : Nat, val : Value \cup {Junk}]

Erased == [state |-> "erased", type |-> 0, sn |-> 0, val |-> Junk]

\* ds_record_table[t]: type 0, or the place and serial number of a record.
None == [sn |-> 0, page |-> 0, slot |-> -1]

Place == [sn : Nat, page : Page, slot : Slot]

\* ds_read, and what the caller finds at the address it returns.
Reads(t) == IF table[t] = None THEN NoValue
                               ELSE flash[table[t].page][table[t].slot].val

Idle == power = "on" /\ job = <<>>

\* Mutant: the end of the page is compared one record late.
FullLate == pos > PageSlots

\* A record more would lead out of the page.
Full == pos = PageSlots

-----------------------------------------------------------------------------
(* ds_vaild_address_search over one page.                                    *)

\* The scan ends at erased bytes, or fails at a length that leads out of the
\* page; it skips a record whose crc is wrong.
Ends(c) == c.state \in {"erased", "headless"}

ScanEnd(p) ==
  CHOOSE k \in 0..PageSlots :
    /\ \A j \in Slot : j < k => ~Ends(flash[p][j])
    /\ k \in Slot => Ends(flash[p][k])

ScanFails(p) == ScanEnd(p) \in Slot /\ flash[p][ScanEnd(p)].state = "headless"

\* Mutant: the crc is not compared.
SeenUnchecked(p) ==
  {k \in Slot : k < ScanEnd(p) /\ flash[p][k].state \in {"whole", "broken"}
                               /\ flash[p][k].type # 0}

Seen(p) == {k \in Slot : k < ScanEnd(p) /\ flash[p][k].state = "whole"}

\* Mutant: of records with one type the first is taken.
TakesFirst(e, new) == e = None

\* ds_update_table
Takes(e, new) == e = None \/ e.sn < new.sn

Updated(tab, t, new) == [tab EXCEPT ![t] = IF Takes(@, new) THEN new ELSE @]

\* The first of the records of type t with the highest serial number, as
\* ds_update_table leaves it after the scan.
Newest(p, t) ==
  LET S == {k \in Seen(p) : flash[p][k].type = t}
  IN  CHOOSE k \in S : \A j \in S : \/ flash[p][j].sn < flash[p][k].sn
                                    \/ flash[p][j].sn = flash[p][k].sn /\ k <= j

HighestSn(p, s) ==
  CHOOSE m \in {flash[p][k].sn : k \in Seen(p)} \cup {s} :
    /\ m >= s
    /\ \A k \in Seen(p) : flash[p][k].sn <= m

\* ds_page_vaild_address: r is the RAM before, the result the RAM after.
Scanned(r, p) ==
  [table |-> [t \in Type |->
     IF \E k \in Seen(p) : flash[p][k].type = t
       THEN LET k   == Newest(p, t)
                new == [sn |-> flash[p][k].sn, page |-> p, slot |-> k]
            IN  IF Takes(r.table[t], new) THEN new ELSE r.table[t]
       ELSE r.table[t]],
   page |-> p,
   pos  |-> IF ScanFails(p) THEN r.pos ELSE ScanEnd(p),
   sn   |-> HighestSn(p, r.sn)]

\* A scan whose uninitialised "address" lies behind the page gives up at once.
Scan(r, p) ==
  {[ram |-> Scanned(r, p), ok |-> ~ScanFails(p)]} \cup
  IF StrayAddress THEN {[ram |-> [r EXCEPT !.page = p], ok |-> FALSE]} ELSE {}

-----------------------------------------------------------------------------
(* The steps of a call.  A move copies every type that is on file, in order. *)

EraseOf(p)    == [op |-> "erase", page |-> p]
CopyOf(t, p)  == [op |-> "copy", type |-> t, page |-> p]
SettleIn(p)   == [op |-> "settle", page |-> p]
ScanOf(p)     == [op |-> "scan", page |-> p]
WriteOf(t, v) == [op |-> "write", type |-> t, val |-> v]
Default       == [op |-> "default"]

\* Mutant: the loop over the types ends one early.
CopiesButLast(p) == [t \in 1..(MaxType - 1) |-> CopyOf(t, Other(p))]

Copies(p) == [t \in Type |-> CopyOf(t, Other(p))]

\* ds_migration(p)
MoveOf(p) == <<[op |-> "move", page |-> p]>> \o Copies(p)

ResetJob == <<EraseOf(0), EraseOf(1), Default>>

EmptyTable == [t \in Type |-> None]

PageErased(p) == \A k \in Slot : flash[p][k] = Erased

SetRam(r) == /\ table' = r.table
             /\ page' = r.page
             /\ pos' = r.pos
             /\ sn' = r.sn

Cleared == [table |-> EmptyTable, page |-> 0, pos |-> 0, sn |-> 0]

Incremented(r) == [r EXCEPT !.sn = @ + 1]

\* ds_pagex_check, the page p in use and the other one erased.
StartWithOne(p) ==
  \E s \in Scan(Cleared, p) :
    IF s.ok
      THEN SetRam(Incremented(s.ram)) /\ job' = <<>>
      ELSE /\ SetRam([Incremented(s.ram) EXCEPT !.page = Other(p), !.pos = 0])
           /\ job' = MoveOf(p) \o <<EraseOf(p)>>

\* ds_pagex_check, both pages in use.  The serial number after the second scan
\* is the highest of both pages.
StartWithBoth ==
  \E s0 \in Scan(Cleared, 0) : \E s1 \in Scan(s0.ram, 1) :
    LET r == Incremented(s1.ram) IN
    \/ /\ s0.ok /\ s1.ok
       /\ LET new == IF s0.ram.sn > s1.ram.sn THEN 0 ELSE 1 IN
          /\ \E s \in Scan(r, new) : SetRam(s.ram)
          /\ job' = <<EraseOf(Other(new))>> \o MoveOf(new)
                      \o <<EraseOf(new), ScanOf(Other(new))>>
    \/ /\ ~s0.ok /\ s1.ok
       /\ SetRam([r EXCEPT !.page = 1])
       /\ job' = <<EraseOf(0)>>
    \/ /\ s0.ok /\ ~s1.ok
       /\ SetRam([r EXCEPT !.page = 0])
       /\ job' = <<EraseOf(1)>>
    \/ /\ ~s0.ok /\ ~s1.ok
       /\ SetRam(r)
       /\ job' = ResetJob

\* ds_initinal
Start ==
  /\ power = "off"
  /\ power' = "boot"
  /\ \/ /\ PageErased(0) /\ PageErased(1)
        /\ SetRam([Cleared EXCEPT !.sn = SnStart])
        /\ job' = <<>>
     \/ \E p \in Page : PageErased(Other(p)) /\ ~PageErased(p) /\ StartWithOne(p)
     \/ ~PageErased(0) /\ ~PageErased(1) /\ StartWithBoth
  /\ UNCHANGED <<flash, mig, stage, ghosts>>

Ready ==
  /\ power = "boot" /\ job = <<>>
  /\ power' = "on"
  /\ last' = [t \in Type |-> Reads(t)]
  /\ hidden' = {}
  /\ UNCHANGED <<flash, ram, job, stage, held, shut, calls, restarts>>

-----------------------------------------------------------------------------
(* Steps.                                                                    *)

HeadIs(op) == job # <<>> /\ Head(job).op = op

Done == job' = Tail(job)

Erase ==
  /\ HeadIs("erase")
  /\ flash' = [flash EXCEPT ![Head(job).page] = [k \in Slot |-> Erased]]
  /\ Done
  /\ UNCHANGED <<ram, stage, power, ghosts>>

Move ==
  /\ HeadIs("move")
  /\ mig' = 0
  /\ Done
  /\ UNCHANGED <<flash, table, page, pos, sn, stage, power, ghosts>>

\* Programming only clears bits: what is not erased is garbled.
Programmed(c, to, t, s, v) ==
  LET from == [headless |-> "erased", broken |-> "headless", whole |-> "broken"]
  IN  IF c.state = from[to]
        THEN [state |-> to, type |-> t, sn |-> s,
              val |-> IF to = "whole" THEN v ELSE Junk]
        ELSE [c EXCEPT !.state = "garbled", !.val = Junk]

Parts == <<"headless", "broken", "whole">>

\* One part of a record of type t at slot k of page p.
Program(p, k, t, s, v) ==
  flash' = [flash EXCEPT ![p][k] = Programmed(@, Parts[stage + 1], t, s, v)]

Wrapped(s) == IF s = SnMax THEN SnStart ELSE s

\* ds_migration_write counts on before it writes.
MigrationSn == Wrapped(sn + 1)

\* One part of ds_migration_write; a type that is not on file is passed over.
Copy ==
  /\ HeadIs("copy")
  /\ LET t == Head(job).type
         p == Head(job).page
     IN
     IF table[t] = None
       THEN Done /\ UNCHANGED <<flash, ram, stage>>
       ELSE LET s == IF stage = 0 THEN MigrationSn ELSE sn IN
            /\ Program(p, mig, t, s, Reads(t))
            /\ sn' = s
            /\ stage' = (stage + 1) % 3
            /\ IF stage < 2
                 THEN UNCHANGED <<table, mig, job>>
                 ELSE /\ table' = Updated(table, t,
                                    [sn |-> s, page |-> p, slot |-> mig])
                      /\ mig' = mig + 1
                      /\ Done
            /\ UNCHANGED <<page, pos>>
  /\ UNCHANGED <<power, ghosts>>

\* ds_write goes on in the page moved to.
Settle ==
  /\ HeadIs("settle")
  /\ page' = Head(job).page
  /\ pos' = mig
  /\ Done
  /\ UNCHANGED <<flash, table, sn, mig, stage, power, ghosts>>

Rescan ==
  /\ HeadIs("scan")
  /\ \E s \in Scan([table |-> table, page |-> page, pos |-> pos, sn |-> sn],
                   Head(job).page) : SetRam(s.ram)
  /\ Done
  /\ UNCHANGED <<flash, mig, stage, power, ghosts>>

\* One part of ds_write; a record that does not fit even after a move is
\* refused.
Write ==
  /\ HeadIs("write")
  /\ LET t == Head(job).type
         v == Head(job).val
         s == Wrapped(sn)
     IN
     IF Full
       THEN Done /\ UNCHANGED <<flash, table, pos, sn, stage, last, hidden>>
       ELSE /\ Program(page, pos, t, s, v)
            /\ stage' = (stage + 1) % 3
            /\ IF stage < 2
                 THEN /\ sn' = s
                      /\ UNCHANGED <<table, pos, job, last, hidden>>
                 ELSE /\ table' = Updated(table, t,
                                    [sn |-> s, page |-> page, slot |-> pos])
                      /\ pos' = pos + 1
                      /\ sn' = s + 1
                      /\ last' = [last EXCEPT ![t] = v]
                      /\ hidden' = IF table[t] # None /\ table[t].sn = s
                                     THEN hidden \cup {t} ELSE hidden \ {t}
                      /\ Done
  /\ UNCHANGED <<page, mig, power, held, shut, calls, restarts>>

\* The end of ds_reset_to_default; ds_record_table is left as it was.
SetDefault ==
  /\ HeadIs("default")
  /\ page' = 0 /\ pos' = 0 /\ sn' = SnStart
  /\ Done
  /\ last' = [t \in Type |-> NoValue]
  /\ UNCHANGED <<flash, table, mig, stage, power, hidden, held, shut, calls,
                 restarts>>

-----------------------------------------------------------------------------
(* Calls and losses of power.                                                *)

Call(kind) == /\ kind \in Calls
              /\ Idle
              /\ calls < MaxCalls
              /\ calls' = calls + 1

\* ds_read changes nothing.
CallRead == Idle /\ UNCHANGED vars

\* ds_write: the page is moved first if the record does not fit.
CallWrite(t, v) ==
  /\ Call("write")
  /\ job' = IF Full
              THEN <<EraseOf(Other(page))>> \o MoveOf(page)
                     \o <<SettleIn(Other(page)), WriteOf(t, v)>>
              ELSE <<WriteOf(t, v)>>
  /\ UNCHANGED <<flash, ram, stage, power, last, hidden, held, shut,
                 restarts>>

\* A record whose type is programmed to 0: its crc is wrong from now on.
Struck(c) == [c EXCEPT !.type = 0,
                       !.state = CASE c.state = "erased" -> "headless"
                                   [] c.state = "whole"  -> "broken"
                                   [] OTHER              -> c.state]

\* ds_delete_type
CallDelete(t) ==
  /\ Call("delete")
  /\ IF table[t] = None
       THEN UNCHANGED <<flash, table, last>>
       ELSE /\ flash' = [flash EXCEPT ![table[t].page][table[t].slot] = Struck(@)]
            /\ table' = [table EXCEPT ![t] = None]
            /\ last' = [last EXCEPT ![t] = NoValue]
  /\ UNCHANGED <<page, pos, sn, mig, job, stage, power, hidden, held, shut,
                 restarts>>

CallReset ==
  /\ Call("reset")
  /\ job' = ResetJob
  /\ UNCHANGED <<flash, ram, stage, power, last, hidden, held, shut,
                 restarts>>

\* A write that does not move the page, or nothing at all, is under way.
Plain == power = "on" /\ (job = <<>> \/ HeadIs("write"))

\* No record was programmed over another one.
Clean == \A p \in Page : \A k \in Slot : flash[p][k].state # "garbled"

\* Every type on file is read from a whole record of its own.
Sound == \A t \in Type : table[t] # None =>
           LET c == flash[table[t].page][table[t].slot]
           IN  c.state = "whole" /\ c.type = t

\* What ds_pagex_check can repair: the other page is erased, or is page 0 and
\* the last record has its length.
Repairable == /\ Clean /\ Sound
              /\ \/ PageErased(Other(page))
                 \/ page = 1 /\ stage # 1

LosePower ==
  /\ power # "off"
  /\ restarts < MaxRestarts
  /\ restarts' = restarts + 1
  /\ power' = "off"
  /\ held' = [t \in Type |->
       {Reads(t)} \cup IF HeadIs("write") /\ Head(job).type = t
                         THEN {Head(job).val} ELSE {}]
  /\ shut' = IF ~Plain THEN "bad"
             ELSE IF Repairable THEN "safe"
             ELSE IF Idle THEN "clean" ELSE "bad"
  /\ SetRam(Cleared)
  /\ mig' = 0
  /\ job' = <<>> /\ stage' = 0
  /\ UNCHANGED <<flash, last, hidden, calls>>

-----------------------------------------------------------------------------
Init ==
  /\ flash = [p \in Page |-> [k \in Slot |-> Erased]]
  /\ table = EmptyTable
  /\ page = 0 /\ pos = 0 /\ sn = 0 /\ mig = 0
  /\ job = <<>> /\ stage = 0
  /\ power = "off"
  /\ last = [t \in Type |-> NoValue]
  /\ hidden = {}
  /\ held = [t \in Type |-> {NoValue}]
  /\ shut = "safe"
  /\ calls = 0 /\ restarts = 0

Step == Erase \/ Move \/ Copy \/ Settle \/ Rescan \/ Write \/ SetDefault

Next == \/ Start \/ Ready \/ Step
        \/ \E t \in Type : CallDelete(t) \/ \E v \in Value : CallWrite(t, v)
        \/ CallReset \/ CallRead
        \/ LosePower

Spec == Init /\ [][Next]_vars

-----------------------------------------------------------------------------
(* Properties                                                                *)

\* Every variable has the values the driver's structures can hold.
TypeOK ==
  /\ flash \in [Page -> [Slot -> Cell]]
  /\ table \in [Type -> Place \cup {None}]
  /\ page \in Page
  /\ pos \in 0..PageSlots
  /\ sn \in Nat
  /\ mig \in 0..PageSlots
  /\ stage \in 0..2
  /\ power \in {"off", "boot", "on"}
  /\ last \in [Type -> Value \cup {Junk, NoValue}]
  /\ hidden \subseteq Type
  /\ held \in [Type -> SUBSET (Value \cup {Junk, NoValue})]
  /\ shut \in {"clean", "safe", "bad"}
  /\ calls \in 0..MaxCalls
  /\ restarts \in 0..MaxRestarts

\* Between two calls every type on file is read from a whole record of its own
\* type in the current page: a move leaves no entry behind in the page that
\* the next move erases.
EntriesInCurrentPage ==
  Idle => Sound /\ \A t \in Type : table[t] # None => table[t].page = page

\* Within one power cycle a type reads as it was last written, whatever moves
\* there were, unless that write had the serial number of the record on file.
ReadsLastOrHidden ==
  Idle => \A t \in Type : Reads(t) = last[t] \/ t \in hidden

\* "STATUS_SUCCESS ---write data set finish" (flashds.h): a completed write is
\* what the next read returns.
ReadsLastWrite == Idle => \A t \in Type : Reads(t) = last[t]

Started == power = "boot" /\ job = <<>>

\* A type on file survives a loss of power with its value, or with the one
\* being written, however far the write had come, wherever the start can repair
\* the pages.
RepairedKeepsData ==
  Started /\ shut = "safe" =>
    \A t \in Type : held[t] \subseteq Value => Reads(t) \in held[t]

\* "get latest package data" (ds_page_vaild_address): a type on file survives a
\* loss of power between two calls.
RestartKeepsData ==
  Started /\ shut \in {"clean", "safe"} =>
    \A t \in Type : held[t] \subseteq Value => Reads(t) \in held[t]

\* "will be delete data set type" (ds_delete_type): a deleted type does not come
\* back with a restart.
DeletedStaysDeleted ==
  Started /\ shut = "safe" =>
    \A t \in Type : held[t] = {NoValue} => Reads(t) = NoValue

\* "will be reset data set to default" (ds_reset_to_default): after it nothing is
\* on file.
ResetForgets == [][SetDefault => \A t \in Type : Reads(t)' = NoValue]_vars

\* "migration data set data into vaild flash address" (ds_migration): no record
\* is programmed over another one.
NothingGarbled == Clean

=============================================================================
