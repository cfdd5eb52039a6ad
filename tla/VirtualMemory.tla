--------------------------- MODULE VirtualMemory ---------------------------
(***************************************************************************)
(* A task's page directory (src/virtual_memory.rs and src/vm/) mapped and  *)
(* unmapped through AllocMapping, whose frames come from the FrameAlloc    *)
(* allocator, while another kernel thread allocates and frees frames of    *)
(* the same allocator.                                                     *)
(*                                                                         *)
(* A logical page is its linear index i in 0..NumTables*Slots-1, whose   *)
(* bits split into table and entry (get_page_table, get_page).  An entry is *)
(* [addr, flags]: addr is page_address() (a frame of FrameAlloc for a      *)
(* page, the table's own index for a directory entry, NoAddr for 0) and   *)
(* flags the twelve low bits.  Frames are page aligned, so every          *)
(* isPageAligned test of the code passes and is left out.                  *)
(*                                                                         *)
(* The public entry points are the Safe wrappers, which assert that the    *)
(* kernel directory is current and the directory is another one: the      *)
(* invalidatePage and zeroing branches guarded by get_cr3() == dir never   *)
(* run and are left out.  The directory belongs to one task, and one       *)
(* thread (VMThread) works on it.                                          *)
(*                                                                         *)
(* The flag bit numbers are CONSTANTS; the configurations give them the   *)
(* values of virtual_memory.rs:52-57.                                      *)
(***************************************************************************)
EXTENDS Naturals, FiniteSets, Bitwise

CONSTANTS
    NumTables, Slots,       \* directory entries and entries per table
    NumFrames, MaxReserve, InitMarksEveryFrame, ScanFromCurrent,
    VMThread, Other,        \* the task's thread and another kernel thread
    NoAddr,                 \* page_address() == 0
    PAGE_PRESENT_BIT, PAGE_WRITABLE_BIT, PAGE_USER_ACCESS_BIT,
    PAGE_COPY_ON_WRITE_BIT, PAGE_FREE_BIT,
    RightsChoices,          \* the rights callers ask for, as sets of names
    CallerChecksUnmapped,   \* mapMemoryRange is only called on unmapped ranges
    TableAllocMayFail,      \* Box::try_new(PageTable) can return Err
    EntryIterAddsAddress    \* EntryIter adds nextAddress's result to next

ASSUME CallerChecksUnmapped \in BOOLEAN /\ TableAllocMayFail \in BOOLEAN
ASSUME EntryIterAddsAddress \in BOOLEAN
ASSUME RightsChoices \subseteq SUBSET {"writable", "user"}
ASSUME \E a, b \in 0..Slots + NumTables : 2^a = Slots /\ 2^b = NumTables

VARIABLES
    dirEntry,    \* PageDirectory.0: the directory entries
    pageEntry,   \* PageTable.0 of each table, by linear page index
    pc,          \* VMThread: "idle", "map_range" or "free_range"
    cursor,      \* the next address of the range loop
    rangeStart, rangeEnd, rangeRights,
    asked,       \* ghost: the rights the mapping of each page asked for
    free, bytesFree, currFrame, allocPc, held, reserved   \* FrameAlloc

FA == INSTANCE FrameAlloc WITH Threads <- {VMThread, Other}, pc <- allocPc

vmVars == <<dirEntry, pageEntry, pc, cursor, rangeStart, rangeEnd,
            rangeRights, asked>>
faVars == <<free, bytesFree, currFrame, allocPc, held, reserved>>
vars == <<vmVars, faVars>>

Tables == 0..NumTables - 1
Pages == 0..NumTables * Slots - 1
Frames == FA!Frames
NoFrame == FA!NoFrame

----------------------------------------------------------------------------
(* Page entries and flags (virtual_memory.rs, byte_utils.rs, page_entry.rs) *)

PAGE_PRESENT == 2^PAGE_PRESENT_BIT
PAGE_WRITABLE == 2^PAGE_WRITABLE_BIT
PAGE_USER_ACCESS == 2^PAGE_USER_ACCESS_BIT
PAGE_COPY_ON_WRITE == 2^PAGE_COPY_ON_WRITE_BIT

GET_BIT(word, pos) == (word & 2^pos) # 0

\* word & !(1 << pos)
ClearBit(word, pos) == IF GET_BIT(word, pos) THEN word - 2^pos ELSE word

Entry == [addr : Frames \cup Tables \cup {NoAddr}, flags : 0..4095]

no_page == [addr |-> NoAddr, flags |-> 0]

\* PageEntry::new(addr, flags): the address bits of addr with flags or-ed in.
NewEntry(addr, flags) == [addr |-> addr, flags |-> flags % 4096]

page_is_present(e) == GET_BIT(e.flags, PAGE_PRESENT_BIT)
page_is_writable(e) == GET_BIT(e.flags, PAGE_WRITABLE_BIT)
page_is_copy_on_write(e) == GET_BIT(e.flags, PAGE_COPY_ON_WRITE_BIT)
page_is_free(e) == GET_BIT(e.flags, PAGE_FREE_BIT)

\* The flag word a caller passes for a set of rights.
FlagsOf(R) ==
    (IF "writable" \in R THEN PAGE_WRITABLE ELSE 0)
      | (IF "user" \in R THEN PAGE_USER_ACCESS ELSE 0)

\* A page index has SlotBits entry bits below TableBits table bits, as an
\* address has bits 12..21 below 22..31.
SlotBits == CHOOSE a \in 0..Slots : 2^a = Slots
IndexBits == CHOOSE b \in 0..Slots + NumTables : 2^b = Slots * NumTables

BU == INSTANCE ByteUtils WITH W <- IndexBits

\* LogicalAddress::get_page_table (vm_internal.rs:13-16) of page i:
\* GET_BIT_RANGE(addr, 22, 32).
get_page_table(i) == BU!GET_BIT_RANGE(i, SlotBits, IndexBits)

\* LogicalAddress::get_page (vm_internal.rs:19-23): GET_BIT_RANGE(addr, 12,
\* 22).  Its body ends in `;`, so as written it returns () and does not
\* compile; this is the value it is meant to have.
get_page(i) == BU!GET_BIT_RANGE(i, 0, SlotBits)

\* TABLE_ALIGN (virtual_memory.rs:34-37): FILTER_BIT_RANGE(addr, 22, 32).
TABLE_ALIGN(i) == BU!FILTER_BIT_RANGE(i, SlotBits, IndexBits)

\* The three helpers on every page index, computed once.
Split == [i \in 0..2^IndexBits - 1 |->
            [table |-> get_page_table(i), page |-> get_page(i),
             aligned |-> TABLE_ALIGN(i)]]

\* The table of page i.
TableOf(i) == Split[i].table

\* tryGetPageTable: None when the directory entry's address is 0.
HasTable(d, i) == d[TableOf(i)].addr # NoAddr

\* The entry tryGetPageEntry finds: present only if its table exists.
Present(i) == HasTable(dirEntry, i) /\ page_is_present(pageEntry[i])

\* foreach_page_in(start, end): the page-aligned addresses below end.
PagesIn(s, e) == s..e - 1

\* Mutant: nextAddress that skips a table from any address in it.
nextAddressUnaligned(d, c) ==
    IF ~page_is_present(d[TableOf(c)]) THEN c + Slots ELSE c + 1

\* nextAddress(dir, curr): a table-aligned address whose table is absent
\* skips the whole table, any other address moves on one page.
nextAddress(d, c) ==
    IF c = Split[c].aligned /\ ~page_is_present(d[TableOf(c)]) THEN c + Slots
    ELSE c + 1

\* EntryIter::next (virtual_memory.rs:167-173): the address yielded after
\* c.  Line 170 reads `self.next += nextAddress(self.dir, current)`, while
\* nextAddress returns the next address itself (manager.rs:32-42);
\* EntryIterAddsAddress chooses that reading, FALSE takes the address.
EntryStep(d, c) ==
    IF EntryIterAddsAddress THEN c + nextAddress(d, c) ELSE nextAddress(d, c)

\* The addresses foreach_entry_in(dir, s, e) (189-198) yields from c on.
RECURSIVE EntriesFrom(_, _, _)
EntriesFrom(d, c, e) ==
    IF c >= e THEN {} ELSE {c} \cup EntriesFrom(d, EntryStep(d, c), e)

\* isUserReadableAddr / isUserWritableAddr for one page of the directory.
IsUserReadable(i) ==
    HasTable(dirEntry, i)
    /\ page_is_present(pageEntry[i])
    /\ GET_BIT(pageEntry[i].flags, PAGE_USER_ACCESS_BIT)

IsUserWritable(i) ==
    IsUserReadable(i) /\ GET_BIT(pageEntry[i].flags, PAGE_WRITABLE_BIT)
----------------------------------------------------------------------------
(* Directory helpers (mapped_memory.rs), as functions of the directory     *)

\* PageEntry::upgradeFlags (19-24): only the writable bit is raised.
upgradeFlags(e, flags) ==
    IF ~GET_BIT(e.flags, PAGE_WRITABLE_BIT) /\ GET_BIT(flags, PAGE_WRITABLE_BIT)
    THEN [e EXCEPT !.flags = @ | PAGE_WRITABLE]
    ELSE e

\* getPageTable (72-93), once Box::try_new has succeeded if it was called:
\* a missing table is created and inserted with flags | PAGE_PRESENT
\* (insertPageTable, 33-39); a present one has its flags upgraded.
getPageTable(d, i, flags) ==
    IF ~page_is_present(d[TableOf(i)])
    THEN [d EXCEPT ![TableOf(i)] = NewEntry(TableOf(i), flags | PAGE_PRESENT)]
    ELSE [d EXCEPT ![TableOf(i)] = upgradeFlags(@, flags)]

\* Whether the Box::try_new of getPageTable, when the table is missing,
\* may fail (the C heap is out of memory).
TableAllocResults(d, i) ==
    IF page_is_present(d[TableOf(i)]) \/ ~TableAllocMayFail THEN {TRUE}
    ELSE BOOLEAN

----------------------------------------------------------------------------
(* Steps on the frames (alloc_mapping.rs over frame_alloc.rs)              *)

\* AllocMapping::allocAddressMapping (11-13) = allocFrame (62-65):
\* reserveFrames(1) and fulfillReservedFrame, with f the frame returned or
\* NoFrame.  A reservation that finds no frame is used up.
AllocFrame(f) ==
    \/ /\ bytesFree = 0
       /\ f = NoFrame
       /\ UNCHANGED faVars
    \/ /\ bytesFree >= 1
       /\ f = FA!Found(free, currFrame)
       /\ bytesFree' = bytesFree - 1
       /\ FA!TakeFrame(VMThread)
       /\ UNCHANGED <<allocPc, reserved>>

\* insertPage(page, addr, flags) (44-64), on the directory d: with a table,
\* its flags are upgraded; without one, getPageTable creates it or fails,
\* and the failure is returned through `?` before the entry is written.
insertPage(d, f, i, R, tableOk) ==
    IF tableOk
    THEN /\ dirEntry' = getPageTable(d, i, FlagsOf(R))
         /\ pageEntry' = [pageEntry EXCEPT
                            ![i] = NewEntry(f, FlagsOf(R) | PAGE_PRESENT)]
         /\ asked' = [asked EXCEPT ![i] = R]
    ELSE /\ dirEntry' = d
         /\ UNCHANGED <<pageEntry, asked>>

\* Mutant: mapPage without the `?` on allocAddressMapping.
mapPageUnchecked(d, i, R) ==
    \E f \in Frames \cup {NoFrame} :
        /\ AllocFrame(f)
        /\ \E tableOk \in TableAllocResults(d, i) : insertPage(d, f, i, R, tableOk)

\* mapPage (memory_alloc.rs 31-46) on the directory d: the frame is
\* allocated first; a failing insertPage returns None with the frame kept.
mapPage(d, i, R) ==
    \E f \in Frames \cup {NoFrame} :
        /\ AllocFrame(f)
        /\ IF f = NoFrame
           THEN /\ dirEntry' = d
                /\ UNCHANGED <<pageEntry, asked>>
           ELSE \E tableOk \in TableAllocResults(d, i) :
                    insertPage(d, f, i, R, tableOk)

\* Mutant: freeMappedPage that clears the entry but keeps the frame.
freeMappedPageKeepFrame(i) ==
    /\ pageEntry' = [pageEntry EXCEPT ![i] = IF Present(i) THEN no_page ELSE @]
    /\ asked' = [asked EXCEPT ![i] = IF Present(i) THEN {} ELSE @]
    /\ UNCHANGED faVars

\* Mutant: freeMappedPage that takes every entry for copy-on-write.
freeMappedPageUnreserve(i) ==
    IF ~Present(i) THEN UNCHANGED <<pageEntry, asked>> /\ UNCHANGED faVars
    ELSE /\ bytesFree' = bytesFree + 1
         /\ UNCHANGED <<free, currFrame, allocPc, held, reserved>>
         /\ pageEntry' = [pageEntry EXCEPT ![i] = no_page]
         /\ asked' = [asked EXCEPT ![i] = {}]

\* freeMappedPage (121-138): nothing without a table or a present entry;
\* otherwise the frame is given back (unreserveFrames(1) for a
\* copy-on-write entry) and the entry cleared.
freeMappedPage(i) ==
    IF ~Present(i) THEN UNCHANGED <<pageEntry, asked>> /\ UNCHANGED faVars
    ELSE /\ IF page_is_copy_on_write(pageEntry[i])
            THEN /\ bytesFree' = bytesFree + 1
                 /\ UNCHANGED <<free, currFrame, allocPc, held, reserved>>
            ELSE FA!FreeFrame(VMThread, pageEntry[i].addr)
         /\ pageEntry' = [pageEntry EXCEPT ![i] = no_page]
         /\ asked' = [asked EXCEPT ![i] = {}]

\* getPage (98-117): the table first (its creation can fail), then a
\* missing entry is mapped, a PAGE_FREE one made present, a present one
\* left alone.
getPage(i, R) ==
    \E tableOk \in TableAllocResults(dirEntry, i) :
        IF ~tableOk THEN UNCHANGED <<vmVars, faVars>>
        ELSE LET d == getPageTable(dirEntry, i, FlagsOf(R))
                 e == pageEntry[i]
             IN  /\ IF ~page_is_present(e) /\ ~page_is_free(e)
                    THEN mapPage(d, i, R)
                    ELSE /\ dirEntry' = d
                         /\ pageEntry' = [pageEntry EXCEPT ![i] =
                               IF page_is_present(e) THEN e
                               ELSE [e EXCEPT !.flags = @ | PAGE_PRESENT]]
                         /\ UNCHANGED <<asked, faVars>>
                 /\ UNCHANGED <<pc, cursor, rangeStart, rangeEnd, rangeRights>>

\* setRangeFlags (150-165) on one entry: present entries get the address,
\* PAGE_PRESENT and flags (the other flags dropped); copy-on-write ones
\* also lose PAGE_WRITABLE and keep PAGE_COPY_ON_WRITE.
SetEntryFlags(e, flags) ==
    IF ~page_is_present(e) THEN e
    ELSE IF page_is_copy_on_write(e)
    THEN [e EXCEPT !.flags =
            ClearBit(PAGE_PRESENT | flags, PAGE_WRITABLE_BIT) | PAGE_COPY_ON_WRITE]
    ELSE [e EXCEPT !.flags = PAGE_PRESENT | flags]

----------------------------------------------------------------------------
(* Operations of VMThread                                                 *)

TypeOK ==
    /\ dirEntry \in [Tables -> Entry]
    /\ pageEntry \in [Pages -> Entry]
    /\ pc \in {"idle", "map_range", "free_range"}
    /\ cursor \in 0..Cardinality(Pages) + Slots
    /\ rangeStart \in Pages /\ rangeEnd \in 0..Cardinality(Pages)
    /\ rangeRights \in SUBSET {"writable", "user"}
    /\ asked \in [Pages -> SUBSET {"writable", "user"}]
    /\ FA!TypeOK

\* PageDirectory::new (directory.rs 115-123): a zeroed directory.
Init ==
    /\ dirEntry = [t \in Tables |-> no_page]
    /\ pageEntry = [i \in Pages |-> no_page]
    /\ pc = "idle"
    /\ cursor = 0 /\ rangeStart = 0 /\ rangeEnd = 0 /\ rangeRights = {}
    /\ asked = [i \in Pages |-> {}]
    /\ FA!Init

Idle == pc = "idle"

\* Back to idle with the loop variables cleared.
Return ==
    /\ pc' = "idle"
    /\ cursor' = 0 /\ rangeStart' = 0 /\ rangeEnd' = 0 /\ rangeRights' = {}

\* mapMemoryRangeSafe(dir, start, end, flags) (61-71, 82-87) is called.
MapMemoryRange(s, e, R) ==
    /\ Idle
    /\ CallerChecksUnmapped => \A i \in PagesIn(s, e) : ~Present(i)
    /\ pc' = "map_range"
    /\ cursor' = s /\ rangeStart' = s /\ rangeEnd' = e /\ rangeRights' = R
    /\ UNCHANGED <<dirEntry, pageEntry, asked, faVars>>

\* One pass of the loop of mapMemoryRange (88-95): mapPage, and on None
\* mapMemoryRange returns Err(addr - 1).  Line 90 reads `None =>
\* Err(addr - 1),`, an arm of type Result beside an arm of type (), which
\* does not compile; the doc comment (74-80) and the Some arm's `return`
\* say the error is returned.  mapPage succeeded when it wrote the entry:
\* it only writes it with a frame just taken from the allocator.
MapRangeStep ==
    /\ pc = "map_range" /\ cursor < rangeEnd
    /\ mapPage(dirEntry, cursor, rangeRights)
    /\ IF pageEntry'[cursor] # pageEntry[cursor]
       THEN /\ cursor' = cursor + 1
            /\ UNCHANGED <<pc, rangeStart, rangeEnd, rangeRights>>
       ELSE Return

\* The loop is over: mapMemoryRange returns (97-102), Ok or Err(-1) by a
\* read of the directory that changes nothing.
MapRangeDone ==
    /\ pc = "map_range" /\ cursor >= rangeEnd
    /\ Return
    /\ UNCHANGED <<dirEntry, pageEntry, asked, faVars>>

\* freeMemoryRangeSafe(dir, start, end) (145-150, 153-157) is called.
FreeMemoryRange(s, e) ==
    /\ Idle
    /\ pc' = "free_range"
    /\ cursor' = s /\ rangeStart' = s /\ rangeEnd' = e
    /\ UNCHANGED <<rangeRights, dirEntry, pageEntry, asked, faVars>>

\* One pass of the loop of freeMemoryRange over foreach_entry_in: the
\* iterator yields cursor and moves on by nextAddress, then the body runs
\* freeMappedPage(cursor).
FreeRangeStep ==
    /\ pc = "free_range" /\ cursor < rangeEnd
    /\ freeMappedPage(cursor)
    /\ cursor' = EntryStep(dirEntry, cursor)
    /\ UNCHANGED <<dirEntry, pc, rangeStart, rangeEnd, rangeRights>>

FreeRangeDone ==
    /\ pc = "free_range" /\ cursor >= rangeEnd
    /\ Return
    /\ UNCHANGED <<dirEntry, pageEntry, asked, faVars>>

\* freeMappedPageSafe(dir, addr) (113-118).
FreeMappedPage(i) ==
    /\ Idle
    /\ freeMappedPage(i)
    /\ UNCHANGED <<dirEntry, pc, cursor, rangeStart, rangeEnd, rangeRights>>

\* getPhysicalAddress(addr, flags) (136-145): getPage, then the page's
\* address plus the offset, which changes nothing.
GetPhysicalAddress(i, R) ==
    /\ Idle
    /\ getPage(i, R)

\* setRangeFlags(start, end, flags) (mapped_memory.rs:150-165), over the
\* addresses foreach_entry_in yields.
SetRangeFlags(s, e, R) ==
    /\ Idle
    /\ LET set == {i \in EntriesFrom(dirEntry, s, e) : Present(i)} IN
         /\ pageEntry' = [i \in Pages |->
                            IF i \in set THEN SetEntryFlags(pageEntry[i], FlagsOf(R))
                            ELSE pageEntry[i]]
         /\ asked' = [i \in Pages |-> IF i \in set THEN R ELSE asked[i]]
    /\ UNCHANGED <<dirEntry, pc, cursor, rangeStart, rangeEnd, rangeRights,
                   faVars>>

\* The other kernel thread: every operation of the frame allocator.
OtherStep ==
    /\ \/ \E n \in 1..MaxReserve : FA!Reserve(Other, n)
       \/ \E n \in 1..MaxReserve : FA!Unreserve(Other, n)
       \/ FA!Fulfill(Other)
       \/ FA!AllocReserve(Other)
       \/ FA!AllocFulfill(Other)
       \/ \E f \in Frames : FA!FreeFrame(Other, f)
    /\ UNCHANGED vmVars

Ranges == {se \in Pages \X (1..Cardinality(Pages)) : se[1] < se[2]}

Next ==
    \/ \E se \in Ranges, R \in RightsChoices : MapMemoryRange(se[1], se[2], R)
    \/ MapRangeStep
    \/ MapRangeDone
    \/ \E se \in Ranges : FreeMemoryRange(se[1], se[2])
    \/ FreeRangeStep
    \/ FreeRangeDone
    \/ \E i \in Pages : FreeMappedPage(i)
    \/ \E i \in Pages, R \in RightsChoices : GetPhysicalAddress(i, R)
    \/ \E se \in Ranges, R \in RightsChoices : SetRangeFlags(se[1], se[2], R)
    \/ OtherStep

Spec == Init /\ [][Next]_vars

----------------------------------------------------------------------------
(* Properties                                                              *)

\* The frames of the present page entries.
MappedFrames == {pageEntry[i].addr : i \in {j \in Pages : Present(j)}}

\* Spec 5 (a directory owns its user pages through the frame allocator):
\* across mapMemoryRange, getPhysicalAddress, freeMappedPage and
\* freeMemoryRange, interleaved with another thread's allocFrame and
\* freeFrame, the frames VMThread holds are exactly those its present
\* entries map, and no two entries map the same frame: no frame is leaked
\* and none is freed while still mapped.
FramesAccounted ==
    /\ held[VMThread] = MappedFrames
    /\ \A i, j \in Pages :
         (i # j /\ Present(i) /\ Present(j)) => pageEntry[i].addr # pageEntry[j].addr

\* Spec 4.8, with the directory as a client of the allocator: bytesFree
\* plus outstanding reservations still equals the frames marked PAGE_FREE.
FramesBacked == FA!ReservationsBacked

\* The allocator's own properties (FrameAlloc), with the directory's
\* single-step allocFrame and freeFrame among the other thread's calls.
FulfillSucceeds == FA!FulfillSucceeds
NoFrameTwice == FA!NoFrameTwice

\* foreach_entry_in, which freeMemoryRange and setRangeFlags loop over,
\* yields every page of the range whose table is present in the current
\* directory, for every range: the table skips of nextAddress and the
\* iterator's step never jump over a mapped page.
EntryIterCoversRange ==
    \A se \in Ranges :
        {i \in PagesIn(se[1], se[2]) : HasTable(dirEntry, i)}
            \subseteq EntriesFrom(dirEntry, se[1], se[2])

\* Spec scenario 4: when freeMemoryRange returns, every page of the range
\* is absent, the tables skipped by nextAddress included.
FreeRangeClears ==
    [][(pc = "free_range" /\ pc' = "idle")
         => \A i \in PagesIn(rangeStart, rangeEnd) : ~Present(i)]_vars

\* Spec 4.9 and scenario 4: a page is user readable only if its mapping
\* asked for user access, and user writable only if it asked for both.
UserAccessAsAsked ==
    \A i \in Pages :
        /\ IsUserReadable(i) => "user" \in asked[i]
        /\ IsUserWritable(i) => asked[i] = {"writable", "user"}

\* The bit-range helpers of byte_utils.rs split the address the range
\* loops are at the way the arithmetic does: get_page_table and get_page
\* give its table and entry, and TABLE_ALIGN leaves it alone exactly when
\* it starts a table, the test nextAddress uses to skip an absent table
\* (vm/manager.rs:35).
AddressSplitExact ==
    cursor \in Pages =>
        /\ Split[cursor].table = BU!FieldOf(cursor, SlotBits, IndexBits)
        /\ Split[cursor].page = BU!FieldOf(cursor, 0, SlotBits)
        /\ (Split[cursor].aligned = cursor) <=> (cursor % Slots = 0)
=============================================================================
