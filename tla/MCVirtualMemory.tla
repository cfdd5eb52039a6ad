-------------------------- MODULE MCVirtualMemory --------------------------
EXTENDS VirtualMemory

\* Two tables of two entries: ranges cross a table boundary, and the free
\* loop meets both a table that exists and one that does not.
TwoTables == 2
TwoSlots == 2

\* Three frames for four pages, so that a range runs out of frames.
ThreeFrames == 3

\* The other thread reserves one or two frames at a time.
TwoReserve == 2

\* The bit numbers of virtual_memory.rs:52-57.
CodePresentBit == 0
CodeWritableBit == 0
CodeUserAccessBit == 0
CodeCopyOnWriteBit == 9
CodeFreeBit == 10

\* Spec scenario 4 maps with WRITABLE and with WRITABLE | USER.
ScenarioRights == {{"writable"}, {"writable", "user"}}
UserRights == {{"writable", "user"}}

=============================================================================
