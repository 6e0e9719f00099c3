---------------------------- MODULE MCBootMemory ----------------------------
(* Device trees for TLC.  A page is two units.  RAM is 24 pages, one short *)
(* of the end of the kernel's gigabyte, where there is a device; the bss   *)
(* section is long enough for a large page.  The device tree blob and the  *)
(* firmware's regions are not always whole pages.                          *)
EXTENDS BootMemory

MCRegion(b, s) == [base |-> b, size |-> s]
Section(b, s, f) == [base |-> b, size |-> s, flags |-> f]
MCSections == <<Section(52, 2, {"R", "X"}), Section(54, 1, {"R"}), Section(56, 15, {"R", "W"})>>

Ram == MCRegion(50, 48)
RamBeyondGigabyte == MCRegion(50, 60)
Firmware ==
    {MCRegion(50, 1), MCRegion(51, 1), MCRegion(73, 3), MCRegion(79, 1), MCRegion(80, 2),
     MCRegion(88, 1), MCRegion(94, 3), MCRegion(75, 16)}
Blobs == {MCRegion(71, 2), MCRegion(75, 2), MCRegion(97, 1)}
Uart == MCRegion(98, 1)
InPageOfUart == MCRegion(99, 1)
Plic == MCRegion(8, 12)
NoSize == MCRegion(0, 0)

Trees ==
    [ram : {Ram}, dtb : Blobs, reservations : {<<>>} \cup {<<r>> : r \in Firmware},
     nodes : {<<Uart>>} \cup {<<Uart, r, s>> : r, s \in Firmware}]
    \cup [ram : {Ram}, dtb : Blobs, reservations : {<<>>},
          nodes : {<<Plic, NoSize>>, <<Plic, Uart>>, <<Uart, InPageOfUart>>}]
    \cup [ram : {RamBeyondGigabyte}, dtb : {MCRegion(75, 2), MCRegion(108, 2)},
          reservations : {<<>>}, nodes : {<<Plic>>}]
=============================================================================
