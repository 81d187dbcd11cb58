------------------------------ MODULE BiosDisk ------------------------------
(***************************************************************************)
(* The disk services of the BIOS (INT 13h and 19h in dos_bios.cc) on the   *)
(* images of Emu88Emulator.mm.                                             *)
(*                                                                         *)
(* An image, and memory, is a sequence of half sectors: an image need not  *)
(* end with a whole sector.  A call has the drive, the place (cylinder,    *)
(* head and sector as the registers give them, or a sector of the disk),   *)
(* the number of sectors and where the buffer begins.  ES:BX + 512n does   *)
(* not wrap, and a disk address packet is not in the buffer it describes.  *)
(***************************************************************************)
EXTENDS Integers, Sequences, FiniteSets

CONSTANTS
    Floppies, HardDisks, CdRoms,    \* drives: below 80h, below E0h, and from there on
    Images,         \* for each drive the images it may have, <<>> for none
    FloppyGeometry, \* what image sizes stand for
    OtherFloppy,    \* and the others (1.44 MB)
    HdHeads, HdSpt, \* 16 and 63
    MaxCyls,        \* 1024
    CylByte,        \* cylinders that fit the low register (256)
    Signed,         \* labels of boot sectors that end with 55 AA
    Places,         \* what calls ask for: [ch, clhi, sector, dh]
    Lbas, Counts, Addresses,
    MemoryCells,
    MaxCalls        \* bound

\* What the registers of a call can name.
Geometries == [heads : 1 .. 256, cyls : 1 .. 4 * CylByte, spt : Nat \ {0}]

ASSUME BiosDiskAssumption ==
    /\ CylByte \in Nat \ {0}
    /\ HdHeads \in 1 .. 256 /\ HdSpt \in Nat \ {0} /\ MaxCyls \in 1 .. 4 * CylByte
    /\ OtherFloppy \in Geometries
    /\ \A size \in DOMAIN FloppyGeometry : FloppyGeometry[size] \in Geometries
    /\ CdRoms \cap (Floppies \cup HardDisks) = {}
    /\ \A d \in Floppies \cup HardDisks \cup CdRoms : \A image \in Images[d] :
          Len(image) \in Nat /\ DOMAIN image = 1 .. Len(image)
    /\ Places \subseteq [ch : Nat, clhi : Nat, sector : Nat, dh : Nat]
    /\ Counts \subseteq Nat /\ Addresses \subseteq Nat /\ Lbas \subseteq Nat
    /\ MemoryCells \in Nat

VARIABLES
    disk,           \* dos_io_qxdos::disks: the images
    cells,          \* memory
    host,           \* what has become of the program
    regs,           \* AH, the sectors reported (AL or the packet's count), CF
    call,           \* history: the last call
    calls

diskVars == <<disk, cells, host, regs, call, calls>>

DriveSet == Floppies \cup HardDisks \cup CdRoms
NoCall == [op |-> "none"]
Returned(ah, n, cf) == [ah |-> ah, n |-> n, cf |-> cf]

disk_present(d) == disk[d] # <<>>
Whole(d) == Len(disk[d]) \div 2

get_geometry(d) ==
    LET cyls == Whole(d) \div (HdHeads * HdSpt)
    IN  IF ~ disk_present(d) \/ d \in CdRoms THEN [heads |-> 0, cyls |-> 0, spt |-> 0]
        ELSE IF d \in Floppies
        THEN IF Len(disk[d]) \in DOMAIN FloppyGeometry THEN FloppyGeometry[Len(disk[d])]
             ELSE OtherFloppy
        ELSE [heads |-> HdHeads, spt |-> HdSpt,
              cyls |-> IF cyls < 1 THEN 1 ELSE IF cyls > MaxCyls THEN MaxCyls ELSE cyls]

\* Bug: any head will do.
ChecksSector(g, p) ==
    /\ p.sector \in 1 .. g.spt
    /\ p.ch + CylByte * p.clhi < g.cyls

ChecksPlace(g, p) ==
    /\ p.sector \in 1 .. g.spt
    /\ p.dh < g.heads
    /\ p.ch + CylByte * p.clhi < g.cyls

LbaOf(g, p) == ((p.ch + CylByte * p.clhi) * g.heads + p.dh) * g.spt + (p.sector - 1)

-----------------------------------------------------------------------------
(* Transfers. *)

\* The sectors of count from lba on that are whole: the loop stops at the first
\* that is not.
Moved(d, lba, count) == IF Whole(d) <= lba THEN 0
                        ELSE IF Whole(d) - lba < count THEN Whole(d) - lba ELSE count

\* Cells of `to' from at on are those of `from' from `of' on.
Copied(to, at, from, of, n) ==
    [i \in DOMAIN to |-> IF i - at \in 1 .. n THEN from[i - at + of] ELSE to[i]]

Reads(d, lba, count, buf) ==
    LET n == Moved(d, lba, count)
    IN  /\ cells' = Copied(cells, 2 * buf, disk[d], 2 * lba, 2 * n)
        /\ regs' = Returned(IF n = count THEN 0 ELSE 4, n, n # count)
        /\ UNCHANGED <<disk, host>>

\* disk_write writes what there is of a last sector that is not whole and then
\* reports it as not written.  The image of a CD is mapped to be read only.
Writes(d, lba, count, buf) ==
    LET n    == Moved(d, lba, count)
        rest == IF n < count /\ Len(disk[d]) = 2 * (lba + n) + 1 THEN 1 ELSE 0
    IN  /\ disk' = [disk EXCEPT ![d] = Copied(@, 2 * lba, cells, 2 * buf, 2 * n + rest)]
        /\ host' = IF d \in CdRoms /\ 2 * n + rest > 0 THEN "crashed" ELSE host
        /\ regs' = Returned(IF n = count THEN 0 ELSE 4, n, n # count)
        /\ UNCHANGED cells

Fails(ah, n) == regs' = Returned(ah, n, TRUE) /\ UNCHANGED <<disk, cells, host>>

Called(op, d, place, count, buf) ==
    /\ host = "runs" /\ calls < MaxCalls /\ calls' = calls + 1
    /\ buf * 2 + count * 2 <= MemoryCells
    /\ call' = [op |-> op, drive |-> d, place |-> place, count |-> count, buf |-> buf]

\* AH=02h and 03h.
ReadOrWriteSectors(op, d, p, count, buf) ==
    LET g == get_geometry(d)
    IN  /\ Called(op, d, p, count, buf)
        /\ \/ g.spt = 0 /\ Fails(1, 0)
           \/ g.spt # 0 /\ ~ ChecksPlace(g, p) /\ Fails(4, 0)
           \/ /\ g.spt # 0 /\ ChecksPlace(g, p)
              /\ IF op = "read" THEN Reads(d, LbaOf(g, p), count, buf)
                 ELSE Writes(d, LbaOf(g, p), count, buf)

\* AH=42h and 43h.
ExtendedReadOrWrite(op, d, lba, count, buf) ==
    /\ Called(op, d, [lba |-> lba], count, buf)
    /\ \/ ~ disk_present(d) /\ Fails(1, regs.n)
       \/ disk_present(d) /\ op = "read" /\ Reads(d, lba, count, buf)
       \/ disk_present(d) /\ op = "write" /\ Writes(d, lba, count, buf)

-----------------------------------------------------------------------------
(* What is said of drives. *)

Answers(what, reply) ==
    /\ host = "runs" /\ calls < MaxCalls /\ calls' = calls + 1
    /\ regs' = reply /\ call' = what
    /\ UNCHANGED <<disk, cells, host>>

\* AH=08h: the last cylinder, head and sector, as calls give them.
GetDriveParameters(d) ==
    LET g == get_geometry(d)
        last == g.cyls - 1
    IN  \/ ~ disk_present(d) /\ Answers(NoCall, Returned(7, 0, TRUE))
        \/ disk_present(d)
           /\ Answers([op |-> "parameters", drive |-> d],
                      [ah |-> 0, n |-> 0, cf |-> FALSE,
                       last |-> [ch |-> last % CylByte, clhi |-> (last \div CylByte) % 4,
                                 sector |-> g.spt, dh |-> (g.heads - 1) % 256]])

\* AH=15h and 48h: the size in sectors.  (CDs are reported in sectors of 512
\* bytes, dos_io's own: this host does not override disk_sector_size.)
GetDiskType(d) ==
    \/ ~ disk_present(d) /\ Answers(NoCall, Returned(0, 0, FALSE))
    \/ /\ disk_present(d)
       /\ Answers(NoCall,
                  IF d \in Floppies THEN Returned(1, 0, FALSE) ELSE Returned(3, Whole(d), FALSE))

GetExtendedParameters(d) ==
    \/ ~ disk_present(d) /\ Answers(NoCall, Returned(1, 0, TRUE))
    \/ disk_present(d) /\ Answers(NoCall, Returned(0, Whole(d), FALSE))

\* INT 19h: the first of drives A and C with a boot sector; its number is in DX.
\* With none the processor halts.
BootsFrom(order) ==
    LET boots(d) == Whole(d) > 0 /\ disk[d][2] \in Signed
        first == {i \in DOMAIN order : boots(order[i]) /\ \A j \in 1 .. i - 1 : ~ boots(order[j])}
    IN  /\ host = "runs" /\ calls < MaxCalls /\ calls' = calls + 1 /\ call' = NoCall
        /\ \/ /\ first = {} /\ host' = "halted" /\ UNCHANGED <<cells, regs>>
           \/ \E i \in first :
                /\ cells' = Copied(cells, 0, disk[order[i]], 0, 2)
                /\ regs' = [ah |-> regs.ah, n |-> 0, cf |-> regs.cf, boot |-> order[i]]
                /\ UNCHANGED host
        /\ UNCHANGED disk

\* load_disk_path, load_iso_path, free_disk: the user changes an image.
Mount(d, image) ==
    /\ host = "runs" /\ calls < MaxCalls /\ calls' = calls + 1 /\ call' = NoCall
    /\ disk' = [disk EXCEPT ![d] = image]
    /\ UNCHANGED <<cells, host, regs>>

DiskInit ==
    /\ disk \in {f \in [DriveSet -> UNION {Images[d] : d \in DriveSet}] :
                    \A d \in DriveSet : f[d] \in Images[d]}
    /\ cells = [i \in 1 .. MemoryCells |-> <<"memory", i>>]
    /\ host = "runs" /\ regs = Returned(0, 0, FALSE)
    /\ call = NoCall /\ calls = 0

DiskNext ==
    \/ \E op \in {"read", "write"} : \E d \in DriveSet : \E count \in Counts : \E buf \in Addresses :
          \/ \E p \in Places : ReadOrWriteSectors(op, d, p, count, buf)
          \/ \E lba \in Lbas : ExtendedReadOrWrite(op, d, lba, count, buf)
    \/ \E d \in DriveSet :
          \/ GetDriveParameters(d) \/ GetDiskType(d) \/ GetExtendedParameters(d)
          \/ \E image \in Images[d] : Mount(d, image)
    \/ \E a \in Floppies, c \in HardDisks : BootsFrom(<<a, c>>)

-----------------------------------------------------------------------------
(* Properties.                                                             *)

\* The sector a place names: how many come before it on the disk.
Triples(g) == (0 .. g.cyls - 1) \X (0 .. g.heads - 1) \X (1 .. g.spt)
Precedes(s, t) == \/ s[1] < t[1]
                  \/ s[1] = t[1] /\ s[2] < t[2]
                  \/ s[1] = t[1] /\ s[2] = t[2] /\ s[3] < t[3]
Sector(g, place) ==
    IF "lba" \in DOMAIN place THEN place.lba
    ELSE LET t == <<place.ch + CylByte * place.clhi, place.dh, place.sector>>
         IN  IF t \notin Triples(g) THEN -1
             ELSE Cardinality({s \in Triples(g) : Precedes(s, t)})

\* A call moves the sectors it reports, between the place and the buffer it was
\* given, and changes nothing else: no other sector of any disk, no other cell of
\* memory.  The sectors it does not report are those the disk does not have, or
\* a place that is none; no place is taken for another.  (What follows the last
\* whole sector of an image may change when its sector is written.)
Exact(c, reply) ==
    LET d == c.drive
        s == Sector(get_geometry(d), c.place)
        n == reply.n
        moved == {s + i : i \in 0 .. n - 1}
        InSector(k) == (k - 1) \div 2
    IN  \/ s = -1 /\ reply.cf /\ UNCHANGED <<disk, cells>>
        \/ /\ s # -1
           /\ reply.cf = (n # c.count)
           /\ n # c.count => s + n >= Whole(d)
           /\ moved \subseteq 0 .. Whole(d) - 1
           /\ \A e \in DriveSet :
                /\ Len(disk'[e]) = Len(disk[e])
                /\ \A k \in DOMAIN disk[e] :
                     disk'[e][k] =
                       IF c.op = "write" /\ e = d /\ InSector(k) \in moved
                       THEN cells[k - 2 * s + 2 * c.buf]
                       ELSE IF c.op = "write" /\ e = d /\ InSector(k) = Whole(d)
                       THEN disk'[e][k]
                       ELSE disk[e][k]
           /\ \A k \in DOMAIN cells :
                cells'[k] = IF c.op = "read" /\ InSector(k) - c.buf \in 0 .. n - 1
                            THEN disk[d][k - 2 * c.buf + 2 * s]
                            ELSE cells[k]

\* And the place that drive parameters name last is the last there is.
TransfersAreExact ==
    [][calls' # calls =>
         /\ call'.op \in {"read", "write"} =>
              IF disk[call'.drive] = <<>> THEN regs'.cf /\ UNCHANGED <<disk, cells>>
              ELSE IF call'.drive \in CdRoms /\ "ch" \in DOMAIN call'.place
              THEN regs'.cf /\ UNCHANGED <<disk, cells>>
              ELSE Exact(call', regs')
         /\ call'.op = "parameters" /\ call'.drive \notin CdRoms =>
              LET g == get_geometry(call'.drive)
              IN  Sector(g, regs'.last) = Cardinality(Triples(g)) - 1]_diskVars
=============================================================================
