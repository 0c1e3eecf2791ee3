----------------------------- MODULE SfsBlocks ------------------------------
(***************************************************************************)
(* The blocks of one file of the simple file system (kern/fs/sfs):          *)
(* allocation, the map from positions to blocks, truncation, reading and    *)
(* writing.  An operator takes the state of the mounted file system with    *)
(* one inode in memory, and returns that state after the call:              *)
(*    free, unused, super_dirty   the bitmap and the super block in memory  *)
(*    block                       what the data blocks hold on the disk     *)
(*    din, dirty                  the inode in memory                       *)
(*    ino, data, ret              block found, bytes read, outcome          *)
(* An outcome in PANICS stops the machine.  The disk itself never fails:    *)
(* the driver panics rather than return an error (fs/devs/dev_disk0.c).     *)
(***************************************************************************)
EXTENDS Naturals, Sequences

CONSTANTS
    BLOCKS,                \* the numbers of the data blocks
    SFS_BLKSIZE, SFS_NDIRECT, SFS_BLK_NENTRY, SFS_MAX_FILE_SIZE,
    STALE                  \* whatever a free block holds

ASSUME SfsAssumption ==
    /\ BLOCKS \subseteq Nat \ {0}
    /\ {SFS_BLKSIZE, SFS_NDIRECT, SFS_BLK_NENTRY, SFS_MAX_FILE_SIZE} \subseteq Nat \ {0}
    /\ SFS_BLK_NENTRY <= SFS_BLKSIZE
    /\ STALE \notin Nat

\* The cells of a block, and the slots of direct.
Cells == 0 .. (SFS_BLKSIZE - 1)
Slots == 0 .. (SFS_NDIRECT - 1)

PANICS == {"bmap_load", "block_free", "index", "truncfile", "inuse"}

EmptyFile == [size |-> 0, blocks |-> 0, direct |-> [i \in Slots |-> 0], indirect |-> 0]

-----------------------------------------------------------------------------
\* Op on the state after a call that went well.
Then(t, Op(_)) == IF t.ret = "ok" THEN Op(t) ELSE t

\* Op on the numbers lo, lo + 1, ... hi - 1, as long as all goes well.
Each(s, lo, hi, Op(_, _)) ==
    LET after[i \in lo .. hi] ==
            IF i = lo THEN s
            ELSE LET next(t) == Op(t, i - 1) IN Then(after[i - 1], next)
    IN  after[hi]

\* Block ino is taken out of the bitmap.
TakeBlock(s, ino) ==
    [s EXCEPT !.free = @ \ {ino}, !.unused = @ - 1, !.super_dirty = TRUE, !.ino = ino]

LowestFree(s) == CHOOSE b \in s.free : \A c \in s.free : b <= c

\* Fault: the block is handed out as it is.
AllocUncleared(s) ==
    IF s.free = {} THEN [s EXCEPT !.ret = "nomem"] ELSE TakeBlock(s, LowestFree(s))

\* The lowest free block, cleared.
sfs_block_alloc(s) ==
    LET clear(t) == [t EXCEPT !.block[t.ino] = [c \in Cells |-> 0]]
    IN  IF s.free = {} THEN [s EXCEPT !.ret = "nomem"] ELSE clear(TakeBlock(s, LowestFree(s)))

sfs_block_free(s, ino) ==
    IF ino = 0 THEN s
    ELSE IF ino \in s.free
    THEN [s EXCEPT !.ret = "block_free"]
    ELSE [s EXCEPT !.free = @ \cup {ino}, !.unused = @ + 1, !.super_dirty = TRUE,
                   !.block[ino] = [c \in Cells |-> STALE]]

-----------------------------------------------------------------------------
\* Fault: the indirect block got for an entry stays allocated when the entry's
\* own block cannot be had.
KeepsIndirect(s, ent, b) == b

\* failed_cleanup: an indirect block got for this entry is given back.
Cleanup(s, ent, b) ==
    IF ent # s.din.indirect THEN [sfs_block_free(b, ent) EXCEPT !.ret = b.ret] ELSE b

\* A block for entry index of the indirect block ent; in a, ent may just have been
\* got.
FillEntry(s, a, ent, index) ==
    LET fill(b) == IF b.ret # "ok" THEN Cleanup(s, ent, b)
                   ELSE [b EXCEPT !.block[ent][index] = b.ino,
                                  !.din.indirect = ent,
                                  !.dirty = @ \/ ent # s.din.indirect]
    IN  fill(sfs_block_alloc(a))

\* The entry of an indirect block, filled (and the indirect block got) if create.
sfs_bmap_get_sub(s, index, create) ==
    LET have    == s.din.indirect # 0
        entry   == IF have THEN s.block[s.din.indirect][index] ELSE 0
        fill(a) == FillEntry(s, a, a.ino, index)
    IN  IF entry # 0 \/ ~create THEN [s EXCEPT !.ino = entry]
        ELSE Then(IF have THEN [s EXCEPT !.ino = s.din.indirect] ELSE sfs_block_alloc(s), fill)

\* The block of the file at index, got if there is none and create.
sfs_bmap_get(s, index, create) ==
    LET direct(b) == [b EXCEPT !.din.direct[index] = b.ino, !.dirty = TRUE]
        used(t)   == IF t.ino \in t.free THEN [t EXCEPT !.ret = "inuse"] ELSE t
    IN  Then(IF index >= SFS_NDIRECT
             THEN IF index - SFS_NDIRECT < SFS_BLK_NENTRY
                  THEN sfs_bmap_get_sub(s, index - SFS_NDIRECT, create)
                  ELSE [s EXCEPT !.ret = "index"]
             ELSE IF s.din.direct[index] # 0 \/ ~create
             THEN [s EXCEPT !.ino = s.din.direct[index]]
             ELSE Then(sfs_block_alloc(s), direct), used)

\* One block past the end may be asked for: the file then grows by it.
sfs_bmap_load(s, index) ==
    LET create   == index = s.din.blocks
        found(t) == IF t.ino = 0 THEN [t EXCEPT !.ret = "inuse"]
                    ELSE [t EXCEPT !.din.blocks = IF create THEN @ + 1 ELSE @]
    IN  IF index > s.din.blocks
        THEN [s EXCEPT !.ret = "bmap_load"]
        ELSE Then(sfs_bmap_get(s, index, create), found)

\* sfs_bmap_truncate with sfs_bmap_free: the last block of the file is freed.
\* The indirect block itself stays.
sfs_bmap_truncate(s) ==
    LET index == s.din.blocks - 1
        entry == index - SFS_NDIRECT
        t     == IF index < SFS_NDIRECT
                 THEN [sfs_block_free(s, s.din.direct[index]) EXCEPT !.din.direct[index] = 0]
                 ELSE [sfs_block_free(s, s.block[s.din.indirect][entry])
                          EXCEPT !.block[s.din.indirect][entry] = 0]
    IN  IF index >= SFS_NDIRECT /\ s.din.indirect \in s.free
        THEN [s EXCEPT !.ret = "inuse"]
        ELSE [t EXCEPT !.din.blocks = index, !.dirty = TRUE]

-----------------------------------------------------------------------------
RoundUp(n) == (n + SFS_BLKSIZE - 1) \div SFS_BLKSIZE

\* The file gets len bytes: blocks are added or freed one by one at its end.
sfs_truncfile(s, len) ==
    LET tblks        == RoundUp(len)
        shrink(t, i) == sfs_bmap_truncate(t)
        resize(t)    == [t EXCEPT !.din.size = len, !.dirty = TRUE]
    IN  IF s.din.size = len
        THEN IF tblks = s.din.blocks THEN s ELSE [s EXCEPT !.ret = "truncfile"]
        ELSE Then(IF s.din.blocks < tblks
                  THEN Each(s, s.din.blocks, tblks, sfs_bmap_load)
                  ELSE Each(s, tblks, s.din.blocks, shrink), resize)

Least(a, b) == IF a < b THEN a ELSE b
Greatest(a, b) == IF a < b THEN b ELSE a

\* The bytes lo .. hi - 1 of the file, all in block blkno, are written from buf,
\* the first byte of which goes to offset, or are appended to data.
Transfer(s, blkno, lo, hi, buf, offset, write) ==
    LET at == blkno * SFS_BLKSIZE
    IN  IF write
        THEN [s EXCEPT !.block[s.ino] =
                 [c \in Cells |-> IF at + c \in lo .. (hi - 1) THEN buf[at + c - offset + 1] ELSE @[c]],
                       !.data = SubSeq(buf, 1, hi - offset)]
        ELSE [s EXCEPT !.data = @ \o [i \in 1 .. (hi - lo) |-> s.block[s.ino][lo - at + i - 1]]]

\* Fault: a read goes on behind the end of the file, to the end of its last block.
EndPosInBlock(s, offset, len, write) ==
    LET endpos == Least(offset + len, SFS_MAX_FILE_SIZE)
    IN  IF write THEN endpos ELSE Least(endpos, s.din.blocks * SFS_BLKSIZE)

\* Where a transfer of len bytes ends: in the file, for a read.
EndPos(s, offset, len, write) ==
    LET endpos == Least(offset + len, SFS_MAX_FILE_SIZE)
    IN  IF write THEN endpos ELSE Least(endpos, s.din.size)

\* sfs_io_nolock: block by block, the first and the last perhaps in part.  What
\* an error cuts short has been transferred up to there.
sfs_io(s, buf, offset, len, write) ==
    LET endpos == EndPos(s, offset, len, write)
        step(t, blkno) ==
            LET transfer(l) == Transfer(l, blkno, Greatest(offset, blkno * SFS_BLKSIZE),
                                        Least(endpos, (blkno + 1) * SFS_BLKSIZE), buf, offset, write)
            IN  Then(sfs_bmap_load(t, blkno), transfer)
        grow(e) == IF offset + Len(e.data) > e.din.size
                   THEN [e EXCEPT !.din.size = offset + Len(e.data), !.dirty = TRUE] ELSE e
    IN  IF offset >= SFS_MAX_FILE_SIZE THEN [s EXCEPT !.ret = "invalid"]
        ELSE IF offset >= endpos THEN s
        ELSE grow(Each(s, offset \div SFS_BLKSIZE, RoundUp(endpos), step))

-----------------------------------------------------------------------------
\* What is in a file of inode din, by the blocks it names; 0 where it has none.
BlockAt(block, din, index) ==
    IF index < SFS_NDIRECT THEN din.direct[index]
    ELSE IF din.indirect = 0 THEN 0 ELSE block[din.indirect][index - SFS_NDIRECT]

ByteAt(block, din, pos) ==
    LET b == BlockAt(block, din, pos \div SFS_BLKSIZE)
    IN  IF b = 0 THEN 0 ELSE block[b][pos % SFS_BLKSIZE]

Contents(block, din) == [i \in 1 .. din.size |-> ByteAt(block, din, i - 1)]

\* The places that name blocks of such a file: its blocks and, behind them, the
\* indirect block.
INDIRECT == SFS_NDIRECT + SFS_BLK_NENTRY

Places == 0 .. INDIRECT

Names(block, din, place) == IF place = INDIRECT THEN din.indirect ELSE BlockAt(block, din, place)
=============================================================================
