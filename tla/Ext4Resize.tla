----------------------------- MODULE Ext4Resize -----------------------------
(***************************************************************************)
(* ext4_resize (proprietary/external/ext4_resize/main.c): at every boot, before  *)
(* the data partition is mounted, it grows the file system to the partition less   *)
(* a reserve, by running resize2fs and then e2fsck.  The power may fail at any      *)
(* time.  Sizes are in blocks, of which the first is a data block, and fewer than     *)
(* 2^32.  resize2fs and e2fsck are external: resize2fs rounds the size it is given    *)
(* as adjust_fs_size does, and takes the descriptor blocks it adds from the          *)
(* reserved ones.                                                            *)
(***************************************************************************)
EXTENDS Integers

CONSTANTS
    Partitions,        \* sizes of the data partition
    Images,            \* sizes of the file system it was flashed with
    BlocksPerGroup, InodeBlocks, DescPerBlock, ReservedGdt,
    ReserveBlocks,     \* RESERVE_SIZE
    Slack,             \* the 50 blocks a last group must have left
    BootBudget         \* a bound: how often the device is started

ASSUME ResizeAssumption ==
    /\ Partitions \subseteq Nat /\ Images \subseteq Nat \ {0}
    /\ BlocksPerGroup \in Nat \ {0} /\ DescPerBlock \in Nat \ {0}
    /\ {InodeBlocks, ReservedGdt, ReserveBlocks, Slack, BootBudget} \subseteq Nat

VARIABLES
    partition,
    fs,                \* the superblock: [blocks, reserved]
    stage,             \* of main: "off", "stats", "resize2fs", "e2fsck", "done"
    target,            \* stats.size, for the child processes
    boots,
    smooth             \* how many boots in a row have run to the end with no failure; -1 once
                       \* a step of this one has failed

resizeVars == <<partition, fs, stage, target, boots, smooth>>

TooSmall == 0
Beyond   == -1         \* a size no partition has

DivCeil(a, b) == (a + b - 1) \div b

GroupCount(n) == DivCeil(n, BlocksPerGroup)
DescBlocks(n) == DivCeil(GroupCount(n), DescPerBlock)

(* ext2fs_bg_has_super: the sparse superblocks.                                 *)
HasSuper(g) == g \in {0, 1} \/ \E b \in {3, 5, 7}, p \in 1..8 : g = b^p

Overhead(n, reserved) ==
    2 + InodeBlocks + IF HasSuper(GroupCount(n) - 1) THEN 1 + DescBlocks(n) + reserved ELSE 0

Rem(n) == n % BlocksPerGroup

(* Mutant: a last group of any size is kept.                                   *)
adjust_fs_size_Any(n, reserved) == n

(* A last group without room for its own tables is left out; nothing is left of the  *)
(* rest of the second round, whose last group is whole.                         *)
adjust_fs_size(n, reserved) ==
    IF \/ GroupCount(n) = 0
       \/ GroupCount(n) = 1 /\ Rem(n) # 0 /\ Rem(n) < Overhead(n, reserved)
    THEN TooSmall
    ELSE IF Rem(n) # 0 /\ Rem(n) < Overhead(n, reserved) + Slack THEN n - Rem(n) ELSE n

(* resize2fs leaves the same groups out, by its own computation.                   *)
Rounded(n, reserved) ==
    IF Rem(n) # 0 /\ Rem(n) < Overhead(n, reserved) + Slack THEN n - Rem(n) ELSE n

Grown(n) ==
    LET new == Rounded(n, fs.reserved)
        added == DescBlocks(new) - DescBlocks(fs.blocks)
    IN  [blocks |-> new, reserved |-> IF added > fs.reserved THEN 0 ELSE fs.reserved - added]

ResizeInit ==
    /\ partition \in Partitions /\ partition > ReserveBlocks
    /\ fs \in [blocks : {n \in Images : n <= partition}, reserved : {ReservedGdt}]
    /\ stage = "off" /\ target = 0 /\ boots = 0 /\ smooth = 0

-----------------------------------------------------------------------------
PowerOn ==
    /\ stage = "off" /\ boots < BootBudget
    /\ boots' = boots + 1 /\ stage' = "stats"
    /\ UNCHANGED <<partition, fs, target, smooth>>

(* Everything is lost but the partition.  smooth starts again.                    *)
PowerFails(superblock) ==
    /\ fs' = superblock
    /\ stage' = "off" /\ smooth' = 0
    /\ UNCHANGED <<partition, target, boots>>

(* The super block cannot be read, or the size is too small; the sizes are equal, or     *)
(* they are not.  An error of get_block_size is -1 as an unsigned number, which is not      *)
(* less than 0: main goes on with an enormous size.                               *)
get_resize_stats ==
    /\ stage = "stats"
    /\ LET size == adjust_fs_size(partition - ReserveBlocks, fs.reserved)
       IN  \/ /\ stage' = "done" /\ smooth' = 0 /\ UNCHANGED target
           \/ /\ size = TooSmall
              /\ stage' = "done" /\ UNCHANGED <<target, smooth>>
           \/ /\ size = fs.blocks
              /\ stage' = "done" /\ target' = size /\ smooth' = smooth + 1
           \/ /\ size \notin {TooSmall, fs.blocks}
              /\ stage' = "resize2fs" /\ target' = size /\ UNCHANGED smooth
           \/ stage' = "resize2fs" /\ target' = Beyond /\ smooth' = -1
    /\ UNCHANGED <<partition, fs, boots>>

(* The child grows the file system, refuses or cannot be run: main goes on.           *)
resize2fs ==
    /\ stage = "resize2fs"
    /\ stage' = "e2fsck"
    /\ \/ target # Beyond /\ fs' = Grown(target) /\ UNCHANGED smooth
       \/ UNCHANGED fs /\ smooth' = -1
    /\ UNCHANGED <<partition, target, boots>>

(* It repairs the journal, or fails: main returns 0 all the same.                   *)
e2fsck ==
    /\ stage = "e2fsck"
    /\ stage' = "done"
    /\ smooth' \in {smooth + 1, 0}
    /\ UNCHANGED <<partition, fs, target, boots>>

PowerOff ==
    /\ stage = "done"
    /\ stage' = "off"
    /\ UNCHANGED <<partition, fs, target, boots, smooth>>

(* While resize2fs runs the super block is the old one or the new one.               *)
PowerCut ==
    \/ stage \in {"stats", "resize2fs", "e2fsck"} /\ PowerFails(fs)
    \/ stage = "resize2fs" /\ target # Beyond /\ PowerFails(Grown(target))

ResizeNext == PowerOn \/ get_resize_stats \/ resize2fs \/ e2fsck \/ PowerOff \/ PowerCut

ResizeSpec == ResizeInit /\ [][ResizeNext]_resizeVars

-----------------------------------------------------------------------------
(* "adjust partition size to meet resizefs rule" (main.c:165): main and resize2fs agree  *)
(* on the size, so that after two boots without a failure there is nothing left to do --  *)
(* the second, because the reserved descriptor blocks the first took may leave room for    *)
(* the last group -- and the file system never reaches into the reserve.               *)
ResizeSettles ==
    /\ stage = "resize2fs" => smooth < 2
    /\ smooth > 0 => fs.blocks <= partition - ReserveBlocks
=============================================================================
