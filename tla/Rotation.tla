------------------------------ MODULE Rotation ------------------------------
(***************************************************************************)
(* One collected path whose file is rotated: what the collector's read     *)
(* position and the checkpoint's inode tracking make of it                 *)
(* (internal/collector/collector.go readFileIncremental and                *)
(* loadOffsetIfNeeded, internal/checkpoint/checkpoint.go Save and Load of  *)
(* agents/collector-agent).                                                *)
(*                                                                         *)
(* Each file that ever stands at the path is a content, numbered in the    *)
(* order they appear; line n of a content ends at offset n.  A rename puts *)
(* a new inode at the path, with a moment without any file in between; a   *)
(* truncation (copytruncate) keeps the inode.  Inodes are not reused.      *)
(* Batches are answered downstream in the order they were collected.       *)
(***************************************************************************)
EXTENDS Naturals, Sequences

CONSTANTS Replacements,      \* ways the path is rotated: "rename", "truncate"
          ScanSizes,         \* numbers of lines one scan may read
          RotatesWhenIdle,   \* rotations wait until everything read is answered and flushed
          PolledOften,       \* a new file is scanned before it outgrows the old position
          Unloaded,          \* no read position yet
          MaxContents, MaxLines, MaxUnanswered, MaxCrashes   \* bounds

ASSUME RotationAssumption ==
    /\ Replacements \subseteq {"rename", "truncate"}
    /\ RotatesWhenIdle \in BOOLEAN /\ PolledOften \in BOOLEAN
    /\ ScanSizes \subseteq Nat \ {0} /\ Unloaded \notin Nat
    /\ MaxContents \in Nat \ {0} /\ {MaxLines, MaxUnanswered, MaxCrashes} \subseteq Nat

VARIABLES
    content,     \* the content at the path
    inode,       \* its inode; 0 while there is no file
    inodes,      \* inodes used so far
    size,        \* lines it has
    position,    \* fileOffsets[path], or Unloaded
    positionOf,  \* history: the content this position was reached in
    unanswered,  \* batches handed on, oldest first
    saved, disk, \* the checkpoint in memory and on disk: inode and offset
    delivered,   \* history: <<content, line>> answered downstream
    crashes

rotationVars == <<content, inode, inodes, size, position, positionOf, unanswered,
          saved, disk, delivered, crashes>>
logger == <<content, inode, inodes, size>>

NoPosition == [inode |-> 0, off |-> 0]

RotationInit ==
    /\ content = 1 /\ inode = 1 /\ inodes = 1 /\ size = 0
    /\ position = Unloaded /\ positionOf = 0
    /\ unanswered = <<>>
    /\ saved = NoPosition /\ disk = NoPosition
    /\ delivered = {} /\ crashes = 0

Lesser(a, b) == IF a < b THEN a ELSE b

-----------------------------------------------------------------------------
\* The logging program.
Write ==
    /\ inode # 0 /\ size < MaxLines
    /\ (PolledOften /\ position # Unloaded /\ positionOf # content /\ position # 0) =>
          size + 1 < position
    /\ size' = size + 1
    /\ UNCHANGED <<content, inode, inodes, position, positionOf, unanswered,
                   saved, disk, delivered, crashes>>

Rotate(how) ==
    /\ inode # 0 /\ content < MaxContents
    /\ RotatesWhenIdle => unanswered = <<>> /\ disk = saved
    /\ content' = content + 1 /\ size' = 0
    /\ inode' = IF how = "rename" THEN 0 ELSE inode
    /\ UNCHANGED <<inodes, position, positionOf, unanswered, saved, disk, delivered, crashes>>

Recreate ==
    /\ inode = 0
    /\ inodes' = inodes + 1 /\ inode' = inodes'
    /\ UNCHANGED <<content, size, position, positionOf, unanswered,
                   saved, disk, delivered, crashes>>

-----------------------------------------------------------------------------
(***************************************************************************)
(* loadOffsetIfNeeded and FileStore.Load, before the file is opened.       *)
(***************************************************************************)
LoadedIgnoringInode(pos) == pos.off   \* mutant: no rotation check
LoadedOffset(pos) ==
    IF pos.inode # 0 /\ inode # 0 /\ inode # pos.inode THEN 0 ELSE pos.off

LoadPosition ==
    /\ position = Unloaded
    /\ position' = LoadedOffset(saved)
    /\ positionOf' = IF inode = 0 THEN 0 ELSE content
    /\ UNCHANGED <<logger, unanswered, saved, disk, delivered, crashes>>

(***************************************************************************)
(* readFileIncremental: a file shorter than the position is read from its  *)
(* start.  A scan that finds no line leaves the position as it was.        *)
(***************************************************************************)
Start == IF size < position THEN 0 ELSE position

ReadTo(n) == Lesser(Start + n, size)

Scan(n) ==
    /\ inode # 0 /\ position # Unloaded /\ Len(unanswered) < MaxUnanswered
    /\ Start < size
    /\ LET to == ReadTo(n)
       IN  /\ unanswered' = Append(unanswered, [content |-> content, from |-> Start + 1, to |-> to])
           /\ position' = to
           /\ positionOf' = content
    /\ UNCHANGED <<logger, saved, disk, delivered, crashes>>

(***************************************************************************)
(* The oldest batch is answered: FileStore.Save takes its offset for the   *)
(* file that stands at the path now, unless the last save saw another one. *)
(***************************************************************************)
SavedOffset(off) ==
    IF saved.inode # 0 /\ inode # 0 /\ saved.inode # inode THEN 0 ELSE off

Answer ==
    /\ unanswered # <<>>
    /\ LET b == Head(unanswered)
       IN  /\ saved' = [inode |-> inode, off |-> SavedOffset(b.to)]
           /\ delivered' = delivered \cup {<<b.content, n>> : n \in b.from .. b.to}
    /\ unanswered' = Tail(unanswered)
    /\ UNCHANGED <<logger, position, positionOf, disk, crashes>>

Flush ==
    /\ disk' = saved
    /\ UNCHANGED <<logger, position, positionOf, unanswered, saved, delivered, crashes>>

Crash ==
    /\ crashes < MaxCrashes
    /\ crashes' = crashes + 1
    /\ position' = Unloaded /\ positionOf' = 0
    /\ unanswered' = <<>>
    /\ saved' = disk
    /\ UNCHANGED <<logger, disk, delivered>>

RotationNext ==
    \/ Write
    \/ \E how \in Replacements : Rotate(how)
    \/ Recreate
    \/ LoadPosition
    \/ \E n \in ScanSizes : Scan(n)
    \/ Answer
    \/ Flush
    \/ Crash

RotationSpec == RotationInit /\ [][RotationNext]_rotationVars

-----------------------------------------------------------------------------
\* Every variable has its type.
RotationTypeOK ==
    /\ content \in 1 .. MaxContents /\ inodes \in Nat /\ inode \in 0 .. inodes
    /\ size \in 0 .. MaxLines
    /\ position \in 0 .. MaxLines \cup {Unloaded} /\ positionOf \in 0 .. content
    /\ Len(unanswered) <= MaxUnanswered
    /\ \A p \in {saved, disk} : p.inode \in 0 .. inodes /\ p.off \in 0 .. MaxLines
    /\ delivered \subseteq (1 .. content) \X (1 .. MaxLines)
    /\ crashes \in 0 .. MaxCrashes

(***************************************************************************)
(* The checkpoint tracks inodes "to detect log rotation"                   *)
(* (checkpoint.go:5): a checkpoint of the file that stands at the path     *)
(* covers only lines of this file that were delivered, unless it is beyond *)
(* the file's end, from where a scan would start over.                     *)
(***************************************************************************)
CheckpointOfThisFile ==
    disk.inode = inode /\ disk.off <= size =>
        \A n \in 1 .. disk.off : <<content, n>> \in delivered

(***************************************************************************)
(* A truncated or rotated file is read from its head (collector.go:362):   *)
(* every line of it before the read position was delivered or is on its    *)
(* way, over rotations and restarts in between.                            *)
(***************************************************************************)
NoLineSkipped ==
    positionOf = content /\ position # Unloaded =>
        \A n \in 1 .. position :
            \/ <<content, n>> \in delivered
            \/ \E i \in DOMAIN unanswered :
                  /\ unanswered[i].content = content
                  /\ n \in unanswered[i].from .. unanswered[i].to
=============================================================================
