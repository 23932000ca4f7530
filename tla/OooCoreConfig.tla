---------------------------- MODULE OooCoreConfig ----------------------------
(***************************************************************************)
(* The geometry of the core (core/OooCoreConfig.scala): every width, depth  *)
(* and counter modulus the components share, with what the source requires  *)
(* of it.  The source fixes the widths at three and the depths at powers of *)
(* two; only what the models depend on is assumed.                          *)
(***************************************************************************)
EXTENDS Integers

CONSTANTS
    ArchRegs,       \* architectural registers, register 0 reads as zero
    PhysicalRegs,   \* physical registers, p0 is the constant zero
    RobEntries,     \* reorder buffer slots
    RenameWidth,    \* lanes of one rename group
    CommitWidth,    \* lanes of one retirement group
    RecoveryEpochs, \* modulus of the recovery epoch
    MemoryEpochs    \* modulus of the memory epoch

ASSUME CoreConfigAssumption ==
    /\ {ArchRegs, PhysicalRegs, RobEntries, RenameWidth, CommitWidth,
        RecoveryEpochs, MemoryEpochs} \subseteq Nat \ {0}
    /\ PhysicalRegs > ArchRegs
    /\ CommitWidth <= RenameWidth
    /\ RobEntries >= RenameWidth
    /\ RecoveryEpochs > 1
    /\ MemoryEpochs > RobEntries

Arch == 0 .. ArchRegs - 1
Phys == 0 .. PhysicalRegs - 1
=============================================================================
