--------------------------- MODULE BootLoaderSafety ---------------------------
(***************************************************************************)
(* What BootLoader should and does guarantee.  harm records the faults the *)
(* upgrade is not built for, so a property says for which faults it holds. *)
(***************************************************************************)
EXTENDS BootLoader

\* Every image fits in the pages upgrade_backup copies.
ImagesFitCopy == \A v \in Image : Size[v] <= CopyPages

\* Until a fault the design does not tolerate, the board runs (or is about to
\* ask for an upgrade from) a complete image: handle_upgrade never jumps to a
\* bank that mixes two images, whenever the power fails outside upgrade_backup.
BootsWholeImage == pc \in AppCalls /\ harm = {} => AppWhole

\* What Dual-BankBootloaderUpgradeDesignDocument.md asks for, "D -- Invalid -->
\* E[Abort Boot Old Firmware]" and "J -- Failed --> L[Rollback to Old Firmware]":
\* handle_upgrade starts a complete image, whatever became of the upgrade.
AlwaysBootsWholeImage == pc = "application" => AppWhole

\* While the type word says 2000 a complete backup exists, except while
\* upgrade_backup is making it; then the application is still complete.  So a
\* power cut during upgrade_run or during a recovery can be recovered from,
\* even when the host's pages are damaged or their number is wrong, provided
\* they stay in the application bank.
RecoverySource ==
    harm \subseteq {"line", "length"} /\ application_type = "2000" =>
        IF pc = "upgrade_backup" THEN AppWhole ELSE BackupWhole

\* handle_upgrade tests the flag before the type, so an interrupted upgrade is
\* recovered, and not started again over a half-written bank (which the backup
\* would then copy), only because the flag is down whenever the type says 2000.
InterruptedUpgradeRecovers ==
    "fmc" \notin harm /\ application_type = "2000" => isupgrade = "UPGRADESTOP"

\* The application bank is erased and programmed only under a type word that
\* says 2000 in flash, so that a power cut leads to a recovery; true whatever
\* goes wrong except a failing erase or program, whose result is ignored.
BankWrittenUnderMark ==
    [][(\E p \in 0..(BankPages - 1) : flash'[p] # flash[p]) /\ "fmc" \notin harm'
         => application_type = "2000"]_vars

\* A recovery ends with the image of the backup bank in the application bank,
\* however often the power failed during earlier attempts.
RecoveryRestores ==
    [][pc = "application_recover" /\ pc' = "mark_1000" /\ harm' \subseteq {"line", "length"}
         => \E v \in Image : Whole(BackupBank, v)' /\ Whole(AppBank, v)']_vars

-------------------------------------------------------------------------------
(* The inductive strengthening of the invariants above, by what each part  *)
(* depends on.                                                             *)

CopyLoops == {"upgrade_backup", "application_recover"}
HostLoop  == {"receive_page", "write_page"}

\* Whatever goes wrong, the loops stay inside their counts.
Loops ==
    /\ pc \in CopyLoops => i < CopyPages
    /\ pc \in HostLoop => i < total_block /\ host \in Image
    /\ pc \notin CopyLoops \cup HostLoop => i = 0
    /\ pc \in {"handle_upgrade", "upgrade_run", "receive_page", "application", "reset"}
         => fmc = "erase"

\* As long as the words can be written: which stages run under which words.
Stages ==
    /\ application_type = "2000" => isupgrade = "UPGRADESTOP"
    /\ pc \in AppCalls \cup {"stop_flag", "mark_2000", "reset"} => application_type # "2000"
    /\ pc \in CopyLoops \cup HostLoop \cup {"upgrade_run"} => application_type = "2000"
    /\ pc = "mark_2000" => isupgrade = "UPGRADESTOP"
    /\ pc = "mark_1000" => application_type = IF fmc = "erase" THEN "2000" ELSE "none"

\* With no fault but a bad transfer: one of the banks is complete.
Backing ==
    /\ isupgrade = "UPGRADESTART" => AppWhole
    /\ pc \in {"process_upgrade", "stop_flag", "mark_2000", "upgrade_backup"} => AppWhole
    /\ pc \in HostLoop => total_block <= BankPages
    /\ application_type = "2000" /\ pc # "upgrade_backup" => BackupWhole
    /\ pc = "upgrade_backup" =>
         \A b \in 0..(i - 1) : flash[BackupBank + b] = flash[AppBank + b]

\* With no fault at all: how far the application bank has got.
Progress ==
    /\ application_type # "2000" => AppWhole
    /\ pc \in HostLoop =>
         /\ total_block = Size[host]
         /\ \A b \in 0..(i - 1) : flash[AppBank + b] = Block(host, b)
    /\ pc = "write_page" => update_data = Block(host, i)
    /\ pc = "application_recover" =>
         \A b \in 0..(i - 1) : flash[AppBank + b] = flash[BackupBank + b]
    /\ pc = "mark_1000" => AppWhole

BadTransfer == {"line", "length"}

\* Implies the safety invariants; each part holds up to the faults it names.
Inductive ==
    /\ TypeOK
    /\ Loops
    /\ "fmc" \notin harm => Stages
    /\ harm \subseteq BadTransfer => Backing
    /\ harm = {} => Progress

-------------------------------------------------------------------------------
(* Refinement: the upgrade is atomic.  The image a board boots is in the   *)
(* backup bank while a power cut would lead to a recovery.                 *)

ImageIn(base) ==
    IF \E v \in Image : Whole(base, v)
      THEN CHOOSE v \in Image : Whole(base, v)
      ELSE NoImage

Atomic == INSTANCE AtomicUpdate WITH
    image    <- IF harm # {} THEN NoImage
                ELSE IF application_type = "2000" /\ pc # "upgrade_backup"
                       THEN ImageIn(BackupBank)
                       ELSE ImageIn(AppBank),
    updating <- application_type = "2000",
    offer    <- host

\* Until a fault it is not built for, the upgrade is all or nothing: a board
\* boots the image it had or the image offered, and changes from one to the
\* other in one step, the erase of the type word in handle_upgrade.
UpgradeIsAtomic == Atomic!Spec

-------------------------------------------------------------------------------
(* Liveness, when the power eventually stays on.                           *)

\* No power cut, except where one does what the program does anyway.
PowerStays == <>[][PowerCut => SystemReset \/ JumpToBoot]_vars

\* An upgrade that was requested runs to its end, a success or not: the flag
\* is down and the boot loader has started the application, given a host that
\* keeps sending.  A flag word that cannot be written may repeat it for ever.
RequestServed ==
    PowerStays => (isupgrade = "UPGRADESTART" ~>
                     (pc = "application" /\ isupgrade # "UPGRADESTART") \/ "fmc" \in harm)

\* However an upgrade or a recovery was interrupted, the board gets back to a
\* complete application.
BackInService ==
    PowerStays => []<>((pc \in AppCalls /\ AppWhole) \/ harm # {})
=============================================================================
