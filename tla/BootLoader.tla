------------------------------ MODULE BootLoader ------------------------------
(***************************************************************************)
(* The dual-bank firmware upgrade: upgrade/boot.c, the flash helpers of    *)
(* common/src/systick.c it calls, and the part of the application that     *)
(* requests an upgrade (dataprocess/process.c, primary/main.c).            *)
(*                                                                         *)
(* Flash is a row of 2 * BankPages pages: the application bank followed by *)
(* the backup bank, plus two words on pages of their own, the upgrade flag *)
(* and the application type.  A page is erased and then programmed, so the *)
(* power can fail with the page holding nothing usable.  Everything else   *)
(* is RAM and is lost when the power fails.                                *)
(***************************************************************************)
EXTENDS Naturals

CONSTANTS
    Image,      \* the firmware images in play
    NoImage,    \* not an image
    Size,       \* Size[v]: pages image v occupies
    BankPages,  \* pages of a bank: 112 in the flash map
    CopyPages,  \* pages a backup or a recovery copies: current_block_number, 25
    HostPages,  \* bound: the largest total_block a host announces
    Faults      \* the sets of faults one behaviour may suffer

(* "cut": the power fails while upgrade_backup runs; "fmc": an erase or a  *)
(* program fails; "malloc": no memory for a page buffer; "line": a page    *)
(* arrives damaged; "length": the host announces another number of blocks  *)
(* than its image has; "overrun": it announces more than a bank holds.     *)
FaultKind == {"cut", "fmc", "malloc", "line", "length", "overrun"}

ASSUME ImageAssumption == Image # {} /\ NoImage \notin Image
ASSUME PagesAssumption ==
    /\ BankPages \in Nat \ {0}
    /\ CopyPages \in 1..BankPages
    /\ HostPages \in 0..(2 * BankPages)
    /\ Size \in [Image -> 1..BankPages]
ASSUME FaultAssumption == Faults \subseteq SUBSET FaultKind

Page == 0..(2 * BankPages - 1)

\* Page b of image v; and a page that is no page of an image, because it is
\* erased, half programmed, or was programmed with damaged bytes.
Block(v, b) == [img |-> v, blk |-> b]
Garbage     == Block(NoImage, 0)
Content     == {Block(v, b) : v \in Image, b \in Page} \cup {Garbage}

AppBank    == 0
BackupBank == BankPages

\* The flag and type words; "none" is an erased or half-programmed word.
FlagValue == {"UPGRADESTART", "UPGRADESTOP", "none"}
TypeValue == {"1000", "2000", "none"}

VARIABLES
    flash,              \* [Page -> Content]
    isupgrade,          \* the word at MUPGRADE_FLAG_ADDRESS
    application_type,   \* the word at MUPGRADE_APPLICATION_TYPE_ADDRESS
    pc,                 \* the call that runs
    fmc,                \* the write in progress: its erase or its program is next
    i,                  \* the block index of the running loop
    total_block,        \* blocks the host announced
    host,               \* the image the host is sending
    update_data,        \* the page buffer of upgrade_run
    harm                \* history: the faults that have happened

words == <<isupgrade, application_type>>
ram   == <<pc, fmc, i, total_block, host, update_data>>
vars  == <<flash, words, ram, harm>>

AppCalls  == {"application", "process_upgrade"}
BootCalls == {"handle_upgrade", "stop_flag", "mark_2000", "upgrade_backup",
              "upgrade_run", "receive_page", "write_page",
              "application_recover", "mark_1000", "reset"}

TypeOK ==
    /\ flash \in [Page -> Content]
    /\ isupgrade \in FlagValue
    /\ application_type \in TypeValue
    /\ pc \in AppCalls \cup BootCalls
    /\ fmc \in {"erase", "program"}
    /\ i \in 0..(2 * BankPages)
    /\ total_block \in 0..HostPages
    /\ host \in Image \cup {NoImage}
    /\ update_data \in Content
    /\ harm \in Faults \cup {{}}

\* Image v is complete in the bank that starts at page base.
Whole(base, v) == \A b \in 0..(Size[v] - 1) : flash[base + b] = Block(v, b)
AppWhole       == \E v \in Image : Whole(AppBank, v)
BackupWhole    == \E v \in Image : Whole(BackupBank, v)

\* A board as it leaves the factory or a finished upgrade: a complete
\* application, any earlier backup or none, no upgrade under way.
Init ==
    /\ \E v \in Image, w \in Image \cup {NoImage} :
         flash = [p \in Page |->
                    IF p < Size[v] THEN Block(v, p)
                    ELSE IF w # NoImage /\ p \in BankPages..(BankPages + Size[w] - 1)
                           THEN Block(w, p - BankPages)
                           ELSE Garbage]
    /\ isupgrade \in {"UPGRADESTOP", "none"}
    /\ application_type \in {"1000", "none"}
    /\ pc = "handle_upgrade"
    /\ fmc = "erase"
    /\ i = 0
    /\ total_block = 0
    /\ host = NoImage
    /\ update_data = Garbage
    /\ harm = {}

Suffer(f) == harm \cup {f} \in Faults /\ harm' = harm \cup {f}

-------------------------------------------------------------------------------
(* upgrade_fmc_write_data: erase the page of a word, then program the      *)
(* word.  A failure returns early; every caller ignores the result.        *)

EraseFlag(here) ==
    /\ pc = here /\ fmc = "erase"
    /\ isupgrade' = "none"
    /\ fmc' = "program"
    /\ UNCHANGED <<flash, application_type, pc, i, total_block, host, update_data, harm>>

ProgramFlag(here, value, next) ==
    /\ pc = here /\ fmc = "program"
    /\ isupgrade' = value
    /\ fmc' = "erase"
    /\ pc' = next
    /\ UNCHANGED <<flash, application_type, i, total_block, host, update_data, harm>>

FailFlag(here, next) ==
    /\ pc = here
    /\ isupgrade' \in {isupgrade, "none"}
    /\ fmc' = "erase"
    /\ pc' = next
    /\ Suffer("fmc")
    /\ UNCHANGED <<flash, application_type, i, total_block, host, update_data>>

WriteFlag(here, value, next) ==
    EraseFlag(here) \/ ProgramFlag(here, value, next) \/ FailFlag(here, next)

EraseType(here) ==
    /\ pc = here /\ fmc = "erase"
    /\ application_type' = "none"
    /\ fmc' = "program"
    /\ UNCHANGED <<flash, isupgrade, pc, i, total_block, host, update_data, harm>>

ProgramType(here, value, next) ==
    /\ pc = here /\ fmc = "program"
    /\ application_type' = value
    /\ fmc' = "erase"
    /\ pc' = next
    /\ UNCHANGED <<flash, isupgrade, i, total_block, host, update_data, harm>>

FailType(here, next) ==
    /\ pc = here
    /\ application_type' \in {application_type, "none"}
    /\ fmc' = "erase"
    /\ pc' = next
    /\ Suffer("fmc")
    /\ UNCHANGED <<flash, isupgrade, i, total_block, host, update_data>>

WriteType(here, value, next) ==
    EraseType(here) \/ ProgramType(here, value, next) \/ FailType(here, next)

-------------------------------------------------------------------------------
(* One page: upgrade_write_data and upgrade_fmc_write_multiple_data erase  *)
(* the page, then program its words.  On failure the caller carries on     *)
(* with the next page.                                                     *)

ErasePage(here, to) ==
    /\ pc = here /\ fmc = "erase"
    /\ flash' = [flash EXCEPT ![to + i] = Garbage]
    /\ fmc' = "program"
    /\ UNCHANGED <<words, pc, i, total_block, host, update_data, harm>>

\* A bug for mutation runs: the loop stops one page early.
NextPageShort(count, again, next) ==
    /\ fmc' = "erase"
    /\ IF i + 2 < count
         THEN i' = i + 1 /\ pc' = again
         ELSE i' = 0     /\ pc' = next
    /\ UNCHANGED <<words, total_block, host, update_data>>

\* After page i of count: again for the next page, or on to the next call.
NextPage(count, again, next) ==
    /\ fmc' = "erase"
    /\ IF i + 1 < count
         THEN i' = i + 1 /\ pc' = again
         ELSE i' = 0     /\ pc' = next
    /\ UNCHANGED <<words, total_block, host, update_data>>

ProgramPage(here, to, data, count, again, next) ==
    /\ pc = here /\ fmc = "program"
    /\ flash' = [flash EXCEPT ![to + i] = data]
    /\ NextPage(count, again, next)
    /\ UNCHANGED harm

FailPage(here, to, count, again, next) ==
    /\ pc = here
    /\ \E left \in {flash[to + i], Garbage} : flash' = [flash EXCEPT ![to + i] = left]
    /\ NextPage(count, again, next)
    /\ Suffer("fmc")

\* A return to handle_upgrade because malloc found no memory.
NoMemory(here, next) ==
    /\ pc = here
    /\ i' = 0
    /\ pc' = next
    /\ Suffer("malloc")
    /\ UNCHANGED <<flash, words, fmc, total_block, host, update_data>>

-------------------------------------------------------------------------------
(* boot.c: handle_upgrade reads the two words and acts on them.            *)

\* A bug for mutation runs: the type word is not tested.
HandleUpgradeNoRecovery ==
    /\ pc = "handle_upgrade"
    /\ pc' = IF isupgrade = "UPGRADESTART" THEN "stop_flag" ELSE "application"
    /\ UNCHANGED <<flash, words, fmc, i, total_block, host, update_data, harm>>

HandleUpgrade ==
    /\ pc = "handle_upgrade"
    /\ pc' = IF isupgrade = "UPGRADESTART" THEN "stop_flag"
             ELSE IF application_type = "2000" THEN "application_recover"
             ELSE "application"
    /\ UNCHANGED <<flash, words, fmc, i, total_block, host, update_data, harm>>

\* Bugs for mutation runs: the flag stays up, the type is not set, the type is
\* not put back, and UPGRADESTOP (0x2000) is written for 2000.
StopFlagStaysUp == WriteFlag("stop_flag", "UPGRADESTART", "mark_2000")
Mark2000Wrong   == WriteType("mark_2000", "1000", "upgrade_backup")
Mark2000Hex     == WriteType("mark_2000", "UPGRADESTOP", "upgrade_backup")
Mark1000Wrong   == WriteType("mark_1000", "2000", "reset")

StopFlag == WriteFlag("stop_flag", "UPGRADESTOP", "mark_2000")
Mark2000 == WriteType("mark_2000", "2000", "upgrade_backup")
Mark1000 == WriteType("mark_1000", "1000", "reset")

\* upgrade_backup: application bank to backup bank.
UpgradeBackup ==
    \/ i = 0 /\ fmc = "erase" /\ NoMemory("upgrade_backup", "upgrade_run")
    \/ ErasePage("upgrade_backup", BackupBank)
    \/ ProgramPage("upgrade_backup", BackupBank, flash[AppBank + i], CopyPages,
                   "upgrade_backup", "upgrade_run")
    \/ FailPage("upgrade_backup", BackupBank, CopyPages, "upgrade_backup", "upgrade_run")

\* upgrade_application_recover: backup bank to application bank.
ApplicationRecover ==
    \/ i = 0 /\ fmc = "erase" /\ NoMemory("application_recover", "mark_1000")
    \/ ErasePage("application_recover", AppBank)
    \/ ProgramPage("application_recover", AppBank, flash[BackupBank + i], CopyPages,
                   "application_recover", "mark_1000")
    \/ FailPage("application_recover", AppBank, CopyPages, "application_recover", "mark_1000")

\* upgrade_run up to the loop: the host answers command_start with the
\* number of blocks, which is taken as it comes.
AnnounceBlocks ==
    /\ pc = "upgrade_run"
    /\ \E v \in Image, n \in 0..HostPages :
         /\ host' = v
         /\ total_block' = n
         /\ pc' = IF n = 0 THEN "mark_1000" ELSE "receive_page"
         /\ IF n = Size[v] THEN UNCHANGED harm
            ELSE Suffer(IF n > BankPages THEN "overrun" ELSE "length")
    /\ UNCHANGED <<flash, words, fmc, i, update_data>>

\* The 2048 bytes of a block arrive; nothing checks them.
ReceivePage ==
    /\ pc = "receive_page"
    /\ pc' = "write_page"
    /\ \/ update_data' = Block(host, i) /\ UNCHANGED harm
       \/ update_data' = Garbage /\ Suffer("line")
    /\ UNCHANGED <<flash, words, fmc, i, total_block, host>>

NoPageBuffer == NoMemory("receive_page", "mark_1000")

WritePage ==
    \/ ErasePage("write_page", AppBank)
    \/ ProgramPage("write_page", AppBank, update_data, total_block,
                   "receive_page", "mark_1000")
    \/ FailPage("write_page", AppBank, total_block, "receive_page", "mark_1000")

\* What the RAM holds after a reset, by NVIC_SystemReset or by power.
Restart ==
    /\ pc' = "handle_upgrade"
    /\ fmc' = "erase"
    /\ i' = 0
    /\ total_block' = 0
    /\ host' = NoImage
    /\ update_data' = Garbage

SystemReset ==
    /\ pc = "reset"
    /\ Restart
    /\ UNCHANGED <<flash, words, harm>>

\* The power may fail at any time.
PowerCut ==
    /\ Restart
    /\ IF pc = "upgrade_backup" THEN Suffer("cut") ELSE UNCHANGED harm
    /\ UNCHANGED <<flash, words>>

-------------------------------------------------------------------------------
(* The application.  A bank that holds no complete image executes nothing  *)
(* one could rely on: the board then only sees power cycles.               *)

\* The UART interrupt has a valid upgrade frame: process_upgrade.
RequestUpgrade ==
    /\ pc = "application" /\ AppWhole
    /\ pc' = "process_upgrade"
    /\ UNCHANGED <<flash, words, fmc, i, total_block, host, update_data, harm>>

ProcessUpgrade == WriteFlag("process_upgrade", "UPGRADESTART", "application")

\* main's loop reads the flag: jump_to_boot.
JumpToBoot ==
    /\ pc = "application" /\ AppWhole
    /\ isupgrade = "UPGRADESTART"
    /\ Restart
    /\ UNCHANGED <<flash, words, harm>>

-------------------------------------------------------------------------------
HostStep == AnnounceBlocks \/ ReceivePage

BootStep ==
    \/ HandleUpgrade \/ StopFlag \/ Mark2000 \/ UpgradeBackup
    \/ WritePage \/ ApplicationRecover \/ Mark1000 \/ SystemReset

AppStep == RequestUpgrade \/ ProcessUpgrade \/ JumpToBoot

Next == HostStep \/ BootStep \/ NoPageBuffer \/ AppStep \/ PowerCut

Spec == Init /\ [][Next]_vars

\* The processor runs whatever is next while it has power.  An interrupt only
\* suspends main's loop, which resumes where it was and comes to its test of
\* the flag however often frames arrive: strong fairness for JumpToBoot.
DeviceFairness ==
    /\ WF_vars(BootStep)
    /\ WF_vars(ProcessUpgrade)
    /\ SF_vars(JumpToBoot)

\* A host that keeps talking.
HostFairness == WF_vars(HostStep)

FairSpec == Spec /\ DeviceFairness /\ HostFairness
=============================================================================
