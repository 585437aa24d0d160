------------------------- MODULE UpgradeIsAtomic_proofs -------------------------
(***************************************************************************)
(* Proofs that the boot loader implements AtomicUpdate, and of the two     *)
(* action properties its crash safety rests on, for any images, bank and   *)
(* copy sizes and faults.                                                  *)
(***************************************************************************)
EXTENDS BootLoader_proofs

USE PagesAssumption, ImageAssumption, FaultAssumption

\* A page of the application bank changes only in the loops that run under
\* the mark.
LEMMA BankWritten ==
    ASSUME InductiveType, StageInvariant, [Next]_vars, "fmc" \notin harm',
           NEW p \in 0..(BankPages - 1), flash'[p] # flash[p]
    PROVE  application_type = "2000"
  <1>s. Stages
    BY HarmGrows DEF StageInvariant
  <1>l. TypeOK /\ Loops
    BY DEF InductiveType
  <1>1. CASE UpgradeBackup
    <2>1. \/ flash' = flash
          \/ \E d : flash' = [flash EXCEPT ![BackupBank + i] = d]
      BY <1>1 DEF UpgradeBackup, NoMemory, ErasePage, ProgramPage, FailPage
    <2>2. i \in Nat /\ p # BackupBank + i /\ p \in Page
      BY <1>l DEF TypeOK, BackupBank, Page
    <2> QED
      BY <2>1, <2>2, <1>l DEF TypeOK
  <1>2. CASE ApplicationRecover
    <2>1. pc = "application_recover"
      BY <1>2 DEF ApplicationRecover, NoMemory, ErasePage, ProgramPage, FailPage
    <2> QED
      BY <2>1, <1>s DEF Stages, CopyLoops
  <1>3. CASE WritePage
    <2>1. pc = "write_page"
      BY <1>3 DEF WritePage, ErasePage, ProgramPage, FailPage
    <2> QED
      BY <2>1, <1>s DEF Stages, HostLoop
  <1>4. CASE ~UpgradeBackup /\ ~ApplicationRecover /\ ~WritePage
    <2>1. flash' = flash
      BY <1>4 DEF Next, HostStep, BootStep, AppStep, AnnounceBlocks, ReceivePage, HandleUpgrade,
             StopFlag, Mark2000, Mark1000, WriteFlag, EraseFlag, ProgramFlag, FailFlag,
             WriteType, EraseType, ProgramType, FailType, SystemReset, NoPageBuffer, NoMemory,
             RequestUpgrade, ProcessUpgrade, JumpToBoot, PowerCut, vars
    <2> QED
      BY <2>1
  <1> QED
    BY <1>1, <1>2, <1>3, <1>4

\* The application bank is written only while flash says 2000, so that a power
\* cut at any of its pages is followed by a recovery.
THEOREM BankWrittenUnderMarkThm == Spec => BankWrittenUnderMark
  <1>1. InductiveType /\ StageInvariant /\ [Next]_vars =>
          [(\E p \in 0..(BankPages - 1) : flash'[p] # flash[p]) /\ "fmc" \notin harm'
             => application_type = "2000"]_vars
    BY BankWritten
  <1> QED
    BY <1>1, InitType, NextType, InitStages, NextStages, PTL DEF Spec, BankWrittenUnderMark

-------------------------------------------------------------------------------
\* How far a recovery has got, whatever the host sent before.
Copied ==
    harm \subseteq BadTransfer /\ pc = "application_recover" =>
        \A b \in 0..(i - 1) : flash[AppBank + b] = flash[BackupBank + b]

\* Nothing has been recovered at the start.
LEMMA InitCopied == Init => Copied
  BY DEF Init, Copied

\* One page of a recovery: erased, or programmed with the backup's.
LEMMA RecoveredPage ==
    ASSUME InductiveType, Copied, ApplicationRecover, harm' \subseteq BadTransfer, harm \subseteq harm'
    PROVE  /\ pc = "application_recover" /\ UNCHANGED <<words, harm, host>>
           /\ \A p \in BankPages..(2 * BankPages - 1) : flash'[p] = flash[p]
           /\ \/ /\ pc' = pc /\ i' = i
                 /\ \A b \in 0..(i - 1) : flash'[AppBank + b] = flash'[BackupBank + b]
              \/ /\ IF i + 1 < CopyPages THEN i' = i + 1 /\ pc' = pc ELSE i' = 0 /\ pc' = "mark_1000"
                 /\ \A b \in 0..i : flash'[AppBank + b] = flash'[BackupBank + b]
  <1>1. /\ pc = "application_recover" /\ i \in Nat /\ i < CopyPages
        /\ flash \in [Page -> Content]
    BY DEF ApplicationRecover, NoMemory, ErasePage, ProgramPage, FailPage, InductiveType,
           TypeOK, Loops, CopyLoops
  <1>2. \A b \in 0..(i - 1) : flash[AppBank + b] = flash[BackupBank + b]
    BY <1>1 DEF Copied
  <1>3. \/ ErasePage("application_recover", AppBank)
        \/ ProgramPage("application_recover", AppBank, flash[BackupBank + i], CopyPages,
                       "application_recover", "mark_1000")
    BY DEF ApplicationRecover, NoMemory, FailPage, Suffer, BadTransfer
  <1>4. \E d : flash' = [flash EXCEPT ![AppBank + i] = d]
    BY <1>3 DEF ErasePage, ProgramPage
  <1>5. \A p \in Page : p # AppBank + i => flash'[p] = flash[p]
    BY <1>1, <1>4
  <1>6. \A b \in 0..i : BackupBank + b \in Page /\ BackupBank + b # AppBank + i
    BY <1>1 DEF Page, BackupBank, AppBank
  <1>7. \A b \in 0..(i - 1) : AppBank + b \in Page /\ AppBank + b # AppBank + i
    BY <1>1 DEF Page, AppBank
  <1>8. \A b \in 0..(i - 1) : flash'[AppBank + b] = flash'[BackupBank + b]
    BY <1>1, <1>2, <1>5, <1>6, <1>7
  <1>9. \A p \in BankPages..(2 * BankPages - 1) : flash'[p] = flash[p]
    BY <1>1, <1>5 DEF Page, AppBank
  <1>10. CASE ErasePage("application_recover", AppBank)
    BY <1>1, <1>8, <1>9, <1>10 DEF ErasePage
  <1>11. CASE ProgramPage("application_recover", AppBank, flash[BackupBank + i], CopyPages,
                          "application_recover", "mark_1000")
    <2>1. flash'[AppBank + i] = flash[BackupBank + i]
      BY <1>1, <1>11 DEF ProgramPage, Page, AppBank
    <2>2. flash'[AppBank + i] = flash'[BackupBank + i]
      BY <2>1, <1>1, <1>5, <1>6
    <2>3. \A b \in 0..i : flash'[AppBank + b] = flash'[BackupBank + b]
      BY <1>1, <1>8, <2>2
    <2> QED
      BY <1>1, <1>9, <1>11, <2>3 DEF ProgramPage, NextPage
  <1> QED
    BY <1>3, <1>10, <1>11

\* Every step keeps Copied: only a recovery enters or stays in its loop.
LEMMA NextCopied ==
    ASSUME InductiveType, Copied, [Next]_vars
    PROVE  Copied'
  <1> SUFFICES ASSUME harm' \subseteq BadTransfer, pc' = "application_recover"
               PROVE  \A b \in 0..(i' - 1) : flash'[AppBank + b] = flash'[BackupBank + b]
    BY DEF Copied
  <1>h. harm \subseteq harm'
    BY HarmGrows
  <1>1. CASE ApplicationRecover
    <2>1. i \in Nat
      BY DEF InductiveType, TypeOK
    <2> QED
      BY <1>1, <1>h, <2>1, RecoveredPage
  <1>2. CASE HandleUpgrade
    <2>1. i' = 0
      BY <1>2 DEF HandleUpgrade, InductiveType, Loops, CopyLoops, HostLoop
    <2> QED
      BY <2>1
  <1>3. CASE UNCHANGED vars
    BY <1>3, <1>h DEF vars, ram, Copied
  <1>4. ASSUME Next, ~ApplicationRecover, ~HandleUpgrade PROVE FALSE
    BY <1>4 DEF Next, HostStep, BootStep, AppStep, AnnounceBlocks, ReceivePage, UpgradeBackup,
           WritePage, StopFlag, Mark2000, Mark1000, WriteFlag, EraseFlag, ProgramFlag, FailFlag,
           WriteType, EraseType, ProgramType, FailType, SystemReset, NoPageBuffer, NoMemory,
           ErasePage, ProgramPage, FailPage, NextPage, Restart,
           RequestUpgrade, ProcessUpgrade, JumpToBoot, PowerCut
  <1> QED
    BY <1>1, <1>2, <1>3, <1>4

\* The end of a recovery: one image is complete in both banks.
LEMMA RecoveryEnds ==
    ASSUME ImagesFitCopy, InductiveType, BackingInvariant, StageInvariant, Copied,
           [Next]_vars, pc = "application_recover", pc' = "mark_1000",
           harm' \subseteq BadTransfer
    PROVE  /\ \E v \in Image : Whole(BackupBank, v)' /\ Whole(AppBank, v)'
           /\ UNCHANGED <<words, harm, host>>
  <1>h. harm \subseteq harm'
    BY HarmGrows
  <1>1. ApplicationRecover
    BY DEF Next, HostStep, BootStep, AppStep, AnnounceBlocks, ReceivePage, HandleUpgrade,
           UpgradeBackup, WritePage, StopFlag, Mark2000, Mark1000, WriteFlag, EraseFlag,
           ProgramFlag, FailFlag, WriteType, EraseType, ProgramType, FailType, SystemReset,
           NoPageBuffer, NoMemory, ErasePage, ProgramPage, FailPage, Restart,
           RequestUpgrade, ProcessUpgrade, JumpToBoot, PowerCut, vars, ram
  <1>2. i \in Nat /\ i < CopyPages
    BY DEF InductiveType, TypeOK, Loops, CopyLoops
  <1>3. /\ UNCHANGED <<words, harm, host>>
        /\ \A p \in BankPages..(2 * BankPages - 1) : flash'[p] = flash[p]
        /\ i + 1 >= CopyPages
        /\ \A b \in 0..i : flash'[AppBank + b] = flash'[BackupBank + b]
    BY <1>1, <1>2, <1>h, RecoveredPage
  <1>4. PICK v \in Image : Whole(BackupBank, v)
    <2>1. BackupWhole
      BY <1>h DEF BackingInvariant, Backing, StageInvariant, Stages, CopyLoops, BadTransfer
    <2> QED
      BY <2>1 DEF BackupWhole
  <1>5. Whole(BackupBank, v)'
    BY <1>3, <1>4 DEF Whole, BackupBank
  <1>6. \A b \in 0..(Size[v] - 1) : b \in 0..i
    BY <1>2, <1>3 DEF ImagesFitCopy
  <1>7. Whole(AppBank, v)'
    BY <1>3, <1>5, <1>6 DEF Whole
  <1> QED
    BY <1>3, <1>5, <1>7

\* A recovery that reaches its end has restored the image of the backup bank,
\* however often the power failed before, provided images fit in the copy.
THEOREM RecoveryRestoresThm == ASSUME ImagesFitCopy PROVE Spec => RecoveryRestores
  <1>1. InductiveType /\ StageInvariant /\ BackingInvariant /\ Copied /\ [Next]_vars =>
          [pc = "application_recover" /\ pc' = "mark_1000" /\ harm' \subseteq {"line", "length"}
             => \E v \in Image : Whole(BackupBank, v)' /\ Whole(AppBank, v)']_vars
    BY RecoveryEnds DEF BadTransfer
  <1>2. InductiveType /\ StageInvariant /\ BackingInvariant /\ [Next]_vars => BackingInvariant'
    BY NextBacking
  <1> QED
    BY <1>1, <1>2, InitType, NextType, InitStages, NextStages, InitBacking, InitCopied, NextCopied,
       PTL DEF Spec, RecoveryRestores

-------------------------------------------------------------------------------
\* What upgrade_run and its end know of the host: no host has been heard
\* before it announced its blocks, and when a bank that was written is marked,
\* it holds the host's image, or after a recovery the backup's.
HostHeard == host # NoImage => pc \in HostLoop \cup {"mark_1000", "reset"}

Concluded ==
    harm = {} /\ pc = "mark_1000" /\ application_type = "2000" =>
        IF host = NoImage
          THEN \E v \in Image : Whole(BackupBank, v) /\ Whole(AppBank, v)
          ELSE Whole(AppBank, host)

\* Both hold at the start, in handle_upgrade.
LEMMA InitConcluded == Init => HostHeard /\ Concluded
  BY DEF Init, HostHeard, Concluded

\* Every step keeps what is known of the host.
LEMMA NextHeard ==
    ASSUME HostHeard, [Next]_vars
    PROVE  HostHeard'
  <1> USE DEF HostHeard, HostLoop
  <1>1. CASE Restart
    BY <1>1 DEF Restart
  <1>2. CASE AnnounceBlocks \/ ReceivePage \/ NoPageBuffer \/ WritePage
    BY <1>2 DEF AnnounceBlocks, ReceivePage, NoPageBuffer, NoMemory, WritePage, ErasePage,
           ProgramPage, FailPage, NextPage
  <1>3. CASE UpgradeBackup \/ ApplicationRecover
    BY <1>3 DEF UpgradeBackup, ApplicationRecover, NoMemory, ErasePage, ProgramPage, FailPage,
           NextPage
  <1>4. CASE StopFlag \/ Mark2000 \/ Mark1000 \/ ProcessUpgrade
    BY <1>4 DEF StopFlag, Mark2000, Mark1000, ProcessUpgrade, WriteFlag, EraseFlag, ProgramFlag,
           FailFlag, WriteType, EraseType, ProgramType, FailType
  <1>5. CASE HandleUpgrade \/ RequestUpgrade
    BY <1>5 DEF HandleUpgrade, RequestUpgrade
  <1>6. CASE UNCHANGED vars
    BY <1>6 DEF vars, ram
  <1> QED
    BY <1>1, <1>2, <1>3, <1>4, <1>5, <1>6 DEF Next, HostStep, BootStep, AppStep, SystemReset,
       PowerCut, JumpToBoot

\* The last page of an upgrade completes the host's image.
LEMMA UpgradeEnds ==
    ASSUME Everything, HostHeard, WritePage, pc' = "mark_1000", harm' = {}, harm = {}
    PROVE  host \in Image /\ UNCHANGED <<words, host>> /\ Whole(AppBank, host)'
  <1>1. TypeOK /\ Loops /\ Progress
    BY DEF Everything, InductiveType, ProgressInvariant
  <1>2. ProgramPage("write_page", AppBank, update_data, total_block, "receive_page", "mark_1000")
    BY DEF WritePage, ErasePage, FailPage, Suffer
  <1>3. /\ pc = "write_page" /\ i \in Nat /\ i < total_block /\ total_block \in Nat
        /\ host \in Image /\ i + 1 >= total_block
        /\ flash' = [flash EXCEPT ![AppBank + i] = update_data]
        /\ UNCHANGED <<words, host>>
    BY <1>1, <1>2 DEF ProgramPage, NextPage, Loops, HostLoop, TypeOK
  <1>4. /\ total_block = Size[host] /\ update_data = Block(host, i)
        /\ \A b \in 0..(i - 1) : flash[AppBank + b] = Block(host, b)
    BY <1>1, <1>3 DEF Progress, HostLoop
  <1>5. \A b \in 0..i : flash'[AppBank + b] = Block(host, b)
    BY <1>1, <1>3, <1>4 DEF Page, TypeOK, AppBank
  <1> QED
    BY <1>3, <1>4, <1>5 DEF Whole

\* The two ways to the mark 1000, upgrade_run's last page and the end of a
\* recovery, leave the bank as Concluded says.
LEMMA NextConcluded ==
    ASSUME ImagesFitCopy, Everything, HostHeard, Copied, Concluded, [Next]_vars
    PROVE  Concluded'
  <1> SUFFICES ASSUME harm' = {}, pc' = "mark_1000", application_type' = "2000"
               PROVE  IF host' = NoImage
                        THEN \E v \in Image : Whole(BackupBank, v)' /\ Whole(AppBank, v)'
                        ELSE Whole(AppBank, host)'
    BY DEF Concluded
  <1>h. harm = {}
    BY HarmGrows
  <1>e. InductiveType /\ StageInvariant /\ BackingInvariant /\ TypeOK
    BY DEF Everything, InductiveType
  <1>1. CASE WritePage
    BY <1>1, <1>h, UpgradeEnds
  <1>2. CASE ApplicationRecover
    <2>1. pc = "application_recover"
      BY <1>2 DEF ApplicationRecover, NoMemory, ErasePage, ProgramPage, FailPage
    <2>2. host = NoImage
      BY <2>1 DEF HostHeard, HostLoop
    <2>3. /\ \E v \in Image : Whole(BackupBank, v)' /\ Whole(AppBank, v)'
          /\ host' = host
      BY <1>e, <2>1, RecoveryEnds DEF BadTransfer
    <2> QED
      BY <2>2, <2>3
  <1>3. CASE UNCHANGED vars
    BY <1>3, <1>h DEF vars, words, ram, Concluded, Whole
  <1>4. ASSUME AnnounceBlocks PROVE FALSE
    <2>1. PICK v \in Image, n \in 0..HostPages :
            /\ pc' = IF n = 0 THEN "mark_1000" ELSE "receive_page"
            /\ IF n = Size[v] THEN UNCHANGED harm
               ELSE Suffer(IF n > BankPages THEN "overrun" ELSE "length")
      BY <1>4 DEF AnnounceBlocks
    <2>2. n = 0 /\ n # Size[v]
      BY <2>1
    <2> QED
      BY <2>1, <2>2 DEF Suffer
  <1>5. ASSUME Next, ~WritePage, ~ApplicationRecover, ~AnnounceBlocks PROVE FALSE
    BY <1>5, <1>h DEF Next, HostStep, BootStep, AppStep, ReceivePage, UpgradeBackup,
           HandleUpgrade, StopFlag, Mark2000, Mark1000, WriteFlag, EraseFlag, ProgramFlag,
           FailFlag, WriteType, EraseType, ProgramType, FailType, SystemReset, NoPageBuffer,
           NoMemory, ErasePage, ProgramPage, FailPage, NextPage, Restart, Suffer,
           RequestUpgrade, ProcessUpgrade, JumpToBoot, PowerCut
  <1> QED
    BY <1>1, <1>2, <1>3, <1>4, <1>5

-------------------------------------------------------------------------------
\* The refinement mapping: the bank that decides, and the image in it.
Deciding == IF application_type = "2000" /\ pc # "upgrade_backup" THEN BackupBank ELSE AppBank

\* A bank holds one image at most.
LEMMA OneImage ==
    ASSUME NEW base, NEW v \in Image, Whole(base, v)
    PROVE  ImageIn(base) = v
  <1>1. ASSUME NEW w \in Image, Whole(base, w) PROVE w = v
    <2>1. flash[base + 0] = Block(v, 0) /\ flash[base + 0] = Block(w, 0)
      BY <1>1 DEF Whole
    <2>2. Block(v, 0).img = Block(w, 0).img
      BY <2>1
    <2> QED
      BY <2>2 DEF Block
  <1> QED
    BY <1>1 DEF ImageIn

\* The same after a step.
LEMMA OneImageNext ==
    ASSUME NEW base, NEW v \in Image, Whole(base, v)'
    PROVE  ImageIn(base)' = v
  <1>1. ASSUME NEW w \in Image, Whole(base, w)' PROVE w = v
    <2>1. flash'[base + 0] = Block(v, 0) /\ flash'[base + 0] = Block(w, 0)
      BY <1>1 DEF Whole
    <2>2. Block(v, 0).img = Block(w, 0).img
      BY <2>1
    <2> QED
      BY <2>2 DEF Block
  <1> QED
    BY <1>1 DEF ImageIn

\* The image of AtomicUpdate, as BootLoaderSafety maps it.
AtomicImage ==
    IF harm # {} THEN NoImage
    ELSE IF application_type = "2000" /\ pc # "upgrade_backup"
           THEN ImageIn(BackupBank)
           ELSE ImageIn(AppBank)

\* The abstract image is the one the deciding bank holds whole.
LEMMA ImageMapped ==
    ASSUME NEW v \in Image, harm = {}, Whole(Deciding, v)
    PROVE  AtomicImage = v
  BY OneImage DEF AtomicImage, Deciding

\* The same after a step.
LEMMA ImageMappedNext ==
    ASSUME NEW v \in Image, harm' = {}, Whole(Deciding, v)'
    PROVE  AtomicImage' = v
  <1>1. CASE application_type' = "2000" /\ pc' # "upgrade_backup"
    <2>1. Whole(BackupBank, v)'
      BY <1>1 DEF Deciding
    <2> QED
      BY <1>1, <2>1, OneImageNext DEF AtomicImage
  <1>2. CASE ~(application_type' = "2000" /\ pc' # "upgrade_backup")
    <2>1. Whole(AppBank, v)'
      BY <1>2 DEF Deciding
    <2> QED
      BY <1>2, <2>1, OneImageNext DEF AtomicImage
  <1> QED
    BY <1>1, <1>2

\* The deciding bank always holds a complete image.
LEMMA DecidingWhole ==
    ASSUME Everything, harm = {}
    PROVE  \E v \in Image : Whole(Deciding, v)
  BY DEF Everything, BackingInvariant, Backing, ProgressInvariant, Progress, Deciding,
         AppWhole, BackupWhole, BadTransfer

\* A step that leaves the deciding bank, its pages and the type alone.
LEMMA Stutters ==
    ASSUME NEW v \in Image, Whole(Deciding, v), harm = {}, harm' = {},
           Deciding' = Deciding,
           \A b \in 0..(Size[v] - 1) : flash'[Deciding + b] = flash[Deciding + b]
    PROVE  AtomicImage' = AtomicImage
  <1>1. Whole(Deciding, v)'
    BY DEF Whole
  <1> QED
    BY <1>1, ImageMapped, ImageMappedNext

\* An initial state of the boot loader is one of AtomicUpdate.
LEMMA InitRefines == Init => Atomic!Init
  <1> SUFFICES ASSUME Init PROVE Atomic!Init
    OBVIOUS
  <1>1. harm = {} /\ host = NoImage /\ application_type # "2000" /\ pc = "handle_upgrade"
    BY DEF Init
  <1>2. PICK v \in Image, w \in Image \cup {NoImage} :
          flash = [p \in Page |->
                     IF p < Size[v] THEN Block(v, p)
                     ELSE IF w # NoImage /\ p \in BankPages..(BankPages + Size[w] - 1)
                            THEN Block(w, p - BankPages)
                            ELSE Garbage]
    BY DEF Init
  <1>3. Whole(AppBank, v)
    BY <1>2 DEF Whole, AppBank, Page
  <1>4. ImageIn(AppBank) = v
    BY <1>3, OneImage
  <1> QED
    BY <1>1, <1>4 DEF Atomic!Init

\* Without a fault: every step of the boot loader is a step of AtomicUpdate,
\* or none.
LEMMA StepRefines ==
    ASSUME ImagesFitCopy, Everything, HostHeard, Copied, Concluded, [Next]_vars,
           harm = {}, harm' = {}
    PROVE  \/ /\ AtomicImage # NoImage
              /\ \/ /\ application_type # "2000" /\ application_type' = "2000"
                    /\ UNCHANGED <<AtomicImage, host>>
                 \/ /\ application_type = "2000" /\ application_type' = "2000"
                    /\ host = NoImage /\ host' \in Image /\ UNCHANGED AtomicImage
                 \/ /\ host' = NoImage /\ UNCHANGED <<AtomicImage, application_type>>
                 \/ /\ application_type = "2000" /\ application_type' # "2000"
                    /\ AtomicImage' = IF host = NoImage THEN AtomicImage ELSE host
                    /\ UNCHANGED host
           \/ /\ (application_type' = "2000") = (application_type = "2000")
              /\ UNCHANGED <<AtomicImage, host>>
  <1>e. TypeOK /\ Loops /\ Stages /\ Backing /\ Progress
    BY DEF Everything, InductiveType, StageInvariant, BackingInvariant, ProgressInvariant,
           BadTransfer
  <1>v. PICK v \in Image : Whole(Deciding, v)
    BY DecidingWhole
  <1>i. AtomicImage = v /\ v # NoImage
    BY <1>v, ImageMapped
  <1>same. ASSUME UNCHANGED flash, Deciding' = Deciding PROVE AtomicImage' = AtomicImage
    BY <1>v, <1>same, Stutters
  <1>1. CASE Restart
    <2>1. UNCHANGED <<flash, words>> /\ host' = NoImage /\ pc # "upgrade_backup"
          /\ pc' = "handle_upgrade"
      BY <1>1 DEF Next, Restart, HostStep, BootStep, AppStep, AnnounceBlocks, ReceivePage,
             UpgradeBackup, ApplicationRecover, WritePage, HandleUpgrade, StopFlag, Mark2000,
             Mark1000, WriteFlag, EraseFlag, ProgramFlag, FailFlag, WriteType, EraseType,
             ProgramType, FailType, SystemReset, NoPageBuffer, NoMemory, ErasePage, ProgramPage,
             FailPage, NextPage, Suffer, RequestUpgrade, ProcessUpgrade, JumpToBoot, PowerCut,
             vars, words, ram
    <2>2. Deciding' = Deciding
      BY <2>1 DEF words, Deciding
    <2> QED
      BY <2>1, <2>2, <1>i, <1>same DEF words
  <1>2. CASE HandleUpgrade \/ RequestUpgrade \/ ReceivePage
    <2>1. /\ UNCHANGED <<flash, words, host>>
          /\ pc # "upgrade_backup" /\ pc' # "upgrade_backup"
      BY <1>2 DEF HandleUpgrade, RequestUpgrade, ReceivePage
    <2>2. Deciding' = Deciding
      BY <2>1 DEF words, Deciding
    <2> QED
      BY <2>1, <2>2, <1>same DEF words
  <1>3. CASE StopFlag \/ ProcessUpgrade
    <2>1. /\ UNCHANGED <<flash, application_type, host>>
          /\ pc # "upgrade_backup" /\ pc' # "upgrade_backup"
      BY <1>3 DEF StopFlag, ProcessUpgrade, WriteFlag, EraseFlag, ProgramFlag, FailFlag, Suffer
    <2>2. Deciding' = Deciding
      BY <2>1 DEF Deciding
    <2> QED
      BY <2>1, <2>2, <1>same
  <1>4. CASE Mark2000
    <2>1. /\ pc = "mark_2000" /\ application_type # "2000" /\ UNCHANGED <<flash, host>>
          /\ \/ application_type' = "none"
             \/ application_type' = "2000" /\ pc' = "upgrade_backup"
      BY <1>4, <1>e DEF Mark2000, WriteType, EraseType, ProgramType, FailType, Suffer, Stages
    <2>2. Deciding' = Deciding
      BY <2>1 DEF Deciding
    <2> QED
      BY <2>1, <2>2, <1>i, <1>same
  <1>5. CASE UpgradeBackup
    <2>1. /\ pc = "upgrade_backup" /\ UNCHANGED <<words, host>> /\ application_type = "2000"
          /\ i \in Nat /\ i < CopyPages /\ flash \in [Page -> Content]
          /\ \/ ErasePage("upgrade_backup", BackupBank)
             \/ ProgramPage("upgrade_backup", BackupBank, flash[AppBank + i], CopyPages,
                            "upgrade_backup", "upgrade_run")
      BY <1>5, <1>e DEF UpgradeBackup, NoMemory, ErasePage, ProgramPage, FailPage, NextPage,
             Suffer, Stages, Loops, CopyLoops, TypeOK
    <2>2. /\ \E d : flash' = [flash EXCEPT ![BackupBank + i] = d]
          /\ pc' \in {"upgrade_backup", "upgrade_run"}
      BY <2>1 DEF ErasePage, ProgramPage, NextPage
    <2>3. \A b \in 0..(BankPages - 1) : flash'[AppBank + b] = flash[AppBank + b]
      BY <2>1, <2>2 DEF Page, AppBank, BackupBank
    <2>4. Whole(AppBank, v)
      BY <2>1, <1>v DEF Deciding
    <2>5. Whole(AppBank, v)'
      BY <2>3, <2>4 DEF Whole
    <2>6. CASE pc' = "upgrade_backup"
      BY <2>1, <2>5, <2>6, <1>i, ImageMappedNext DEF Deciding, words
    <2>7. CASE pc' = "upgrade_run"
      <3>1. Backing'
        BY NextBacking DEF Everything, BackingInvariant, BadTransfer
      <3>2. /\ i + 1 >= CopyPages
            /\ flash' = [flash EXCEPT ![BackupBank + i] = flash[AppBank + i]]
        BY <2>1, <2>7 DEF ErasePage, ProgramPage, NextPage
      <3>3. \A b \in 0..(i - 1) : flash[BackupBank + b] = flash[AppBank + b]
        BY <2>1, <1>e DEF Backing
      <3>4. \A b \in 0..i : flash'[BackupBank + b] = flash[AppBank + b]
        BY <2>1, <3>2, <3>3 DEF Page, BackupBank
      <3>5. Whole(BackupBank, v)'
        BY <2>1, <2>4, <3>2, <3>4, CopyComplete
      <3> QED
        BY <2>1, <2>7, <3>5, <1>i, ImageMappedNext DEF Deciding, words
    <2> QED
      BY <2>1, <2>2, <2>6, <2>7, <1>i DEF words
  <1>6. CASE ApplicationRecover \/ WritePage
    <2>1. /\ application_type = "2000" /\ pc # "upgrade_backup" /\ pc' # "upgrade_backup"
          /\ UNCHANGED <<words, host>> /\ i \in Nat /\ i < BankPages
          /\ flash \in [Page -> Content]
          /\ \E d : flash' = [flash EXCEPT ![AppBank + i] = d]
      <3>1. CASE ApplicationRecover
        BY <3>1, <1>e DEF ApplicationRecover, NoMemory, ErasePage, ProgramPage, FailPage,
               NextPage, Suffer, Stages, Loops, CopyLoops, TypeOK
      <3>2. CASE WritePage
        BY <3>2, <1>e DEF WritePage, ErasePage, ProgramPage, FailPage,
               NextPage, Suffer, Stages, Loops, HostLoop, TypeOK, Backing
      <3> QED
        BY <1>6, <3>1, <3>2
    <2>2. Whole(BackupBank, v)
      BY <2>1, <1>v DEF Deciding
    <2>3. \A b \in 0..(BankPages - 1) : flash'[BackupBank + b] = flash[BackupBank + b]
      BY <2>1 DEF Page, AppBank, BackupBank
    <2>4. Whole(BackupBank, v)'
      BY <2>2, <2>3 DEF Whole
    <2>5. AtomicImage' = v
      BY <2>1, <2>4, ImageMappedNext DEF Deciding, words
    <2> QED
      BY <2>1, <2>5, <1>i DEF words
  <1>7. CASE AnnounceBlocks
    <2>1. /\ UNCHANGED <<flash, words>> /\ host' \in Image /\ pc = "upgrade_run"
          /\ pc' # "upgrade_backup"
      BY <1>7 DEF AnnounceBlocks
    <2>2. application_type = "2000" /\ host = NoImage
      BY <2>1, <1>e DEF Stages, HostHeard, HostLoop
    <2>3. Deciding' = Deciding
      BY <2>1 DEF words, Deciding
    <2> QED
      BY <2>1, <2>2, <2>3, <1>i, <1>same DEF words
  <1>8. CASE Mark1000
    <2>1. /\ pc = "mark_1000" /\ UNCHANGED <<flash, host>>
          /\ \/ application_type = "2000" /\ application_type' = "none"
             \/ application_type = "none" /\ application_type' = "1000"
      BY <1>8, <1>e DEF Mark1000, WriteType, EraseType, ProgramType, FailType, Suffer, Stages
    <2>2. CASE application_type = "none" /\ application_type' = "1000"
      <3>1. Deciding' = Deciding
        BY <2>2 DEF Deciding
      <3> QED
        BY <2>1, <2>2, <3>1, <1>same
    <2>3. CASE application_type = "2000" /\ application_type' = "none"
      <3>1. CASE host = NoImage
        <4>1. PICK w \in Image : Whole(BackupBank, w) /\ Whole(AppBank, w)
          BY <2>1, <2>3, <3>1 DEF Concluded
        <4>2. Whole(Deciding, w) /\ Whole(Deciding, w)'
          BY <2>1, <2>3, <4>1 DEF Deciding, Whole
        <4> QED
          BY <2>1, <2>3, <3>1, <4>2, <1>i, ImageMapped, ImageMappedNext
      <3>2. CASE host # NoImage
        <4>1. host \in Image /\ Whole(AppBank, host)
          BY <2>1, <2>3, <3>2, <1>e DEF Concluded, TypeOK
        <4>2. Whole(Deciding, host)'
          BY <2>1, <2>3, <4>1 DEF Deciding, Whole
        <4> QED
          BY <2>1, <2>3, <3>2, <4>1, <4>2, <1>i, ImageMappedNext
      <3> QED
        BY <3>1, <3>2
    <2> QED
      BY <2>1, <2>2, <2>3
  <1>9. CASE NoPageBuffer
    BY <1>9 DEF NoPageBuffer, NoMemory, Suffer
  <1>10. CASE UNCHANGED vars
    BY <1>10, <1>same DEF vars, words, ram, Deciding
  <1> QED
    BY <1>1, <1>2, <1>3, <1>4, <1>5, <1>6, <1>7, <1>8, <1>9, <1>10
       DEF Next, HostStep, BootStep, AppStep, SystemReset, PowerCut, JumpToBoot

\* Every step of the boot loader, with or without a fault, is a step of
\* AtomicUpdate or none.
LEMMA NextRefines ==
    ASSUME ImagesFitCopy, Everything, HostHeard, Copied, Concluded, [Next]_vars
    PROVE  [Atomic!Next]_(Atomic!vars)
  <1>1. CASE harm' # {}
    BY <1>1 DEF Atomic!Next, Atomic!Break
  <1>2. CASE harm' = {}
    <2>1. harm = {}
      BY <1>2, HarmGrows
    <2> QED
      BY <1>2, <2>1, StepRefines DEF Atomic!Next, Atomic!Begin, Atomic!Offer, Atomic!Withdraw,
         Atomic!Conclude, Atomic!vars, AtomicImage
  <1> QED
    BY <1>1, <1>2

\* The upgrade is an atomic replacement of one image by another, for all
\* images and bank sizes, whenever the power fails outside upgrade_backup,
\* provided images fit in the pages upgrade_backup copies.
THEOREM UpgradeIsAtomicThm == ASSUME ImagesFitCopy PROVE Spec => UpgradeIsAtomic
  <1>1. HostHeard /\ Copied /\ Concluded /\ Everything /\ [Next]_vars
          => (HostHeard /\ Copied /\ Concluded)'
    BY NextHeard, NextCopied, NextConcluded DEF Everything
  <1>2. HostHeard /\ Copied /\ Concluded /\ Everything /\ [Next]_vars
          => [Atomic!Next]_(Atomic!vars)
    BY NextRefines
  <1>3. Init => HostHeard /\ Copied /\ Concluded
    BY InitCopied, InitConcluded
  <1>4. Spec => []Everything
    BY EverythingHolds
  <1> QED
    BY <1>1, <1>2, <1>3, <1>4, InitRefines, PTL DEF Spec, UpgradeIsAtomic, Atomic!Spec
=============================================================================
