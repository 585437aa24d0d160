--------------------------- MODULE BootLoader_proofs ---------------------------
(***************************************************************************)
(* Proofs that the invariants of BootLoaderSafety hold for every number of *)
(* images, every bank and copy size, and every set of faults.              *)
(***************************************************************************)
EXTENDS BootLoaderSafety, TLAPS

USE PagesAssumption, ImageAssumption, FaultAssumption

InductiveType == TypeOK /\ Loops

\* The blocks of images and garbage are what a page holds.
LEMMA ContentType ==
    /\ Garbage \in Content
    /\ \A v \in Image, b \in Page : Block(v, b) \in Content
  BY DEF Content, Garbage, Block

\* An initial flash is made of pages.
LEMMA InitType == Init => InductiveType
  <1> SUFFICES ASSUME Init PROVE InductiveType
    OBVIOUS
  <1>1. flash \in [Page -> Content]
    <2>1. PICK v \in Image, w \in Image \cup {NoImage} :
            flash = [p \in Page |->
                       IF p < Size[v] THEN Block(v, p)
                       ELSE IF w # NoImage /\ p \in BankPages..(BankPages + Size[w] - 1)
                              THEN Block(w, p - BankPages)
                              ELSE Garbage]
      BY DEF Init
    <2>2. \A p \in Page : p \in BankPages..(BankPages + Size[w] - 1) => p - BankPages \in Page
      BY DEF Page
    <2> QED
      BY <2>1, <2>2, ContentType
  <1>2. TypeOK
    BY <1>1, ContentType DEF Init, TypeOK, FlagValue, TypeValue, BootCalls
  <1>3. Loops
    BY DEF Init, Loops, CopyLoops, HostLoop
  <1> QED
    BY <1>2, <1>3 DEF InductiveType

\* The steps of a loop over pages keep the index below the count.
LEMMA NextPageType ==
    ASSUME InductiveType, NEW count \in 0..(2 * BankPages),
           NEW again, NEW next, NextPage(count, again, next)
    PROVE  /\ i' \in 0..(2 * BankPages)
           /\ fmc' = "erase"
           /\ (pc' = again /\ i' < count) \/ (pc' = next /\ i' = 0)
           /\ UNCHANGED <<words, total_block, host, update_data>>
  BY DEF NextPage, InductiveType, TypeOK

LEMMA SufferType ==
    ASSUME TypeOK, NEW f \in FaultKind, Suffer(f)
    PROVE  harm' \in Faults \cup {{}} /\ harm' = harm \cup {f}
  BY DEF Suffer, TypeOK

USE DEF InductiveType, TypeOK, Loops, CopyLoops, HostLoop, AppCalls, BootCalls,
        FlagValue, TypeValue, AppBank, BackupBank, words, ram, vars

\* A call that writes a word leaves the rest alone and ends, or goes on, or
\* fails; either way the word is one the code knows, or none.
LEMMA WriteFlagType ==
    ASSUME InductiveType, NEW here, NEW value \in FlagValue, NEW next,
           WriteFlag(here, value, next)
    PROVE  /\ pc = here
           /\ isupgrade' \in FlagValue
           /\ (pc' = here /\ fmc' = "program") \/ (pc' = next /\ fmc' = "erase")
           /\ harm' \in Faults \cup {{}}
           /\ UNCHANGED <<flash, application_type, i, total_block, host, update_data>>
  <1>1. CASE EraseFlag(here)
    BY <1>1 DEF EraseFlag
  <1>2. CASE ProgramFlag(here, value, next)
    BY <1>2 DEF ProgramFlag
  <1>3. CASE FailFlag(here, next)
    BY <1>3, SufferType DEF FailFlag, FaultKind
  <1> QED
    BY <1>1, <1>2, <1>3 DEF WriteFlag

LEMMA WriteTypeType ==
    ASSUME InductiveType, NEW here, NEW value \in TypeValue, NEW next,
           WriteType(here, value, next)
    PROVE  /\ pc = here
           /\ application_type' \in TypeValue
           /\ (pc' = here /\ fmc' = "program") \/ (pc' = next /\ fmc' = "erase")
           /\ harm' \in Faults \cup {{}}
           /\ UNCHANGED <<flash, isupgrade, i, total_block, host, update_data>>
  <1>1. CASE EraseType(here)
    BY <1>1 DEF EraseType
  <1>2. CASE ProgramType(here, value, next)
    BY <1>2 DEF ProgramType
  <1>3. CASE FailType(here, next)
    BY <1>3, SufferType DEF FailType, FaultKind
  <1> QED
    BY <1>1, <1>2, <1>3 DEF WriteType

\* Every step keeps the types and the loop bounds, whatever faults happen.
LEMMA NextType == InductiveType /\ [Next]_vars => InductiveType'
  <1> SUFFICES ASSUME InductiveType, [Next]_vars PROVE InductiveType'
    OBVIOUS
  <1>1. CASE HandleUpgrade
    BY <1>1 DEF HandleUpgrade
  <1>2. CASE StopFlag
    <2>1. WriteFlag("stop_flag", "UPGRADESTOP", "mark_2000")
      BY <1>2 DEF StopFlag
    <2>2. /\ pc = "stop_flag"
          /\ isupgrade' \in FlagValue
          /\ (pc' = "stop_flag" /\ fmc' = "program") \/ (pc' = "mark_2000" /\ fmc' = "erase")
          /\ harm' \in Faults \cup {{}}
          /\ UNCHANGED <<flash, application_type, i, total_block, host, update_data>>
      BY <2>1, WriteFlagType
    <2>3. TypeOK'
      BY <2>2
    <2>4. Loops'
      BY <2>2
    <2> QED
      BY <2>3, <2>4
  <1>3. CASE Mark2000
    <2>1. WriteType("mark_2000", "2000", "upgrade_backup")
      BY <1>3 DEF Mark2000
    <2>2. /\ pc = "mark_2000"
          /\ application_type' \in TypeValue
          /\ (pc' = "mark_2000" /\ fmc' = "program") \/ (pc' = "upgrade_backup" /\ fmc' = "erase")
          /\ harm' \in Faults \cup {{}}
          /\ UNCHANGED <<flash, isupgrade, i, total_block, host, update_data>>
      BY <2>1, WriteTypeType
    <2>3. TypeOK'
      BY <2>2
    <2>4. Loops'
      BY <2>2
    <2> QED
      BY <2>3, <2>4
  <1>4. CASE Mark1000
    <2>1. WriteType("mark_1000", "1000", "reset")
      BY <1>4 DEF Mark1000
    <2>2. /\ pc = "mark_1000"
          /\ application_type' \in TypeValue
          /\ (pc' = "mark_1000" /\ fmc' = "program") \/ (pc' = "reset" /\ fmc' = "erase")
          /\ harm' \in Faults \cup {{}}
          /\ UNCHANGED <<flash, isupgrade, i, total_block, host, update_data>>
      BY <2>1, WriteTypeType
    <2>3. TypeOK'
      BY <2>2
    <2>4. Loops'
      BY <2>2
    <2> QED
      BY <2>3, <2>4
  <1>5. CASE UpgradeBackup
    <2>1. CASE i = 0 /\ fmc = "erase" /\ NoMemory("upgrade_backup", "upgrade_run")
      BY <2>1, SufferType DEF NoMemory, FaultKind
    <2>2. CASE ErasePage("upgrade_backup", BackupBank)
      BY <2>2, ContentType DEF ErasePage
    <2>3. CASE ProgramPage("upgrade_backup", BackupBank, flash[AppBank + i], CopyPages,
                           "upgrade_backup", "upgrade_run")
      <3>1. flash[AppBank + i] \in Content
        BY <2>3 DEF ProgramPage, Page
      <3>2. flash' \in [Page -> Content]
        BY <2>3, <3>1 DEF ProgramPage
      <3> QED
        BY <2>3, <3>2, NextPageType DEF ProgramPage
    <2>4. CASE FailPage("upgrade_backup", BackupBank, CopyPages, "upgrade_backup", "upgrade_run")
      <3>1. flash' \in [Page -> Content]
        BY <2>4, ContentType DEF FailPage
      <3> QED
        BY <2>4, <3>1, NextPageType, SufferType DEF FailPage, FaultKind
    <2> QED
      BY <1>5, <2>1, <2>2, <2>3, <2>4 DEF UpgradeBackup
  <1>6. CASE ApplicationRecover
    <2>1. CASE i = 0 /\ fmc = "erase" /\ NoMemory("application_recover", "mark_1000")
      BY <2>1, SufferType DEF NoMemory, FaultKind
    <2>2. CASE ErasePage("application_recover", AppBank)
      BY <2>2, ContentType DEF ErasePage
    <2>3. CASE ProgramPage("application_recover", AppBank, flash[BackupBank + i], CopyPages,
                           "application_recover", "mark_1000")
      <3>1. flash[BackupBank + i] \in Content
        BY <2>3 DEF ProgramPage, Page
      <3>2. flash' \in [Page -> Content]
        BY <2>3, <3>1 DEF ProgramPage
      <3> QED
        BY <2>3, <3>2, NextPageType DEF ProgramPage
    <2>4. CASE FailPage("application_recover", AppBank, CopyPages, "application_recover", "mark_1000")
      <3>1. flash' \in [Page -> Content]
        BY <2>4, ContentType DEF FailPage
      <3> QED
        BY <2>4, <3>1, NextPageType, SufferType DEF FailPage, FaultKind
    <2> QED
      BY <1>6, <2>1, <2>2, <2>3, <2>4 DEF ApplicationRecover
  <1>7. CASE AnnounceBlocks
    <2>1. PICK v \in Image, n \in 0..HostPages :
            /\ host' = v
            /\ total_block' = n
            /\ pc' = IF n = 0 THEN "mark_1000" ELSE "receive_page"
            /\ IF n = Size[v] THEN UNCHANGED harm
               ELSE Suffer(IF n > BankPages THEN "overrun" ELSE "length")
      BY <1>7 DEF AnnounceBlocks
    <2>2. harm' \in Faults \cup {{}}
      BY <2>1, SufferType DEF FaultKind
    <2>3. /\ pc = "upgrade_run" /\ i = 0
          /\ UNCHANGED <<flash, words, fmc, i, update_data>>
      BY <1>7 DEF AnnounceBlocks
    <2>4. TypeOK'
      BY <2>1, <2>2, <2>3
    <2>5. Loops'
      BY <2>1, <2>3
    <2> QED
      BY <2>4, <2>5
  <1>8. CASE ReceivePage
    <2>1. Block(host, i) \in Content
      BY <1>8, ContentType DEF ReceivePage, Page
    <2> QED
      BY <1>8, <2>1, ContentType, SufferType DEF ReceivePage, FaultKind
  <1>9. CASE NoPageBuffer
    <2>1. TypeOK'
      BY <1>9, SufferType DEF NoPageBuffer, NoMemory, FaultKind
    <2>2. Loops'
      BY <1>9 DEF NoPageBuffer, NoMemory
    <2> QED
      BY <2>1, <2>2
  <1>10. CASE WritePage
    <2>1. CASE ErasePage("write_page", AppBank)
      BY <2>1, ContentType DEF ErasePage
    <2>2. CASE ProgramPage("write_page", AppBank, update_data, total_block,
                           "receive_page", "mark_1000")
      <3>1. /\ pc = "write_page" /\ harm' = harm
            /\ NextPage(total_block, "receive_page", "mark_1000")
        BY <2>2 DEF ProgramPage
      <3>2. flash' \in [Page -> Content]
        BY <2>2 DEF ProgramPage
      <3>3. total_block \in 0..(2 * BankPages)
        OBVIOUS
      <3>4. /\ i' \in 0..(2 * BankPages) /\ fmc' = "erase"
            /\ (pc' = "receive_page" /\ i' < total_block) \/ (pc' = "mark_1000" /\ i' = 0)
            /\ UNCHANGED <<words, total_block, host, update_data>>
        BY <3>1, <3>3, NextPageType
      <3>5. TypeOK'
        BY <3>1, <3>2, <3>4
      <3>6. Loops'
        BY <3>1, <3>4
      <3> QED
        BY <3>5, <3>6
    <2>3. CASE FailPage("write_page", AppBank, total_block, "receive_page", "mark_1000")
      <3>1. flash' \in [Page -> Content]
        BY <2>3, ContentType DEF FailPage
      <3>2. pc = "write_page" /\ NextPage(total_block, "receive_page", "mark_1000")
        BY <2>3 DEF FailPage
      <3>3. total_block \in 0..(2 * BankPages)
        OBVIOUS
      <3>4. harm' \in Faults \cup {{}}
        BY <2>3, SufferType DEF FailPage, FaultKind
      <3>5. /\ i' \in 0..(2 * BankPages) /\ fmc' = "erase"
            /\ (pc' = "receive_page" /\ i' < total_block) \/ (pc' = "mark_1000" /\ i' = 0)
            /\ UNCHANGED <<words, total_block, host, update_data>>
        BY <3>2, <3>3, NextPageType
      <3>6. TypeOK'
        BY <3>1, <3>4, <3>5
      <3>7. Loops'
        BY <3>2, <3>5
      <3> QED
        BY <3>6, <3>7
    <2> QED
      BY <1>10, <2>1, <2>2, <2>3 DEF WritePage
  <1>11. CASE SystemReset
    BY <1>11, ContentType DEF SystemReset, Restart
  <1>12. CASE PowerCut
    <2>1. harm' \in Faults \cup {{}}
      BY <1>12, SufferType DEF PowerCut, FaultKind
    <2> QED
      BY <1>12, <2>1, ContentType DEF PowerCut, Restart
  <1>13. CASE RequestUpgrade
    BY <1>13 DEF RequestUpgrade
  <1>14. CASE ProcessUpgrade
    <2>1. WriteFlag("process_upgrade", "UPGRADESTART", "application")
      BY <1>14 DEF ProcessUpgrade
    <2>2. /\ pc = "process_upgrade"
          /\ isupgrade' \in FlagValue
          /\ (pc' = "process_upgrade" /\ fmc' = "program") \/ (pc' = "application" /\ fmc' = "erase")
          /\ harm' \in Faults \cup {{}}
          /\ UNCHANGED <<flash, application_type, i, total_block, host, update_data>>
      BY <2>1, WriteFlagType
    <2>3. TypeOK'
      BY <2>2
    <2>4. Loops'
      BY <2>2
    <2> QED
      BY <2>3, <2>4
  <1>15. CASE JumpToBoot
    BY <1>15, ContentType DEF JumpToBoot, Restart
  <1>16. CASE UNCHANGED vars
    BY <1>16
  <1> QED
    BY <1>1, <1>2, <1>3, <1>4, <1>5, <1>6, <1>7, <1>8, <1>9, <1>10, <1>11, <1>12,
       <1>13, <1>14, <1>15, <1>16 DEF Next, HostStep, BootStep, AppStep

\* The state is well typed and the loops stay in their counts: no page number
\* the code computes leaves the two banks, however many blocks (up to
\* HostPages) the host announces and whatever fails.
THEOREM TypeCorrect == Spec => []TypeOK
  <1>1. InductiveType => TypeOK
    OBVIOUS
  <1> QED
    BY <1>1, InitType, NextType, PTL DEF Spec

-------------------------------------------------------------------------------
HIDE DEF InductiveType, TypeOK, Loops, CopyLoops, HostLoop, AppCalls, BootCalls,
         FlagValue, TypeValue

\* A fault that has happened stays in the history.
LEMMA HarmGrows == [Next]_vars => harm \subseteq harm'
  BY DEF Next, HostStep, BootStep, AppStep, HandleUpgrade, StopFlag, Mark2000, Mark1000,
         WriteFlag, EraseFlag, ProgramFlag, FailFlag, WriteType, EraseType, ProgramType,
         FailType, UpgradeBackup, ApplicationRecover, WritePage, ErasePage, ProgramPage,
         FailPage, NoPageBuffer, NoMemory, AnnounceBlocks, ReceivePage, SystemReset,
         PowerCut, Restart, RequestUpgrade, ProcessUpgrade, JumpToBoot, Suffer

StageInvariant == "fmc" \notin harm => Stages

LEMMA InitStages == Init => StageInvariant
  BY DEF Init, StageInvariant, Stages, AppCalls, CopyLoops, HostLoop

\* A step with working flash keeps each stage under the words it runs under.
LEMMA NextStages == InductiveType /\ StageInvariant /\ [Next]_vars => StageInvariant'
  <1> SUFFICES ASSUME InductiveType, StageInvariant, [Next]_vars, "fmc" \notin harm'
               PROVE  Stages'
    BY DEF StageInvariant
  <1>s. Stages
    BY HarmGrows DEF StageInvariant
  <1>l. Loops
    BY DEF InductiveType
  <1> USE <1>s, <1>l DEF Stages, Loops, AppCalls, CopyLoops, HostLoop
  <1>1. CASE HandleUpgrade
    BY <1>1 DEF HandleUpgrade
  <1>2. CASE StopFlag
    BY <1>2 DEF StopFlag, WriteFlag, EraseFlag, ProgramFlag, FailFlag, Suffer
  <1>3. CASE Mark2000
    BY <1>3 DEF Mark2000, WriteType, EraseType, ProgramType, FailType, Suffer
  <1>4. CASE Mark1000
    BY <1>4 DEF Mark1000, WriteType, EraseType, ProgramType, FailType, Suffer
  <1>5. CASE UpgradeBackup
    <2>1. /\ pc = "upgrade_backup" /\ UNCHANGED words
          /\ (pc' = "upgrade_backup" /\ fmc' = "program") \/ (pc' = "upgrade_run" /\ fmc' = "erase")
               \/ (pc' = "upgrade_backup" /\ fmc' = "erase")
      BY <1>5 DEF UpgradeBackup, NoMemory, ErasePage, ProgramPage, FailPage, NextPage, Suffer
    <2> QED
      BY <2>1
  <1>6. CASE ApplicationRecover
    <2>1. /\ pc = "application_recover" /\ UNCHANGED words
          /\ (pc' = "application_recover" /\ fmc' = "program") \/ (pc' = "mark_1000" /\ fmc' = "erase")
               \/ (pc' = "application_recover" /\ fmc' = "erase")
      BY <1>6 DEF ApplicationRecover, NoMemory, ErasePage, ProgramPage, FailPage, NextPage, Suffer
    <2> QED
      BY <2>1
  <1>7. CASE AnnounceBlocks
    BY <1>7 DEF AnnounceBlocks
  <1>8. CASE ReceivePage
    BY <1>8 DEF ReceivePage
  <1>9. CASE NoPageBuffer
    BY <1>9 DEF NoPageBuffer, NoMemory
  <1>10. CASE WritePage
    <2>1. /\ pc = "write_page" /\ UNCHANGED words
          /\ (pc' = "write_page" /\ fmc' = "program")
               \/ (pc' \in {"receive_page", "mark_1000"} /\ fmc' = "erase")
      BY <1>10 DEF WritePage, ErasePage, ProgramPage, FailPage, NextPage, Suffer
    <2> QED
      BY <2>1
  <1>11. CASE SystemReset
    BY <1>11 DEF SystemReset, Restart
  <1>12. CASE PowerCut
    BY <1>12 DEF PowerCut, Restart
  <1>13. CASE RequestUpgrade
    BY <1>13 DEF RequestUpgrade
  <1>14. CASE ProcessUpgrade
    BY <1>14 DEF ProcessUpgrade, WriteFlag, EraseFlag, ProgramFlag, FailFlag, Suffer
  <1>15. CASE JumpToBoot
    BY <1>15 DEF JumpToBoot, Restart
  <1>16. CASE UNCHANGED vars
    BY <1>16
  <1> QED
    BY <1>1, <1>2, <1>3, <1>4, <1>5, <1>6, <1>7, <1>8, <1>9, <1>10, <1>11, <1>12,
       <1>13, <1>14, <1>15, <1>16 DEF Next, HostStep, BootStep, AppStep

\* An interrupted upgrade is recovered and never restarted: for any sizes and
\* any faults but those of the flash, 2000 in the type word means the flag is
\* down, because the flag is lowered first and raised only by an application.
THEOREM InterruptedUpgradeRecoversThm == Spec => []InterruptedUpgradeRecovers
  <1>1. StageInvariant => InterruptedUpgradeRecovers
    BY DEF StageInvariant, Stages, InterruptedUpgradeRecovers
  <1> QED
    BY <1>1, InitType, NextType, InitStages, NextStages, PTL DEF Spec

-------------------------------------------------------------------------------
\* An image stays complete in a bank whose pages do not change.
LEMMA AppKept ==
    (\A p \in 0..(BankPages - 1) : flash'[p] = flash[p]) => (AppWhole' <=> AppWhole)
  BY DEF AppWhole, Whole

LEMMA BackupKept ==
    (\A p \in BankPages..(2 * BankPages - 1) : flash'[p] = flash[p])
      => (BackupWhole' <=> BackupWhole)
  <1> SUFFICES ASSUME \A p \in BankPages..(2 * BankPages - 1) : flash'[p] = flash[p]
               PROVE  BackupWhole' <=> BackupWhole
    OBVIOUS
  <1>1. \A v \in Image : \A b \in 0..(Size[v] - 1) : flash'[BankPages + b] = flash[BankPages + b]
    OBVIOUS
  <1> QED
    BY <1>1 DEF BackupWhole, Whole

\* A bank whose first CopyPages pages equal those of a complete bank holds
\* the same image, because images fit in the copied pages.
LEMMA CopyComplete ==
    ASSUME ImagesFitCopy, NEW src \in {AppBank, BackupBank}, NEW dst \in {AppBank, BackupBank},
           NEW v \in Image, Whole(src, v),
           \A b \in 0..(CopyPages - 1) : flash'[dst + b] = flash[src + b]
    PROVE  Whole(dst, v)'
  BY DEF ImagesFitCopy, Whole

BackingInvariant == harm \subseteq BadTransfer => Backing

LEMMA InitBacking == Init => BackingInvariant
  <1> SUFFICES ASSUME Init PROVE Backing
    BY DEF BackingInvariant
  <1> QED
    BY DEF Init, Backing, HostLoop

\* With no fault but a bad transfer, a complete image stays in one bank.
LEMMA NextBacking ==
    ASSUME ImagesFitCopy, InductiveType, StageInvariant, BackingInvariant, [Next]_vars
    PROVE  BackingInvariant'
  <1> SUFFICES ASSUME harm' \subseteq BadTransfer PROVE Backing'
    BY DEF BackingInvariant
  <1>b. Backing /\ harm \subseteq BadTransfer
    BY HarmGrows DEF BackingInvariant
  <1>s. Stages
    BY <1>b DEF StageInvariant, BadTransfer
  <1>l. TypeOK /\ Loops
    BY DEF InductiveType
  <1>n. /\ "fmc" \notin harm' /\ "malloc" \notin harm'
        /\ "cut" \notin harm' /\ "overrun" \notin harm'
    BY DEF BadTransfer
  <1>f. UNCHANGED flash => (AppWhole' <=> AppWhole) /\ (BackupWhole' <=> BackupWhole)
    BY AppKept, BackupKept
  <1> USE <1>n DEF Suffer
  <1>1. CASE HandleUpgrade
    BY <1>1, <1>b, <1>s, <1>l, <1>f DEF HandleUpgrade, Backing, HostLoop, Loops
  <1>2. CASE StopFlag
    BY <1>2, <1>b, <1>s, <1>l, <1>f
       DEF StopFlag, WriteFlag, EraseFlag, ProgramFlag, FailFlag, Backing, HostLoop, Stages
  <1>3. CASE Mark2000
    <2>1. pc = "mark_2000" /\ i = 0 /\ UNCHANGED <<flash, isupgrade, i>>
      BY <1>3, <1>l DEF Mark2000, WriteType, EraseType, ProgramType, FailType, Loops,
                        CopyLoops, HostLoop
    <2>2. (pc' = "mark_2000" /\ application_type' = "none") \/ pc' = "upgrade_backup"
      BY <1>3 DEF Mark2000, WriteType, EraseType, ProgramType, FailType
    <2> QED
      BY <2>1, <2>2, <1>b, <1>f DEF Backing, HostLoop
  <1>4. CASE Mark1000
    <2>1. /\ pc = "mark_1000" /\ UNCHANGED <<flash, isupgrade>>
          /\ pc' \in {"mark_1000", "reset"} /\ application_type' \in {"none", "1000"}
      BY <1>4 DEF Mark1000, WriteType, EraseType, ProgramType, FailType
    <2> QED
      BY <2>1, <1>b, <1>f DEF Backing, HostLoop
  <1>5. CASE UpgradeBackup
    <2>1. pc = "upgrade_backup" /\ i \in Nat /\ i < CopyPages /\ AppWhole
      BY <1>5, <1>b, <1>l DEF UpgradeBackup, NoMemory, ErasePage, ProgramPage, FailPage,
                              Backing, Loops, CopyLoops, TypeOK
    <2>2. CASE ErasePage("upgrade_backup", BackupBank)
      <3>1. \A p \in Page : p # BankPages + i => flash'[p] = flash[p]
        BY <2>2, <1>l DEF ErasePage, TypeOK
      <3>2. \A p \in 0..(BankPages - 1) : flash'[p] = flash[p]
        BY <3>1, <2>1 DEF Page
      <3>3. AppWhole'
        BY <3>2, <2>1, AppKept
      <3>4. \A b \in 0..(i - 1) : flash'[BankPages + b] = flash'[b]
        BY <3>1, <3>2, <2>1, <1>b DEF Backing, Page
      <3>5. pc' = pc /\ i' = i
        BY <2>2 DEF ErasePage
      <3> QED
        BY <3>3, <3>4, <3>5, <2>1 DEF Backing, HostLoop
    <2>3. CASE ProgramPage("upgrade_backup", BackupBank, flash[AppBank + i], CopyPages,
                           "upgrade_backup", "upgrade_run")
      <3>1. flash' = [flash EXCEPT ![BackupBank + i] = flash[AppBank + i]]
        BY <2>3 DEF ProgramPage
      <3>2. \A p \in 0..(BankPages - 1) : flash'[p] = flash[p]
        BY <3>1, <2>1, <1>l DEF Page, TypeOK
      <3>3. AppWhole'
        BY <3>2, <2>1, AppKept
      <3>4. \A b \in 0..i : flash'[BankPages + b] = flash[b]
        BY <3>1, <2>1, <1>b, <1>l DEF Backing, Page, TypeOK
      <3>5. CASE i + 1 < CopyPages
        <4>1. pc' = "upgrade_backup" /\ i' = i + 1
          BY <2>3, <3>5 DEF ProgramPage, NextPage
        <4>2. \A b \in 0..(i' - 1) : flash'[BankPages + b] = flash'[b]
          BY <4>1, <3>2, <3>4, <2>1
        <4> QED
          BY <4>1, <4>2, <3>3 DEF Backing, HostLoop
      <3>6. CASE ~ (i + 1 < CopyPages)
        <4>1. pc' = "upgrade_run"
          BY <2>3, <3>6 DEF ProgramPage, NextPage
        <4>2. \A b \in 0..(CopyPages - 1) : flash'[BackupBank + b] = flash[AppBank + b]
          BY <3>4, <3>6, <2>1
        <4>3. BackupWhole'
          <5>1. PICK v \in Image : Whole(AppBank, v)
            BY <2>1 DEF AppWhole
          <5>2. Whole(BackupBank, v)'
            BY <4>2, <5>1, CopyComplete
          <5> QED
            BY <5>2 DEF BackupWhole
        <4> QED
          BY <4>1, <4>3, <3>3 DEF Backing, HostLoop
      <3> QED
        BY <3>5, <3>6
    <2> QED
      BY <1>5, <2>2, <2>3 DEF UpgradeBackup, NoMemory, FailPage
  <1>6. CASE ApplicationRecover
    <2>1. /\ pc = "application_recover" /\ i \in Nat /\ i < BankPages
          /\ application_type = "2000" /\ isupgrade = "UPGRADESTOP" /\ BackupWhole
      BY <1>6, <1>b, <1>s, <1>l DEF ApplicationRecover, NoMemory, ErasePage, ProgramPage,
                FailPage, Backing, Stages, Loops, CopyLoops, TypeOK
    <2>2. \E x : flash' = [flash EXCEPT ![AppBank + i] = x]
      BY <1>6 DEF ApplicationRecover, NoMemory, ErasePage, ProgramPage, FailPage
    <2>3. \A p \in BankPages..(2 * BankPages - 1) : flash'[p] = flash[p]
      BY <2>1, <2>2, <1>l DEF Page, TypeOK
    <2>4. pc' \in {"application_recover", "mark_1000"} /\ UNCHANGED words
      BY <1>6 DEF ApplicationRecover, NoMemory, ErasePage, ProgramPage, FailPage, NextPage
    <2> QED
      BY <2>1, <2>3, <2>4, BackupKept DEF Backing, HostLoop
  <1>7. CASE AnnounceBlocks
    <2>1. /\ pc = "upgrade_run" /\ pc' \in {"mark_1000", "receive_page"}
          /\ UNCHANGED <<flash, words>> /\ total_block' <= BankPages
      BY <1>7 DEF AnnounceBlocks
    <2> QED
      BY <2>1, <1>b, <1>f DEF Backing
  <1>8. CASE ReceivePage
    BY <1>8, <1>b, <1>f DEF ReceivePage, Backing, HostLoop
  <1>9. CASE NoPageBuffer
    BY <1>9 DEF NoPageBuffer, NoMemory
  <1>10. CASE WritePage
    <2>1. /\ pc = "write_page" /\ i \in Nat /\ i < BankPages /\ total_block <= BankPages
          /\ application_type = "2000" /\ isupgrade = "UPGRADESTOP" /\ BackupWhole
      BY <1>10, <1>b, <1>s, <1>l DEF WritePage, ErasePage, ProgramPage,
                FailPage, Backing, Stages, Loops, HostLoop, TypeOK
    <2>2. \E x : flash' = [flash EXCEPT ![AppBank + i] = x]
      BY <1>10 DEF WritePage, ErasePage, ProgramPage, FailPage
    <2>3. \A p \in BankPages..(2 * BankPages - 1) : flash'[p] = flash[p]
      BY <2>1, <2>2, <1>l DEF Page, TypeOK
    <2>4. /\ pc' \in {"write_page", "receive_page", "mark_1000"}
          /\ UNCHANGED <<words, total_block>>
      BY <1>10 DEF WritePage, ErasePage, ProgramPage, FailPage, NextPage
    <2> QED
      BY <2>1, <2>3, <2>4, BackupKept DEF Backing, HostLoop
  <1>11. CASE SystemReset
    BY <1>11, <1>b, <1>f DEF SystemReset, Restart, Backing, HostLoop
  <1>12. CASE PowerCut
    BY <1>12, <1>b, <1>f DEF PowerCut, Restart, Backing, HostLoop
  <1>13. CASE RequestUpgrade
    BY <1>13, <1>b, <1>f DEF RequestUpgrade, Backing, HostLoop
  <1>14. CASE ProcessUpgrade
    BY <1>14, <1>b, <1>f DEF ProcessUpgrade, WriteFlag, EraseFlag, ProgramFlag, FailFlag,
                              Backing, HostLoop
  <1>15. CASE JumpToBoot
    BY <1>15, <1>b, <1>f DEF JumpToBoot, Restart, Backing, HostLoop
  <1>16. CASE UNCHANGED vars
    BY <1>16, <1>b, <1>f DEF Backing, HostLoop
  <1> QED
    BY <1>1, <1>2, <1>3, <1>4, <1>5, <1>6, <1>7, <1>8, <1>9, <1>10, <1>11, <1>12,
       <1>13, <1>14, <1>15, <1>16 DEF Next, HostStep, BootStep, AppStep

\* A power cut in the middle of an upgrade or a recovery always finds a
\* complete image to recover from, for every bank size and whatever the host
\* sends, provided images fit in the pages upgrade_backup copies, the blocks
\* stay in the bank, memory and flash work and the backup is not itself cut.
THEOREM RecoverySourceThm == ASSUME ImagesFitCopy PROVE Spec => []RecoverySource
  <1>1. BackingInvariant => RecoverySource
    BY DEF BackingInvariant, Backing, RecoverySource, BadTransfer
  <1>2. InductiveType /\ StageInvariant /\ BackingInvariant /\ [Next]_vars => BackingInvariant'
    BY NextBacking
  <1> QED
    BY <1>1, <1>2, InitType, NextType, InitStages, NextStages, InitBacking, PTL DEF Spec

-------------------------------------------------------------------------------
ProgressInvariant == harm = {} => Progress

LEMMA InitProgress == Init => ProgressInvariant
  <1> SUFFICES ASSUME Init PROVE Progress
    BY DEF ProgressInvariant
  <1>1. AppWhole
    <2>1. PICK v \in Image, w \in Image \cup {NoImage} :
            flash = [p \in Page |->
                       IF p < Size[v] THEN Block(v, p)
                       ELSE IF w # NoImage /\ p \in BankPages..(BankPages + Size[w] - 1)
                              THEN Block(w, p - BankPages)
                              ELSE Garbage]
      BY DEF Init
    <2>2. \A b \in 0..(Size[v] - 1) : b \in Page /\ b < Size[v] /\ AppBank + b = b
      BY DEF Page
    <2> QED
      BY <2>1, <2>2 DEF AppWhole, Whole
  <1> QED
    BY <1>1 DEF Init, Progress, HostLoop

\* Without faults the application bank is complete whenever the type word does
\* not say 2000, and the loops fill it from its first page on.
LEMMA NextProgress ==
    ASSUME ImagesFitCopy, InductiveType, StageInvariant, BackingInvariant,
           ProgressInvariant, [Next]_vars
    PROVE  ProgressInvariant'
  <1> SUFFICES ASSUME harm' = {} PROVE Progress'
    BY DEF ProgressInvariant
  <1>b. Progress /\ Backing /\ Stages
    BY HarmGrows DEF ProgressInvariant, BackingInvariant, StageInvariant
  <1>l. TypeOK /\ Loops
    BY DEF InductiveType
  <1>f. UNCHANGED flash => (AppWhole' <=> AppWhole)
    BY AppKept
  <1> USE DEF Suffer
  <1>1. CASE HandleUpgrade
    BY <1>1, <1>b, <1>l, <1>f DEF HandleUpgrade, Progress, HostLoop, Loops, CopyLoops
  <1>2. CASE StopFlag
    BY <1>2, <1>b, <1>f
       DEF StopFlag, WriteFlag, EraseFlag, ProgramFlag, FailFlag, Progress, HostLoop
  <1>3. CASE Mark2000
    <2>1. /\ pc = "mark_2000" /\ UNCHANGED flash /\ AppWhole
          /\ pc' \in {"mark_2000", "upgrade_backup"}
      BY <1>3, <1>b DEF Mark2000, WriteType, EraseType, ProgramType, FailType, Progress, Stages
    <2> QED
      BY <2>1, <1>f DEF Progress, HostLoop
  <1>4. CASE Mark1000
    <2>1. /\ pc = "mark_1000" /\ UNCHANGED flash /\ AppWhole /\ pc' \in {"mark_1000", "reset"}
      BY <1>4, <1>b DEF Mark1000, WriteType, EraseType, ProgramType, FailType, Progress
    <2> QED
      BY <2>1, <1>f DEF Progress, HostLoop
  <1>5. CASE UpgradeBackup
    <2>1. /\ pc = "upgrade_backup" /\ application_type = "2000"
          /\ pc' \in {"upgrade_backup", "upgrade_run"} /\ UNCHANGED words
      BY <1>5, <1>b DEF UpgradeBackup, NoMemory, ErasePage, ProgramPage, FailPage, NextPage,
                        Stages, CopyLoops
    <2> QED
      BY <2>1 DEF Progress, HostLoop
  <1>6. CASE ApplicationRecover
    <2>1. /\ pc = "application_recover" /\ i \in Nat /\ i < CopyPages
          /\ application_type = "2000" /\ BackupWhole
      BY <1>6, <1>b, <1>l DEF ApplicationRecover, NoMemory, ErasePage, ProgramPage,
                FailPage, Backing, Stages, Loops, CopyLoops, TypeOK
    <2>2. \A b \in 0..(i - 1) : flash[AppBank + b] = flash[BackupBank + b]
      BY <2>1, <1>b DEF Progress
    <2>3. CASE ErasePage("application_recover", AppBank)
      <3>1. \A p \in Page : p # i => flash'[p] = flash[p]
        BY <2>3, <1>l, <2>1 DEF ErasePage, TypeOK
      <3>2. \A b \in 0..(i - 1) : flash'[AppBank + b] = flash'[BackupBank + b]
        BY <3>1, <2>1, <2>2 DEF Page
      <3>3. pc' = pc /\ i' = i /\ UNCHANGED words
        BY <2>3 DEF ErasePage
      <3> QED
        BY <3>2, <3>3, <2>1 DEF Progress, HostLoop
    <2>4. CASE ProgramPage("application_recover", AppBank, flash[BackupBank + i], CopyPages,
                           "application_recover", "mark_1000")
      <3>1. flash' = [flash EXCEPT ![AppBank + i] = flash[BackupBank + i]]
        BY <2>4 DEF ProgramPage
      <3>a. /\ AppBank + i \in Page
            /\ \A b \in 0..i : /\ AppBank + b \in Page /\ BackupBank + b \in Page
                               /\ BackupBank + b # AppBank + i
                               /\ AppBank + b = AppBank + i => b = i
        BY <2>1 DEF Page
      <3>b. /\ flash'[AppBank + i] = flash[BackupBank + i]
            /\ \A p \in Page : p # AppBank + i => flash'[p] = flash[p]
        BY <3>1, <3>a, <1>l DEF TypeOK
      <3>c. \A b \in 0..i : b = i \/ b \in 0..(i - 1)
        BY <2>1
      <3>2. \A b \in 0..i : /\ flash'[AppBank + b] = flash[BackupBank + b]
                            /\ flash'[BackupBank + b] = flash[BackupBank + b]
        BY <3>a, <3>b, <3>c, <2>2
      <3>3. CASE i + 1 < CopyPages
        <4>1. pc' = "application_recover" /\ i' = i + 1 /\ UNCHANGED words
          BY <2>4, <3>3 DEF ProgramPage, NextPage
        <4>2. \A b \in 0..(i' - 1) : flash'[AppBank + b] = flash'[BackupBank + b]
          BY <4>1, <3>2, <2>1
        <4> QED
          BY <4>1, <4>2, <2>1 DEF Progress, HostLoop
      <3>4. CASE ~ (i + 1 < CopyPages)
        <4>1. pc' = "mark_1000" /\ UNCHANGED words
          BY <2>4, <3>4 DEF ProgramPage, NextPage
        <4>2. \A b \in 0..(CopyPages - 1) : flash'[AppBank + b] = flash[BackupBank + b]
          BY <3>2, <3>4, <2>1
        <4>3. AppWhole'
          <5>1. PICK v \in Image : Whole(BackupBank, v)
            BY <2>1 DEF BackupWhole
          <5>2. Whole(AppBank, v)'
            BY <4>2, <5>1, CopyComplete
          <5> QED
            BY <5>2 DEF AppWhole
        <4> QED
          BY <4>1, <4>3 DEF Progress, HostLoop
      <3> QED
        BY <3>3, <3>4
    <2> QED
      BY <1>6, <2>3, <2>4 DEF ApplicationRecover, NoMemory, FailPage
  <1>7. CASE AnnounceBlocks
    <2>1. PICK v \in Image : /\ host' = v /\ total_block' = Size[v] /\ pc' = "receive_page"
      BY <1>7 DEF AnnounceBlocks
    <2>2. /\ pc = "upgrade_run" /\ i = 0 /\ UNCHANGED <<flash, words, i>>
      BY <1>7, <1>l DEF AnnounceBlocks, Loops, CopyLoops, HostLoop
    <2> QED
      BY <2>1, <2>2, <1>b, <1>f DEF Progress, Stages, CopyLoops, HostLoop
  <1>8. CASE ReceivePage
    BY <1>8, <1>b, <1>f DEF ReceivePage, Progress, HostLoop
  <1>9. CASE NoPageBuffer
    BY <1>9 DEF NoPageBuffer, NoMemory
  <1>10. CASE WritePage
    <2>1. /\ pc = "write_page" /\ i \in Nat /\ i < total_block /\ total_block \in Nat
          /\ application_type = "2000" /\ host \in Image
          /\ total_block = Size[host] /\ update_data = Block(host, i)
          /\ \A b \in 0..(i - 1) : flash[AppBank + b] = Block(host, b)
      BY <1>10, <1>b, <1>l DEF WritePage, ErasePage, ProgramPage,
                FailPage, Progress, Stages, Loops, HostLoop, TypeOK
    <2>2. CASE ErasePage("write_page", AppBank)
      <3>1. \A b \in 0..(i - 1) : flash'[AppBank + b] = Block(host, b)
        BY <2>1, <2>2, <1>l DEF ErasePage, TypeOK, Page
      <3>2. UNCHANGED <<words, pc, i, total_block, host, update_data>>
        BY <2>2 DEF ErasePage
      <3> QED
        BY <3>1, <3>2, <2>1 DEF Progress, HostLoop
    <2>3. CASE ProgramPage("write_page", AppBank, update_data, total_block,
                           "receive_page", "mark_1000")
      <3>0. flash' = [flash EXCEPT ![AppBank + i] = update_data]
        BY <2>3 DEF ProgramPage
      <3>1. flash' = [flash EXCEPT ![AppBank + i] = Block(host, i)]
        BY <3>0, <2>1
      <3>2. \A b \in 0..i : flash'[AppBank + b] = Block(host, b)
        BY <3>1, <2>1, <1>l DEF Page, TypeOK
      <3>3. UNCHANGED <<words, total_block, host>>
        BY <2>3 DEF ProgramPage, NextPage
      <3>4. CASE i + 1 < total_block
        <4>1. pc' = "receive_page" /\ i' = i + 1
          BY <2>3, <3>4 DEF ProgramPage, NextPage
        <4>2. \A b \in 0..(i' - 1) : flash'[AppBank + b] = Block(host, b)
          BY <4>1, <3>2, <2>1
        <4> QED
          BY <4>1, <4>2, <3>3, <2>1 DEF Progress, HostLoop
      <3>5. CASE ~ (i + 1 < total_block)
        <4>1. pc' = "mark_1000"
          BY <2>3, <3>5 DEF ProgramPage, NextPage
        <4>2. \A b \in 0..(Size[host] - 1) : flash'[AppBank + b] = Block(host, b)
          BY <3>2, <3>5, <2>1
        <4>3. AppWhole'
          BY <4>2, <2>1 DEF AppWhole, Whole
        <4> QED
          BY <4>1, <4>3 DEF Progress, HostLoop
      <3> QED
        BY <3>4, <3>5
    <2> QED
      BY <1>10, <2>2, <2>3 DEF WritePage, FailPage
  <1>11. CASE SystemReset
    BY <1>11, <1>b, <1>f DEF SystemReset, Restart, Progress, HostLoop
  <1>12. CASE PowerCut
    BY <1>12, <1>b, <1>f DEF PowerCut, Restart, Progress, HostLoop
  <1>13. CASE RequestUpgrade
    BY <1>13, <1>b, <1>f DEF RequestUpgrade, Progress, HostLoop
  <1>14. CASE ProcessUpgrade
    BY <1>14, <1>b, <1>f DEF ProcessUpgrade, WriteFlag, EraseFlag, ProgramFlag, FailFlag,
                              Progress, HostLoop
  <1>15. CASE JumpToBoot
    BY <1>15, <1>b, <1>f DEF JumpToBoot, Restart, Progress, HostLoop
  <1>16. CASE UNCHANGED vars
    BY <1>16, <1>b, <1>f DEF Progress, HostLoop
  <1> QED
    BY <1>1, <1>2, <1>3, <1>4, <1>5, <1>6, <1>7, <1>8, <1>9, <1>10, <1>11, <1>12,
       <1>13, <1>14, <1>15, <1>16 DEF Next, HostStep, BootStep, AppStep

Everything == InductiveType /\ StageInvariant /\ BackingInvariant /\ ProgressInvariant

LEMMA EverythingHolds == ASSUME ImagesFitCopy PROVE Spec => []Everything
  <1>1. Init => Everything
    BY InitType, InitStages, InitBacking, InitProgress DEF Everything
  <1>2. Everything /\ [Next]_vars => Everything'
    BY NextType, NextStages, NextBacking, NextProgress DEF Everything
  <1> QED
    BY <1>1, <1>2, PTL DEF Spec

\* The board never starts a bank that mixes two images, for every image and
\* bank size, whenever the power fails outside upgrade_backup, provided images
\* fit in the pages upgrade_backup copies and no other fault happens.
THEOREM BootsWholeImageThm == ASSUME ImagesFitCopy PROVE Spec => []BootsWholeImage
  <1>1. Everything => BootsWholeImage
    BY DEF Everything, StageInvariant, Stages, ProgressInvariant, Progress, BootsWholeImage
  <1> QED
    BY <1>1, EverythingHolds, PTL
=============================================================================
