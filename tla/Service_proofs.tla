----------------------------- MODULE Service_proofs -----------------------------
(***************************************************************************)
(* Proofs, for any table of registers and any polling order, that the BMS  *)
(* never starts more answers than it was asked for, whatever goes wrong,   *)
(* and that its answers are whole as long as nothing does.                 *)
(***************************************************************************)
EXTENDS Service, FiniteSetTheorems, TLAPS

USE RegisterAssumption, BoundAssumption

\* NeverInitiates, strengthened for the step between the test of a read
\* request and its clearing, when the status word may already be another's.
Asked(r) ==
    (IF status[r] = 1 \/ (pc = "clear_read" /\ here = r) THEN 1 ELSE 0)
  + (IF pc \in Serving /\ here = r THEN 1 ELSE 0)

Requests == \A r \in Register : Asked(r) <= owed[r]

Inductive == TypeOK /\ Requests

\* Every position of the scan holds a register, and the next one is a position.
LEMMA ScanType ==
    /\ \A k \in 1..Len(Scan) : Scan[k] \in Register
    /\ \A k \in 1..Len(Scan) : (k % Len(Scan)) + 1 \in 1..Len(Scan)
  <1>1. Len(Scan) \in Nat \ {0}
    OBVIOUS
  <1>2. \A k \in 1..Len(Scan) : Scan[k] \in Register
    OBVIOUS
  <1>3. \A k, n \in Nat : n # 0 => (k % n) + 1 \in 1..n
    OBVIOUS
  <1> QED
    BY <1>1, <1>2, <1>3

LEMMA InitInductive == Init => Inductive
  <1> SUFFICES ASSUME Init PROVE Inductive
    OBVIOUS
  <1>1. Len(Scan) \in Nat \ {0}
    OBVIOUS
  <1>2. TypeOK
    BY <1>1 DEF Init, TypeOK, Steps, Value, Reply, NoReply
  <1>3. Requests
    BY DEF Init, Requests, Asked, Serving
  <1> QED
    BY <1>2, <1>3 DEF Inductive

LEMMA SufferType ==
    ASSUME NEW L, Suffer(L)
    PROVE  lapses' \in Lapses \cup {{}}
  BY DEF Suffer

\* The interrupt only adds requests that it counts, or overwrites them.
LEMMA FrameStep ==
    ASSUME Inductive, NEW S \in Frame, process_read(S) \/ process_write(S)
    PROVE  Inductive'
  <1> USE DEF Inductive
  <1>1. CASE process_read(S)
    <2>1. lapses' \in Lapses \cup {{}}
      BY <1>1, SufferType DEF process_read
    <2>2. /\ owed' = [r \in Register |-> IF r \in S THEN owed[r] + 1 ELSE owed[r]]
          /\ \A r \in S : owed[r] < MaxOwed
          /\ \E memory \in BOOLEAN :
               status' = [r \in Register |-> IF r \in S /\ memory THEN 1 ELSE status[r]]
          /\ UNCHANGED <<data, main, out, todo>>
      BY <1>1 DEF process_read
    <2>3. status' \in [Register -> {0, 1, 10}]
      BY <2>2 DEF TypeOK
    <2>4. owed' \in [Register -> 0..MaxOwed]
      BY <2>2 DEF TypeOK, Frame
    <2>5. TypeOK'
      BY <2>1, <2>2, <2>3, <2>4 DEF TypeOK, main, out
    <2>6. Requests'
      <3> SUFFICES ASSUME NEW r \in Register PROVE Asked(r)' <= owed'[r]
        BY DEF Requests
      <3>1. UNCHANGED <<pc, here>>
        BY <2>2 DEF main, here
      <3>2. owed[r] \in Nat /\ Asked(r) <= owed[r]
        BY DEF TypeOK, Requests
      <3>3. CASE r \in S
        BY <2>2, <3>1, <3>2, <3>3 DEF Asked, Serving
      <3>4. CASE r \notin S
        BY <2>2, <3>1, <3>2, <3>4 DEF Asked
      <3> QED
        BY <3>3, <3>4
    <2> QED
      BY <2>5, <2>6
  <1>2. CASE process_write(S)
    <2>1. lapses' \in Lapses \cup {{}}
      BY <1>2, SufferType DEF process_write
    <2>2. /\ data' = [r \in Register |-> IF r \in S \cap Writable THEN "written" ELSE data[r]]
          /\ status' = [r \in Register |-> IF r \in S \cap Writable THEN 10 ELSE status[r]]
          /\ todo' = todo \cup (S \cap Writable \cap Polled)
          /\ UNCHANGED <<main, out, owed>>
      BY <1>2 DEF process_write
    <2>3. TypeOK'
      BY <2>1, <2>2 DEF TypeOK, main, out, Value
    <2>4. Requests'
      <3> SUFFICES ASSUME NEW r \in Register PROVE Asked(r)' <= owed'[r]
        BY DEF Requests
      <3>1. UNCHANGED <<pc, here>>
        BY <2>2 DEF main, here
      <3>2. owed[r] \in Nat /\ Asked(r) <= owed[r]
        BY DEF TypeOK, Requests
      <3> QED
        BY <2>2, <3>1, <3>2 DEF Asked
    <2> QED
      BY <2>3, <2>4
  <1> QED
    BY <1>1, <1>2

\* main leaves every variable within its type.
LEMMA MainType ==
    ASSUME Inductive, Main
    PROVE  TypeOK' /\ here \in Register
  <1> USE DEF Inductive
  <1>1. here \in Register
    BY ScanType DEF here, TypeOK
  <1>2. at' \in 1..Len(Scan) /\ pc' \in Steps
    BY ScanType DEF Main, TestRead, ClearRead, Measure, SetData, Serialize, Copy1, Copy2, Copy,
       usartSendDMA, TestWrite, ClearWrite, WriteCommandData, Goto, Advance, Steps, Serving, TypeOK
  <1>3. status' \in [Register -> {0, 1, 10}]
    <2>1. status' = status \/ status' = [status EXCEPT ![here] = 0]
      BY DEF Main, TestRead, ClearRead, Measure, SetData, Serialize, Copy1, Copy2, Copy,
         usartSendDMA, TestWrite, ClearWrite, WriteCommandData
    <2> QED
      BY <1>1, <2>1 DEF TypeOK
  <1>4. data' \in [Register -> Value] /\ voltage_value' \in Value
    <2>1. /\ data' = data \/ data' = [data EXCEPT ![here] = voltage_value]
          /\ voltage_value' = voltage_value \/ voltage_value' \in {"measured", "zero"}
      BY DEF Main, TestRead, ClearRead, Measure, SetData, Serialize, Copy1, Copy2, Copy,
         usartSendDMA, TestWrite, ClearWrite, WriteCommandData
    <2> QED
      BY <1>1, <2>1 DEF TypeOK, Value
  <1>5. serialized' \in Reply /\ send_buffer' \in [1..2 -> Reply]
    <2>1. <<here, data[here]>> \in Reply
      BY <1>1 DEF Reply, TypeOK
    <2>2. /\ serialized' = serialized \/ serialized' = <<here, data[here]>>
          /\ \/ send_buffer' = send_buffer
             \/ \E h \in 1..2 : send_buffer' = [send_buffer EXCEPT ![h] = serialized]
      BY DEF Main, TestRead, ClearRead, Measure, SetData, Serialize, Copy1, Copy2, Copy,
         usartSendDMA, TestWrite, ClearWrite, WriteCommandData, out
    <2> QED
      BY <2>1, <2>2 DEF TypeOK
  <1>6. dma' \in 0..2 /\ line' \in Reply
    BY DEF Main, TestRead, ClearRead, Measure, SetData, Serialize, Copy1, Copy2, Copy,
       usartSendDMA, TestWrite, ClearWrite, WriteCommandData, out, TypeOK
  <1>7. owed' \in [Register -> 0..MaxOwed]
    <2>1. owed' = owed \/ (At("start") /\ owed' = [owed EXCEPT ![here] = @ - 1])
      BY DEF Main, TestRead, ClearRead, Measure, SetData, Serialize, Copy1, Copy2, Copy,
         usartSendDMA, TestWrite, ClearWrite, WriteCommandData, hist
    <2>2. At("start") => owed[here] >= 1
      BY <1>1 DEF At, Serving, Requests, Asked, TypeOK
    <2>3. owed \in [Register -> 0..MaxOwed] /\ MaxOwed \in Nat
      BY DEF TypeOK
    <2>4. At("start") => owed[here] - 1 \in 0..MaxOwed
      BY <1>1, <2>2, <2>3
    <2> QED
      BY <1>1, <2>1, <2>3, <2>4
  <1>8. todo' \subseteq Register
    BY DEF Main, TestRead, ClearRead, Measure, SetData, Serialize, Copy1, Copy2, Copy,
       usartSendDMA, TestWrite, ClearWrite, WriteCommandData, hist, TypeOK
  <1>9. lapses' \in Lapses \cup {{}}
    <2>1. lapses' = lapses \/ Suffer({"i2c"}) \/ Suffer({"malloc"})
      BY DEF Main, TestRead, ClearRead, Measure, SetData, Serialize, Copy1, Copy2, Copy,
         usartSendDMA, TestWrite, ClearWrite, WriteCommandData, hist
    <2> QED
      BY <2>1, SufferType DEF TypeOK
  <1> QED
    BY <1>1, <1>2, <1>3, <1>4, <1>5, <1>6, <1>7, <1>8, <1>9 DEF TypeOK

\* main serves a request it has cleared, and pays for the answer it starts.
LEMMA MainRequests ==
    ASSUME Inductive, Main
    PROVE  Requests'
  <1> SUFFICES ASSUME NEW r \in Register PROVE Asked(r)' <= owed'[r]
    BY DEF Requests
  <1> USE DEF At, Goto, Advance, main, out, hist, here, Serving
  <1>1. here \in Register
    BY MainType
  <1>2. owed \in [Register -> Nat] /\ status \in [Register -> {0, 1, 10}] /\ Asked(r) <= owed[r]
    BY DEF Inductive, TypeOK, Requests
  <1>3. CASE TestRead
    BY <1>2, <1>3 DEF TestRead, Asked
  <1>4. CASE ClearRead
    BY <1>1, <1>2, <1>4 DEF ClearRead, Asked
  <1>5. CASE Measure \/ SetData \/ Serialize
    BY <1>2, <1>5 DEF Measure, SetData, Serialize, Asked
  <1>6. CASE Copy1 \/ Copy2
    BY <1>2, <1>6 DEF Copy1, Copy2, Copy, Asked
  <1>7. CASE usartSendDMA
    BY <1>1, <1>2, <1>7 DEF usartSendDMA, Asked
  <1>8. CASE TestWrite
    BY <1>2, <1>8 DEF TestWrite, Asked
  <1>9. CASE ClearWrite
    BY <1>1, <1>2, <1>9 DEF ClearWrite, Asked
  <1>10. CASE WriteCommandData
    BY <1>2, <1>10 DEF WriteCommandData, Asked
  <1> QED
    BY <1>3, <1>4, <1>5, <1>6, <1>7, <1>8, <1>9, <1>10 DEF Main

LEMMA NextInductive == Inductive /\ [Next]_vars => Inductive'
  <1> SUFFICES ASSUME Inductive, [Next]_vars PROVE Inductive'
    OBVIOUS
  <1>1. CASE process_reply
    BY <1>1, FrameStep DEF process_reply
  <1>2. CASE Main
    BY <1>2, MainType, MainRequests DEF Inductive
  <1>3. CASE DmaSends
    BY <1>3 DEF DmaSends, Inductive, TypeOK, Requests, Asked, here, main, hist
  <1>4. CASE UNCHANGED vars
    BY <1>4 DEF vars, Inductive, TypeOK, Requests, Asked, here, main, out, hist
  <1> QED
    BY <1>1, <1>2, <1>3, <1>4 DEF Next

\* Every variable keeps its type: no answer is counted that nobody waits for.
THEOREM TypeCorrect == Spec => []TypeOK
  <1>1. Inductive => TypeOK
    BY DEF Inductive
  <1> QED
    BY <1>1, InitInductive, NextInductive, PTL DEF Spec

\* The BMS speaks only when spoken to, whatever the host does and whatever
\* fails: a register has at most as many answers asked or under way as reads.
THEOREM NeverInitiatesThm == Spec => []NeverInitiates
  <1>1. Inductive => NeverInitiates
    <2> SUFFICES ASSUME Inductive, NEW r \in Register
                 PROVE  (IF status[r] = 1 THEN 1 ELSE 0)
                      + (IF pc \in Serving /\ here = r THEN 1 ELSE 0) <= owed[r]
      BY DEF NeverInitiates
    <2>1. owed[r] \in Nat /\ Asked(r) <= owed[r]
      BY DEF Inductive, TypeOK, Requests
    <2> QED
      BY <2>1 DEF Asked
  <1> QED
    BY <1>1, InitInductive, NextInductive, PTL DEF Spec

-------------------------------------------------------------------------------
(* A host that waits for its answers and reads one register at a time has  *)
(* one answer due at a time, and while it is due main and the DMA have     *)
(* send_buffer, and main the register, to themselves.                      *)

OneAnswerDue ==
    /\ \A r \in Register : owed[r] <= 1
    /\ \A r, s \in Register : owed[r] > 0 /\ owed[s] > 0 => r = s
    /\ dma > 0 => \A r \in Register : owed[r] = 0

\* What the steps of send_reply_data have done, and what the DMA sends.
AnswerMade ==
    /\ pc = "set_data" => voltage_value \in Measurement
    /\ pc = "serialize" => data[here] \in Measurement
    /\ pc \in {"copy_1", "copy_2", "start"} => \E v \in Measurement : serialized = <<here, v>>
    /\ pc \in {"copy_2", "start"} => send_buffer[1] = serialized
    /\ pc = "start" => send_buffer[2] = serialized
    /\ dma > 0 => send_buffer[1] = send_buffer[2] /\ send_buffer[2][2] \in Measurement
    /\ dma = 1 => line = send_buffer[2]

Waits == lapses \cap {"overlap", "multi"} = {}

Undisturbed == Waits => OneAnswerDue /\ AnswerMade

\* Lapses are never forgotten, so that a measurement stays one.
LEMMA LapsesStay ==
    ASSUME [Next]_vars
    PROVE  lapses \subseteq lapses' /\ (Waits' => Waits) /\ Measurement \subseteq Measurement'
  <1>1. lapses \subseteq lapses'
    BY DEF Next, process_reply, process_read, process_write, Main, TestRead, ClearRead, Measure,
       SetData, Serialize, Copy1, Copy2, Copy, usartSendDMA, TestWrite, ClearWrite,
       WriteCommandData, DmaSends, Suffer, vars, main, out, hist
  <1> QED
    BY <1>1 DEF Waits, Measurement

\* While main serves a register its answer is due, so that the DMA is idle.
LEMMA ServesAlone ==
    ASSUME Inductive, OneAnswerDue, pc \in Serving \cup {"clear_read"}
    PROVE  here \in Register /\ owed[here] = 1 /\ dma = 0
  <1>1. here \in Register
    BY ScanType DEF here, Inductive, TypeOK
  <1>2. owed[here] \in Nat /\ Asked(here) <= owed[here] /\ dma \in 0..2
    BY <1>1 DEF Inductive, TypeOK, Requests
  <1>3. owed[here] >= 1
    BY <1>2 DEF Asked, Serving
  <1> QED
    BY <1>1, <1>2, <1>3 DEF OneAnswerDue

\* Nothing is due and nothing is sent at the start.
LEMMA InitUndisturbed == Init => Undisturbed
  BY DEF Init, Undisturbed, OneAnswerDue, AnswerMade

\* Such a host sends a frame only when no answer is due, and reads one register
\* with it.
LEMMA FrameUndisturbed ==
    ASSUME Inductive, OneAnswerDue, AnswerMade, Waits',
           NEW S \in Frame, process_read(S) \/ process_write(S)
    PROVE  (OneAnswerDue /\ AnswerMade)'
  <1>2. dma \in 0..2 /\ owed \in [Register -> Nat]
    BY DEF Inductive, TypeOK
  <1>3. ~(dma > 0 \/ \E r \in Register : owed[r] > 0)
    <2>1. "overlap" \notin HostLapses(S)
      BY DEF process_read, process_write, Suffer, Waits
    <2> QED
      BY <2>1 DEF HostLapses
  <1>4. dma = 0 /\ \A r \in Register : owed[r] = 0
    BY <1>2, <1>3
  <1>5. pc \notin Serving
    BY <1>4, ServesAlone
  <1>6. UNCHANGED <<pc, here, out, voltage_value, serialized>>
    BY DEF process_read, process_write, main, here
  <1>7. AnswerMade'
    BY <1>4, <1>5, <1>6 DEF AnswerMade, Serving, out
  <1>8. OneAnswerDue'
    <2>1. CASE process_write(S)
      BY <1>4, <1>6, <2>1 DEF process_write, OneAnswerDue, out
    <2>2. CASE process_read(S)
      <3>1. Cardinality(S) \in 1..3 /\ ~(Cardinality(S) > 1)
        BY <2>2 DEF process_read, Suffer, Frame, MAX_PUDATA_COUNT, Waits
      <3>2. S \subseteq Register /\ IsFiniteSet(S)
        BY FS_Subset DEF Frame
      <3>3. \E x : S = {x}
        <4>1. Cardinality(S) = 1
          BY <3>1
        <4> QED
          BY <3>2, <4>1, FS_Singleton
      <3>4. owed' = [r \in Register |-> IF r \in S THEN 1 ELSE 0]
        BY <1>4, <2>2 DEF process_read
      <3> QED
        BY <1>4, <1>6, <3>2, <3>3, <3>4 DEF OneAnswerDue, out
    <2> QED
      BY <2>1, <2>2
  <1> QED
    BY <1>7, <1>8

\* main makes the answer step by step with the DMA idle, and starts the DMA on
\* the one answer that is due.
LEMMA MainUndisturbed ==
    ASSUME Inductive, OneAnswerDue, AnswerMade, Waits', Main
    PROVE  (OneAnswerDue /\ AnswerMade)'
  <1> USE DEF At, Goto, Advance, main, out, hist, here
  <1>0. Measurement \subseteq Measurement'
    BY LapsesStay DEF Next
  <1>1. /\ dma \in 0..2 /\ owed \in [Register -> Nat]
        /\ data \in [Register -> Value] /\ send_buffer \in [1..2 -> Reply]
    BY DEF Inductive, TypeOK
  <1>2. pc \in Serving => here \in Register /\ owed[here] = 1 /\ dma = 0
    BY ServesAlone
  <1>3. CASE TestRead \/ ClearRead \/ TestWrite \/ ClearWrite \/ WriteCommandData
    <2>1. /\ UNCHANGED <<owed, dma, line, send_buffer>>
          /\ pc' \notin {"set_data", "serialize", "copy_1", "copy_2", "start"}
      BY <1>3 DEF TestRead, ClearRead, TestWrite, ClearWrite, WriteCommandData
    <2> QED
      BY <2>1, <1>0 DEF OneAnswerDue, AnswerMade
  <1>4. CASE Measure
    <2>1. /\ UNCHANGED <<owed, dma, line, send_buffer>>
          /\ \/ pc' = "set_data" /\ voltage_value' \in Measurement'
             \/ pc' = "test_write"
      BY <1>4 DEF Measure, Suffer, Measurement
    <2> QED
      BY <2>1, <1>0 DEF OneAnswerDue, AnswerMade
  <1>5. CASE SetData
    <2>1. /\ UNCHANGED <<owed, dma, line, send_buffer, at>>
          /\ pc' = "serialize" /\ data'[here] \in Measurement'
      BY <1>1, <1>2, <1>5, <1>0 DEF SetData, AnswerMade, Serving
    <2> QED
      BY <2>1, <1>0 DEF OneAnswerDue, AnswerMade
  <1>6. CASE Serialize
    <2>1. /\ UNCHANGED <<owed, dma, line, send_buffer, at>>
          /\ \/ pc' = "copy_1" /\ \E v \in Measurement' : serialized' = <<here, v>>
             \/ pc' = "test_write"
      BY <1>6, <1>0 DEF Serialize, AnswerMade, Suffer
    <2> QED
      BY <2>1, <1>0 DEF OneAnswerDue, AnswerMade
  <1>7. CASE Copy1
    <2>1. /\ UNCHANGED <<owed, dma, line, serialized, at>> /\ dma = 0
          /\ pc' = "copy_2" /\ (\E v \in Measurement' : serialized = <<here, v>>)
          /\ send_buffer'[1] = serialized
      BY <1>1, <1>2, <1>7, <1>0 DEF Copy1, Copy, AnswerMade, Serving
    <2> QED
      BY <2>1, <1>0 DEF OneAnswerDue, AnswerMade
  <1>8. CASE Copy2
    <2>1. /\ UNCHANGED <<owed, dma, line, serialized, at>> /\ dma = 0
          /\ pc' = "start" /\ (\E v \in Measurement' : serialized = <<here, v>>)
          /\ send_buffer'[1] = serialized /\ send_buffer'[2] = serialized
      BY <1>1, <1>2, <1>8, <1>0 DEF Copy2, Copy, AnswerMade, Serving
    <2> QED
      BY <2>1, <1>0 DEF OneAnswerDue, AnswerMade
  <1>9. CASE usartSendDMA
    <2>1. /\ UNCHANGED <<line, send_buffer>> /\ dma = 0 /\ dma' = 2
          /\ owed' = [owed EXCEPT ![here] = @ - 1] /\ pc' = "test_write"
          /\ here \in Register /\ owed[here] = 1
      BY <1>2, <1>9 DEF usartSendDMA, Serving
    <2>2. \A r \in Register : owed'[r] = 0
      <3> SUFFICES ASSUME NEW r \in Register PROVE owed'[r] = 0
        OBVIOUS
      <3>1. CASE r = here
        BY <1>1, <2>1, <3>1
      <3>2. CASE r # here
        BY <1>1, <2>1, <3>2 DEF OneAnswerDue
      <3> QED
        BY <3>1, <3>2
    <2>3. send_buffer[1] = send_buffer[2] /\ send_buffer[2][2] \in Measurement'
      BY <1>9, <1>0 DEF usartSendDMA, AnswerMade
    <2> QED
      BY <2>1, <2>2, <2>3 DEF OneAnswerDue, AnswerMade
  <1> QED
    BY <1>3, <1>4, <1>5, <1>6, <1>7, <1>8, <1>9 DEF Main

\* No step of the interrupt, main or the DMA disturbs an answer.
LEMMA NextUndisturbed ==
    ASSUME Inductive, Undisturbed, [Next]_vars
    PROVE  Undisturbed'
  <1> SUFFICES ASSUME Waits' PROVE (OneAnswerDue /\ AnswerMade)'
    BY DEF Undisturbed
  <1>1. OneAnswerDue /\ AnswerMade
    BY LapsesStay DEF Undisturbed
  <1>2. CASE process_reply
    BY <1>1, <1>2, FrameUndisturbed DEF process_reply
  <1>3. CASE Main
    BY <1>1, <1>3, MainUndisturbed
  <1>4. CASE DmaSends
    <2>1. dma \in 0..2 /\ pc \notin Serving
      BY <1>1, <1>4, ServesAlone DEF DmaSends, Inductive, TypeOK
    <2> QED
      BY <1>1, <1>4, <2>1 DEF DmaSends, OneAnswerDue, AnswerMade, Measurement, Serving, here, main, hist
  <1>5. CASE UNCHANGED vars
    BY <1>1, <1>5 DEF vars, OneAnswerDue, AnswerMade, Measurement, here, main, out, hist
  <1> QED
    BY <1>2, <1>3, <1>4, <1>5 DEF Next

\* Every frame on the line is one answer from its first byte to its last, with
\* the value of the measurement made for it, for a host that waits for its
\* answers and reads one register at a time: although main does not ask the DMA
\* before it writes send_buffer, nor stops the interrupt between measuring and
\* sending, and whether or not memory or the battery monitor fails.
THEOREM FramesAreWholeThm == Spec => FramesAreWhole
  <1>1. Inductive /\ Undisturbed /\ [Next]_vars =>
          [dma = 1 /\ dma' = 0 /\ lapses \cap {"overlap", "multi"} = {}
             => line = send_buffer[2] /\ line[2] \in Measurement]_vars
    BY DEF Undisturbed, AnswerMade, Waits
  <1>2. Inductive /\ Undisturbed /\ [Next]_vars => Undisturbed'
    BY NextUndisturbed
  <1> QED
    BY <1>1, <1>2, InitInductive, NextInductive, InitUndisturbed, PTL DEF Spec, FramesAreWhole
=============================================================================
