-------------------------- MODULE FrameReceiver_proofs --------------------------
(***************************************************************************)
(* Proofs that the frame receiver keeps its buffer and heap in order, and  *)
(* that it is deaf after an odd slip, for behaviours of any length.        *)
(***************************************************************************)
EXTENDS FrameReceiver, TLAPS

USE DEF MAX_PUDATA_COUNT, MAX_FRAME_LENGTH, sizeof_Bufdata, FrameLength, States

\* The bytes in the buffer, the bytes of the host's frame and the slip of the
\* line are even in sum.
Parity == (received_buffer_number + sent + slip) % 2 = 0

\* While the buffer holds the start of the host's frame, the parser has taken
\* exactly the bytes that were sent, and knows the frame's length.
InSync ==
    synced /\ current_state # "RECEIVING_ADDRESS" =>
        /\ sent = received_buffer_number
        /\ dataField => dataCount = records

\* The counter stays within what the state counts.
Counters ==
    /\ current_state \in {"RECEIVING_ADDRESS", "RECEIVING_FUNCTION"} => bytes_counter = 0
    /\ current_state \in {"RECEIVING_DATA_LENGTH", "RECEIVING_CRC"} => bytes_counter \in 0..1
    /\ current_state = "RECEIVING_DATA" => bytes_counter < sizeof_Bufdata * dataCount

Buffer == BufferMatchesState /\ Counters

Inductive == TypeOK /\ Buffer /\ Parity /\ InSync /\ sent < FrameLength(records)

ParserType ==
    /\ current_state \in States
    /\ dataCount \in 0..(MAX_PUDATA_COUNT + 1)
    /\ dataField \in BOOLEAN
    /\ bytes_counter \in 0..(sizeof_Bufdata * MAX_PUDATA_COUNT)
    /\ received_buffer_number \in 0..MAX_FRAME_LENGTH

LEMMA ResetType == reset_reception => ParserType'
  <1> USE DEF reset_reception
  <1>1. reset_reception => dataField' \in BOOLEAN
    OBVIOUS
  <1>2. reset_reception => current_state' \in States /\ dataCount' \in 0..(MAX_PUDATA_COUNT + 1)
    OBVIOUS
  <1>3. reset_reception => /\ bytes_counter' \in 0..(sizeof_Bufdata * MAX_PUDATA_COUNT)
                           /\ received_buffer_number' \in 0..MAX_FRAME_LENGTH
    OBVIOUS
  <1> QED
    BY <1>1, <1>2, <1>3 DEF ParserType

\* One byte takes the buffer one byte on, or back to its start after an even
\* number of bytes.
BufferMoves ==
    \/ received_buffer_number' = received_buffer_number + 1
    \/ /\ received_buffer_number' = 0
       /\ current_state' = "RECEIVING_ADDRESS"
       /\ (received_buffer_number + 1) % 2 = 0

\* A byte of the host's frame is kept, unless it ends the frame or is refused.
ByteKept(ok) ==
    ok /\ current_state' # "RECEIVING_ADDRESS" =>
        /\ received_buffer_number' = received_buffer_number + 1
        /\ dataField' => dataCount' = IF dataField THEN dataCount ELSE records

\* A frame is executed only with the last byte of a frame of the host.
ExecutesOnlyWhole(ok) ==
    /\ executed' \in BOOLEAN
    /\ executed' => ok /\ current_state = "RECEIVING_CRC" /\ bytes_counter # 0

ParserStep(ok) ==
    /\ ParserType' /\ Buffer'
    /\ BufferMoves
    /\ ByteKept(ok)
    /\ ExecutesOnlyWhole(ok)

LEMMA TakeAddressStep ==
    ASSUME TypeOK, Buffer, NEW ok \in BOOLEAN, TakeAddress(ok)
    PROVE  ParserStep(ok)
  <1> USE DEF TypeOK, Buffer, Counters, BufferMatchesState, TakeAddress, reset_reception
  <1>1. ParserType'
    BY DEF ParserType
  <1>2. Buffer'
    OBVIOUS
  <1>3. BufferMoves
    BY DEF BufferMoves
  <1>4. ByteKept(ok)
    BY DEF ByteKept
  <1>5. ExecutesOnlyWhole(ok)
    BY DEF ExecutesOnlyWhole
  <1> QED
    BY <1>1, <1>2, <1>3, <1>4, <1>5 DEF ParserStep

LEMMA TakeFunctionStep ==
    ASSUME TypeOK, Buffer, NEW ok \in BOOLEAN, TakeFunction(ok)
    PROVE  ParserStep(ok)
  <1> USE DEF TypeOK, Buffer, Counters, BufferMatchesState, TakeFunction
  <1>1. ParserType'
    <2>1. CASE reset_reception
      BY <2>1, ResetType
    <2>2. CASE ~ reset_reception
      BY <2>2 DEF ParserType
    <2> QED
      BY <2>1, <2>2
  <1>2. Buffer'
    <2>1. CASE reset_reception
      BY <2>1 DEF reset_reception
    <2>2. CASE ~ reset_reception
      BY <2>2
    <2> QED
      BY <2>1, <2>2
  <1>3. BufferMoves
    <2>1. CASE reset_reception
      BY <2>1 DEF BufferMoves, reset_reception
    <2>2. CASE ~ reset_reception
      BY <2>2 DEF BufferMoves
    <2> QED
      BY <2>1, <2>2
  <1>4. ByteKept(ok)
    BY DEF ByteKept, reset_reception
  <1>5. ExecutesOnlyWhole(ok)
    BY DEF ExecutesOnlyWhole
  <1> QED
    BY <1>1, <1>2, <1>3, <1>4, <1>5 DEF ParserStep

LEMMA TakeLengthStep ==
    ASSUME TypeOK, Buffer, NEW ok \in BOOLEAN, TakeLength(ok)
    PROVE  ParserStep(ok)
  <1> USE DEF TypeOK, Buffer, Counters, BufferMatchesState, TakeLength
  <1>1. ParserType'
    <2>1. CASE reset_reception
      BY <2>1, ResetType
    <2>2. CASE ~ reset_reception
      <3>1. /\ current_state' \in States
            /\ dataCount' \in 0..(MAX_PUDATA_COUNT + 1)
            /\ bytes_counter' \in 0..1
            /\ received_buffer_number' = received_buffer_number + 1
            /\ received_buffer_number < 4
        BY <2>2
      <3>2. dataField' = dataField \/ dataField' = TRUE
        BY <2>2
      <3>3. dataField' \in BOOLEAN
        BY <3>2
      <3> QED
        BY <3>1, <3>3 DEF ParserType
    <2> QED
      BY <2>1, <2>2
  <1>2. Buffer'
    <2>1. CASE reset_reception
      BY <2>1 DEF reset_reception
    <2>2. CASE ~ reset_reception
      BY <2>2
    <2> QED
      BY <2>1, <2>2
  <1>3. BufferMoves
    <2>1. CASE reset_reception
      BY <2>1 DEF BufferMoves, reset_reception
    <2>2. CASE ~ reset_reception
      BY <2>2 DEF BufferMoves
    <2> QED
      BY <2>1, <2>2
  <1>4. ByteKept(ok)
    BY DEF ByteKept, reset_reception
  <1>5. ExecutesOnlyWhole(ok)
    BY DEF ExecutesOnlyWhole
  <1> QED
    BY <1>1, <1>2, <1>3, <1>4, <1>5 DEF ParserStep

LEMMA TakeDataStep ==
    ASSUME TypeOK, Buffer, NEW ok \in BOOLEAN, TakeData(ok)
    PROVE  ParserStep(ok)
  <1> USE DEF TypeOK, Buffer, Counters, BufferMatchesState, TakeData, reset_reception
  <1>1. ParserType'
    BY DEF ParserType
  <1>2. Buffer'
    OBVIOUS
  <1>3. BufferMoves
    BY DEF BufferMoves
  <1>4. ByteKept(ok)
    BY DEF ByteKept
  <1>5. ExecutesOnlyWhole(ok)
    BY DEF ExecutesOnlyWhole
  <1> QED
    BY <1>1, <1>2, <1>3, <1>4, <1>5 DEF ParserStep

LEMMA TakeCrcStep ==
    ASSUME TypeOK, Buffer, NEW ok \in BOOLEAN, TakeCrc(ok)
    PROVE  ParserStep(ok)
  <1> USE DEF TypeOK, Buffer, Counters, BufferMatchesState, TakeCrc
  <1>0. ASSUME ~ reset_reception
        PROVE  /\ current_state = "RECEIVING_CRC" /\ bytes_counter = 0 /\ bytes_counter' = 1
               /\ received_buffer_number' = received_buffer_number + 1
               /\ UNCHANGED <<current_state, dataCount, dataField>>
    BY <1>0
  <1>1. ParserType'
    <2>1. CASE reset_reception
      BY <2>1, ResetType
    <2>2. CASE ~ reset_reception
      BY <2>2, <1>0 DEF ParserType
    <2> QED
      BY <2>1, <2>2
  <1>2. Buffer'
    <2>1. CASE reset_reception
      BY <2>1 DEF reset_reception
    <2>2. CASE ~ reset_reception
      BY <2>2, <1>0
    <2> QED
      BY <2>1, <2>2
  <1>3. BufferMoves
    <2>1. CASE reset_reception
      BY <2>1 DEF BufferMoves, reset_reception
    <2>2. CASE ~ reset_reception
      BY <2>2 DEF BufferMoves
    <2> QED
      BY <2>1, <2>2
  <1>4. ByteKept(ok)
    BY DEF ByteKept, reset_reception
  <1>5. ExecutesOnlyWhole(ok)
    BY DEF ExecutesOnlyWhole
  <1> QED
    BY <1>1, <1>2, <1>3, <1>4, <1>5 DEF ParserStep

LEMMA ParserSteps ==
    ASSUME TypeOK, Buffer, NEW ok \in BOOLEAN, parse_received_data(ok)
    PROVE  ParserStep(ok)
  BY TakeAddressStep, TakeFunctionStep, TakeLengthStep, TakeDataStep, TakeCrcStep
     DEF parse_received_data

\* The host's next byte: one further in the same frame, or the first of
\* another after the last, an odd number of bytes further on.
LEMMA HostStep ==
    ASSUME TypeOK, sent < FrameLength(records), HostSends
    PROVE  /\ sent' < FrameLength(records')
           /\ sent' \in 0..(FrameLength(MAX_PUDATA_COUNT) - 1)
           /\ records' \in 1..MAX_PUDATA_COUNT
           /\ (sent' = sent + 1 /\ records' = records) \/ (sent' = 0 /\ (sent + 1) % 2 = 0)
           /\ sent + 1 < FrameLength(records) => sent' = sent + 1 /\ records' = records
  BY DEF TypeOK, HostSends

\* A byte of the host's frame after which the parser is not back at the start
\* is not the last of the frame.
LEMMA NotLastByte ==
    ASSUME TypeOK, Buffer, NEW ok \in BOOLEAN, parse_received_data(ok),
           current_state' # "RECEIVING_ADDRESS", dataField => dataCount = records
    PROVE  received_buffer_number + 1 < FrameLength(records)
  <1> USE DEF TypeOK, Buffer, Counters, BufferMatchesState
  <1>1. CASE current_state # "RECEIVING_CRC"
    BY <1>1
  <1>2. CASE current_state = "RECEIVING_CRC"
    <2>1. TakeCrc(ok) /\ bytes_counter = 0
      BY <1>2 DEF parse_received_data, TakeAddress, TakeFunction, TakeLength, TakeData,
         TakeCrc, reset_reception
    <2> QED
      BY <1>2, <2>1
  <1> QED
    BY <1>1, <1>2

LEMMA InitInductive == Init => Inductive
  <1> SUFFICES ASSUME Init PROVE Inductive
    OBVIOUS
  <1>1. TypeOK
    <2>1. dataField \in BOOLEAN /\ synced \in BOOLEAN /\ executed \in BOOLEAN
      BY DEF Init
    <2>2. /\ current_state \in States
          /\ dataCount = 0 /\ bytes_counter = 0 /\ received_buffer_number = 0
          /\ sent = 0 /\ slip = 0 /\ records \in 1..MAX_PUDATA_COUNT
      BY DEF Init
    <2> QED
      BY <2>1, <2>2 DEF TypeOK
  <1>2. Buffer
    BY DEF Init, Buffer, Counters, BufferMatchesState
  <1>3. Parity /\ InSync /\ sent < FrameLength(records)
    BY DEF Init, Parity, InSync
  <1> QED
    BY <1>1, <1>2, <1>3 DEF Inductive

\* A byte of the host, whole (synced' = InStep) or damaged (synced' = FALSE).
LEMMA HostByte ==
    ASSUME Inductive, NEW ok \in BOOLEAN, ok => InStep,
           HostSends, synced' = ok, parse_received_data(ok), UNCHANGED slip
    PROVE  Inductive'
  <1> USE DEF Inductive
  <1>1. ParserStep(ok)
    BY ParserSteps
  <1>2. TypeOK' /\ Buffer'
    BY <1>1, HostStep DEF TypeOK, ParserStep, ParserType, ExecutesOnlyWhole
  <1>3. Parity'
    <2>1. BufferMoves /\ received_buffer_number \in Nat /\ sent \in Nat /\ slip \in Nat
      BY <1>1 DEF ParserStep, TypeOK
    <2>2. (sent' = sent + 1) \/ (sent' = 0 /\ (sent + 1) % 2 = 0)
      BY HostStep
    <2> QED
      BY <2>1, <2>2 DEF Parity, BufferMoves
  <1>4. InSync'
    <2> SUFFICES ASSUME ok, current_state' # "RECEIVING_ADDRESS" PROVE InSync'
      BY DEF InSync
    <2>1. sent = received_buffer_number
      BY DEF InSync, InStep, Buffer, BufferMatchesState, TypeOK
    <2>2. dataField => dataCount = records
      BY DEF InSync, InStep, Buffer, BufferMatchesState, TypeOK
    <2>3. received_buffer_number' = received_buffer_number + 1
      BY <1>1 DEF ParserStep, ByteKept
    <2>4. sent + 1 < FrameLength(records)
      BY <2>1, <2>2, NotLastByte DEF InStep
    <2>5. sent' = sent + 1 /\ records' = records
      BY <2>4, HostStep
    <2>6. dataField' => dataCount' = records
      BY <1>1, <2>2 DEF ParserStep, ByteKept
    <2> QED
      BY <2>1, <2>3, <2>5, <2>6 DEF InSync
  <1>5. sent' < FrameLength(records')
    BY HostStep
  <1> QED
    BY <1>2, <1>3, <1>4, <1>5

LEMMA NextInductive == Inductive /\ [Next]_vars => Inductive'
  <1> SUFFICES ASSUME Inductive, [Next]_vars PROVE Inductive'
    OBVIOUS
  <1>1. CASE ByteArrives
    <2>1. InStep \in BOOLEAN
      BY DEF InStep, Inductive, TypeOK
    <2> QED
      BY <1>1, <2>1, HostByte DEF ByteArrives
  <1>2. CASE ByteDamaged
    BY <1>2, HostByte DEF ByteDamaged
  <1>3. CASE ByteLost
    <2>1. TypeOK' /\ sent' < FrameLength(records')
      <3>1. /\ synced' = FALSE /\ executed' = FALSE /\ slip' = 1 - slip /\ UNCHANGED parser
            /\ HostSends
        BY <1>3 DEF ByteLost
      <3>2. synced' \in BOOLEAN /\ executed' \in BOOLEAN
        BY <3>1
      <3>3. slip' \in 0..1
        BY <3>1 DEF Inductive, TypeOK
      <3>4. /\ sent' \in 0..(FrameLength(MAX_PUDATA_COUNT) - 1) /\ sent' < FrameLength(records')
            /\ records' \in 1..MAX_PUDATA_COUNT
        BY <3>1, HostStep DEF Inductive
      <3> QED
        BY <3>1, <3>2, <3>3, <3>4 DEF TypeOK, parser, Inductive
    <2>3. Buffer' /\ InSync'
      BY <1>3 DEF ByteLost, Inductive, Buffer, Counters, BufferMatchesState, InSync, parser
    <2>2. Parity'
      BY <1>3, HostStep DEF ByteLost, Inductive, TypeOK, Parity, parser
    <2> QED
      BY <2>1, <2>2, <2>3 DEF Inductive
  <1>4. CASE ByteAdded
    <2>1. ParserStep(FALSE)
      BY <1>4, ParserSteps DEF ByteAdded, Inductive
    <2>2. TypeOK' /\ sent' < FrameLength(records')
      <3>1. synced' = FALSE /\ slip' = 1 - slip /\ records' = records /\ sent' = sent
        BY <1>4 DEF ByteAdded, hostVars
      <3>2. ParserType' /\ executed' \in BOOLEAN
        BY <2>1 DEF ParserStep, ExecutesOnlyWhole
      <3>3. synced' \in BOOLEAN
        BY <3>1
      <3>4. slip' \in 0..1 /\ records' \in 1..MAX_PUDATA_COUNT
        BY <3>1 DEF Inductive, TypeOK
      <3>5. sent' \in 0..(FrameLength(MAX_PUDATA_COUNT) - 1) /\ sent' < FrameLength(records')
        BY <3>1 DEF Inductive, TypeOK
      <3> QED
        BY <3>2, <3>3, <3>4, <3>5 DEF TypeOK, ParserType
    <2>4. Buffer' /\ InSync'
      BY <1>4, <2>1 DEF ByteAdded, ParserStep, InSync
    <2>3. Parity'
      BY <1>4, <2>1 DEF ByteAdded, Inductive, TypeOK, Parity, hostVars,
         ParserStep, BufferMoves
    <2> QED
      BY <2>2, <2>3, <2>4 DEF Inductive
  <1>5. CASE UNCHANGED vars
    BY <1>5 DEF Inductive, TypeOK, Buffer, Counters, BufferMatchesState, Parity, InSync, vars, parser, hostVars
  <1> QED
    BY <1>1, <1>2, <1>3, <1>4, <1>5 DEF Next, LineFault

\* The state and the buffer of the parser agree, and received_buffer is not
\* overrun, after any sequence of bytes.
THEOREM BufferMatchesStateThm == Spec => [](TypeOK /\ BufferMatchesState)
  <1>1. Inductive => TypeOK /\ BufferMatchesState
    BY DEF Inductive, Buffer
  <1> QED
    BY <1>1, InitInductive, NextInductive, PTL DEF Spec

\* Every variable of the receiver keeps its type, whatever bytes the line brings.
THEOREM TypeCorrect == Spec => []TypeOK
  BY BufferMatchesStateThm, PTL

\* No step on a line that has slipped by an odd number of bytes executes a
\* frame.
LEMMA DeafStep == Inductive /\ OddSlipIsDeaf /\ [Next]_vars => OddSlipIsDeaf'
  <1> SUFFICES ASSUME Inductive, OddSlipIsDeaf, [Next]_vars, slip' = 1
               PROVE  ~ executed' /\ ~ (current_state' = "RECEIVING_ADDRESS" /\ sent' = 0)
    BY DEF OddSlipIsDeaf
  <1>1. Inductive'
    BY NextInductive
  <1>2. ~ (current_state' = "RECEIVING_ADDRESS" /\ sent' = 0)
    BY <1>1 DEF Inductive, Parity, Buffer, BufferMatchesState, TypeOK
  <1>3. ~ executed'
    <2>1. CASE ByteArrives
      <3> SUFFICES ASSUME executed' PROVE FALSE
        OBVIOUS
      <3>1. InStep /\ current_state = "RECEIVING_CRC"
        <4>1. InStep \in BOOLEAN
          BY DEF InStep, Inductive, TypeOK
        <4>2. ParserStep(InStep)
          BY <2>1, <4>1, ParserSteps DEF ByteArrives, Inductive
        <4> QED
          BY <4>2 DEF ParserStep, ExecutesOnlyWhole
      <3>2. sent = received_buffer_number /\ slip = 1
        BY <2>1, <3>1 DEF Inductive, InSync, InStep, ByteArrives
      <3> QED
        BY <3>2 DEF Inductive, Parity, TypeOK
    <2>2. CASE ByteDamaged
      BY <2>2, ParserSteps DEF ByteDamaged, Inductive, ParserStep, ExecutesOnlyWhole
    <2>3. CASE ByteLost
      BY <2>3 DEF ByteLost
    <2>4. CASE ByteAdded
      BY <2>4, ParserSteps DEF ByteAdded, Inductive, ParserStep, ExecutesOnlyWhole
    <2>5. CASE UNCHANGED vars
      BY <2>5 DEF vars, OddSlipIsDeaf
    <2> QED
      BY <2>1, <2>2, <2>3, <2>4, <2>5 DEF Next, LineFault
  <1> QED
    BY <1>2, <1>3

\* After an odd number of lost or added bytes no frame is executed, until
\* another byte is lost or added.
THEOREM OddSlipIsDeafThm == Spec => []OddSlipIsDeaf
  <1>1. Init => OddSlipIsDeaf
    BY DEF Init, OddSlipIsDeaf
  <1> QED
    BY <1>1, InitInductive, NextInductive, DeafStep, PTL DEF Spec
=============================================================================
