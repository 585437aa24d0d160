----------------------------- MODULE FrameReceiver -----------------------------
(***************************************************************************)
(* The byte-by-byte frame receiver of dataprocess/process.c: every byte of *)
(* USART0 interrupts the program and goes through parse_received_data.     *)
(*                                                                         *)
(* Bytes are not spelled out.  What matters is whether the bytes taken     *)
(* since RECEIVING_ADDRESS are the first bytes of the frame the host is    *)
(* sending, undamaged (synced): then the parser reads what the host wrote  *)
(* and the CRC matches; otherwise a byte may look like anything and the    *)
(* CRC, taken to be perfect, does not match.                               *)
(***************************************************************************)
EXTENDS Naturals

MAX_PUDATA_COUNT == 3
MAX_FRAME_LENGTH == 128
sizeof_Bufdata   == 8

\* Address, function, two bytes of count, the records, two bytes of CRC.
FrameLength(n) == 6 + sizeof_Bufdata * n

States == {"RECEIVING_ADDRESS", "RECEIVING_FUNCTION", "RECEIVING_DATA_LENGTH",
           "RECEIVING_DATA", "RECEIVING_CRC"}

VARIABLES
    current_state,
    dataCount,              \* received_frame.dataCount
    dataField,              \* received_frame.dataField is allocated
    bytes_counter,
    received_buffer_number,
    synced,     \* history: received_buffer is the start of the host's frame
    executed,   \* history: the last byte made process_reply run
    records,    \* the host: records in the frame it is sending
    sent,       \* the host: bytes of that frame it has sent
    slip        \* history: parity of the bytes lost or added on the line

parser == <<current_state, dataCount, dataField, bytes_counter, received_buffer_number>>
hostVars == <<records, sent>>
vars == <<parser, synced, executed, hostVars, slip>>

TypeOK ==
    /\ current_state \in States
    /\ dataCount \in 0..(MAX_PUDATA_COUNT + 1)
    /\ dataField \in BOOLEAN
    /\ bytes_counter \in 0..(sizeof_Bufdata * MAX_PUDATA_COUNT)
    /\ received_buffer_number \in 0..MAX_FRAME_LENGTH
    /\ synced \in BOOLEAN
    /\ executed \in BOOLEAN
    /\ records \in 1..MAX_PUDATA_COUNT
    /\ sent \in 0..(FrameLength(MAX_PUDATA_COUNT) - 1)
    /\ slip \in 0..1

Init ==
    /\ current_state = "RECEIVING_ADDRESS"
    /\ dataCount = 0
    /\ dataField = FALSE
    /\ bytes_counter = 0
    /\ received_buffer_number = 0
    /\ synced = FALSE
    /\ executed = FALSE
    /\ records \in 1..MAX_PUDATA_COUNT
    /\ sent = 0
    /\ slip = 0

-------------------------------------------------------------------------------
(* The parser.  Each operator takes one byte in one state; ok says that    *)
(* after it the buffer is still the start of the host's frame.             *)

\* Bugs for mutation runs: the data field is not freed; the buffer is not
\* rewound.
reset_reception_leaks ==
    /\ current_state' = "RECEIVING_ADDRESS"
    /\ dataCount' = 0
    /\ received_buffer_number' = 0
    /\ bytes_counter' = 0
    /\ UNCHANGED dataField

reset_reception_keeps_buffer ==
    /\ current_state' = "RECEIVING_ADDRESS"
    /\ dataCount' = 0
    /\ dataField' = FALSE
    /\ bytes_counter' = 0
    /\ UNCHANGED received_buffer_number

reset_reception ==
    /\ current_state' = "RECEIVING_ADDRESS"
    /\ dataCount' = 0
    /\ dataField' = FALSE
    /\ received_buffer_number' = 0
    /\ bytes_counter' = 0

TakeAddress(ok) ==
    /\ current_state = "RECEIVING_ADDRESS"
    /\ current_state' = "RECEIVING_FUNCTION"
    /\ received_buffer_number' = received_buffer_number + 1
    /\ executed' = FALSE
    /\ UNCHANGED <<dataCount, dataField, bytes_counter>>

\* A bug for mutation runs: a rejected byte is tried as an address.
TakeFunctionAgain(ok) ==
    /\ current_state = "RECEIVING_FUNCTION"
    /\ \E valid \in BOOLEAN :
         /\ ok => valid
         /\ current_state' = IF valid THEN "RECEIVING_DATA_LENGTH" ELSE "RECEIVING_FUNCTION"
         /\ received_buffer_number' = received_buffer_number + (IF valid THEN 1 ELSE 0)
         /\ UNCHANGED <<dataCount, dataField, bytes_counter>>
    /\ executed' = FALSE

\* 0xC0, 0x03 or 0x5E, else RECEIVING_ERROR, which ends in reset_reception.
TakeFunction(ok) ==
    /\ current_state = "RECEIVING_FUNCTION"
    /\ \E valid \in BOOLEAN :
         /\ ok => valid
         /\ IF valid
              THEN /\ current_state' = "RECEIVING_DATA_LENGTH"
                   /\ received_buffer_number' = received_buffer_number + 1
                   /\ UNCHANGED <<dataCount, dataField, bytes_counter>>
              ELSE reset_reception
    /\ executed' = FALSE

\* The count is complete with its second byte; out of range, or without
\* memory for the records, it ends in reset_reception.
TakeLength(ok) ==
    /\ current_state = "RECEIVING_DATA_LENGTH"
    /\ IF bytes_counter = 0
         THEN /\ bytes_counter' = 1
              /\ received_buffer_number' = received_buffer_number + 1
              /\ UNCHANGED <<current_state, dataCount, dataField>>
         ELSE \E n \in 0..(MAX_PUDATA_COUNT + 1), memory \in BOOLEAN :
              /\ ok => n = records
              /\ IF n \in 1..MAX_PUDATA_COUNT /\ memory
                   THEN /\ current_state' = "RECEIVING_DATA"
                        /\ dataCount' = n
                        /\ dataField' = TRUE
                        /\ bytes_counter' = 0
                        /\ received_buffer_number' = received_buffer_number + 1
                   ELSE reset_reception
    /\ executed' = FALSE

TakeData(ok) ==
    /\ current_state = "RECEIVING_DATA"
    /\ received_buffer_number' = received_buffer_number + 1
    /\ IF bytes_counter + 1 >= sizeof_Bufdata * dataCount
         THEN current_state' = "RECEIVING_CRC" /\ bytes_counter' = 0
         ELSE bytes_counter' = bytes_counter + 1 /\ UNCHANGED current_state
    /\ executed' = FALSE
    /\ UNCHANGED <<dataCount, dataField>>

\* A bug for mutation runs: after a mismatch the parser waits for another CRC.
TakeCrcWaits(ok) ==
    /\ current_state = "RECEIVING_CRC"
    /\ IF bytes_counter = 0
         THEN /\ bytes_counter' = 1
              /\ received_buffer_number' = received_buffer_number + 1
              /\ executed' = FALSE
              /\ UNCHANGED <<current_state, dataCount, dataField>>
         ELSE /\ executed' = ok
              /\ IF ok THEN reset_reception ELSE UNCHANGED parser

\* calc_crc = crcCheck runs process_reply; both ways reception starts again.
TakeCrc(ok) ==
    /\ current_state = "RECEIVING_CRC"
    /\ IF bytes_counter = 0
         THEN /\ bytes_counter' = 1
              /\ received_buffer_number' = received_buffer_number + 1
              /\ executed' = FALSE
              /\ UNCHANGED <<current_state, dataCount, dataField>>
         ELSE /\ executed' = ok
              /\ reset_reception

parse_received_data(ok) ==
    \/ TakeAddress(ok) \/ TakeFunction(ok) \/ TakeLength(ok)
    \/ TakeData(ok) \/ TakeCrc(ok)

-------------------------------------------------------------------------------
(* The host and the line.                                                  *)

\* The host sends the next byte of its frame; after the last one it goes on
\* with another frame.
HostSends ==
    IF sent + 1 < FrameLength(records)
      THEN sent' = sent + 1 /\ UNCHANGED records
      ELSE sent' = 0 /\ records' \in 1..MAX_PUDATA_COUNT

\* Is the byte the host sends now the one the parser expects next?
InStep == IF current_state = "RECEIVING_ADDRESS" THEN sent = 0 ELSE synced

\* A byte arrives as it was sent.
ByteArrives ==
    /\ HostSends
    /\ synced' = InStep
    /\ parse_received_data(InStep)
    /\ UNCHANGED slip

\* A byte arrives damaged.
ByteDamaged ==
    /\ HostSends
    /\ synced' = FALSE
    /\ parse_received_data(FALSE)
    /\ UNCHANGED slip

\* A byte is lost: a start bit missed, or an overrun (USART_FLAG_ORERR) while
\* the interrupt handler prints, erases flash or runs process_reply.
ByteLost ==
    /\ HostSends
    /\ synced' = FALSE
    /\ executed' = FALSE
    /\ slip' = 1 - slip
    /\ UNCHANGED parser

\* A byte that nobody sent: noise on the line.
ByteAdded ==
    /\ synced' = FALSE
    /\ parse_received_data(FALSE)
    /\ slip' = 1 - slip
    /\ UNCHANGED hostVars

LineFault == ByteDamaged \/ ByteLost \/ ByteAdded

Next == ByteArrives \/ LineFault

Spec == Init /\ [][Next]_vars

\* A host that keeps sending.
FairSpec == Spec /\ WF_vars(ByteArrives)

-------------------------------------------------------------------------------
(* What the receiver does.                                                 *)

\* A frame is held in memory exactly while its records and CRC arrive, and the
\* buffer index is that of the byte expected next: whatever sequence of
\* truncated, damaged or shifted frames arrives, reset_reception is reached
\* before the next frame, the heap does not leak and received_buffer is not
\* overrun.
BufferMatchesState ==
    /\ dataField <=> current_state \in {"RECEIVING_DATA", "RECEIVING_CRC"}
    /\ dataField => dataCount \in 1..MAX_PUDATA_COUNT
    /\ received_buffer_number =
         CASE current_state = "RECEIVING_ADDRESS"     -> 0
           [] current_state = "RECEIVING_FUNCTION"    -> 1
           [] current_state = "RECEIVING_DATA_LENGTH" -> 2 + bytes_counter
           [] current_state = "RECEIVING_DATA"        -> 4 + bytes_counter
           [] OTHER -> 4 + sizeof_Bufdata * dataCount + bytes_counter
    /\ received_buffer_number < MAX_FRAME_LENGTH

\* After an odd number of lost or added bytes the receiver is never at the
\* start of a frame when the host is: every way back to RECEIVING_ADDRESS takes
\* an even number of bytes, and every frame has an even number of bytes.  It
\* executes nothing until another byte is lost or added.
OddSlipIsDeaf ==
    slip = 1 => ~ executed /\ ~ (current_state = "RECEIVING_ADDRESS" /\ sent = 0)

\* A byte out of place is not taken for a function code.
NoLookalike == current_state = "RECEIVING_FUNCTION" /\ ~InStep
                 => current_state' = "RECEIVING_ADDRESS"

\* malloc has memory for the records of the host's frame.
Memory == current_state = "RECEIVING_DATA_LENGTH" /\ bytes_counter = 1 /\ InStep
            => dataField'

\* Eventually every byte arrives as it was sent, and these two hold.
LineIsClean == <>[][ByteArrives /\ NoLookalike /\ Memory]_vars

\* After an even slip, or damage alone, a line that stays clean brings the
\* receiver back in step: rejecting two bytes at a time, parse_received_data
\* meets the start of a frame and goes on executing frames.
EvenSlipRecovers == LineIsClean => <>[](slip = 1) \/ []<>executed

\* internal_communication_protocol.md: "Upon receiving a command, the addressed
\* BMS performs a CRC check. If the check passes, the BMS executes the command
\* and returns a response".  On a line that stays clean, a host that goes on
\* sending sees commands executed, whatever happened on the line before.
CleanLineIsHeard == LineIsClean => []<>executed
=============================================================================
