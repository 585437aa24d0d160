-------------------------------- MODULE Service --------------------------------
(***************************************************************************)
(* How a command is served: the USART0 interrupt leaves a request in the   *)
(* status word of a register (dataprocess/process.c), main's loop polls    *)
(* the registers and answers (primary/main.c), and the DMA sends the       *)
(* answer out of the one send_buffer while the loop goes on.               *)
(*                                                                         *)
(* The interrupt runs a whole frame between two steps of main; main's test *)
(* of a status word, its clearing and the service are separate steps.      *)
(* send_buffer is cut in two halves, enough for the DMA to read a new      *)
(* second half after an old first half.                                    *)
(*                                                                         *)
(* The upgrade command and main's test of the upgrade flag are in          *)
(* BootLoader.  A frame here names entries of the table; for an address it *)
(* does not know pu_search_id gives entry 0, which main does not poll.     *)
(***************************************************************************)
EXTENDS Naturals, Sequences, FiniteSets

CONSTANTS
    Register,   \* the entries of registers[]
    Writable,   \* those of type 'W'
    Scan,       \* the registers main's loop polls, in its order
    MaxOwed,    \* bound: answers the host may be waiting for, per register
    Lapses      \* the sets of lapses one behaviour may have

\* What the program is not built for.  "overlap": the host sends a frame while
\* an answer is due; "multi": it reads several registers in one frame;
\* "unsettled": it names a register whose write has not been carried out;
\* "unpolled": it reads a register main does not poll; "malloc": no memory;
\* "i2c": the battery monitor does not answer.
LapseKind == {"overlap", "multi", "unsettled", "unpolled", "malloc", "i2c"}

Polled == {Scan[k] : k \in 1..Len(Scan)}

ASSUME RegisterAssumption ==
    /\ IsFiniteSet(Register)
    /\ Writable \subseteq Register
    /\ Scan \in Seq(Register) /\ Scan # <<>>
ASSUME BoundAssumption == MaxOwed \in Nat \ {0} /\ Lapses \subseteq SUBSET LapseKind

MAX_PUDATA_COUNT == 3

\* Where a value comes from: the table's initial zero, a write by the host, a
\* measurement, or the zeros send_reply_data starts from when the read fails.
Value   == {"initial", "written", "measured", "zero"}
NoReply == <<>>
Reply   == (Register \X Value) \cup {NoReply}

VARIABLES
    status,         \* registers[].status: 0, 1 read requested, 10 write pending
    data,           \* registers[].data
    at,             \* the index in Scan of process_base_address
    pc,             \* main's next step for register Scan[at]
    voltage_value,
    serialized,
    send_buffer,    \* its two halves
    dma,            \* dma_transfer_number_get: halves still to be sent
    line,           \* the first half as it was sent
    owed,           \* history: reads of a register not answered yet
    todo,           \* history: registers whose write has not been carried out
    lapses          \* history: the lapses that have happened

main == <<at, pc, voltage_value, serialized>>
out  == <<send_buffer, dma, line>>
hist == <<owed, todo, lapses>>
vars == <<status, data, main, out, hist>>

Serving == {"measure", "set_data", "serialize", "copy_1", "copy_2", "start"}
Steps   == {"test_read", "clear_read", "test_write", "clear_write", "command"} \cup Serving

TypeOK ==
    /\ status \in [Register -> {0, 1, 10}]
    /\ data \in [Register -> Value]
    /\ at \in 1..Len(Scan)
    /\ pc \in Steps
    /\ voltage_value \in Value
    /\ serialized \in Reply
    /\ send_buffer \in [1..2 -> Reply]
    /\ dma \in 0..2
    /\ line \in Reply
    /\ owed \in [Register -> 0..MaxOwed]
    /\ todo \subseteq Register
    /\ lapses \in Lapses \cup {{}}

\* main's loop starts after the DMA has sent the zeros of uart_dma_send_init.
Init ==
    /\ status = [r \in Register |-> 0]
    /\ data = [r \in Register |-> "initial"]
    /\ at = 1
    /\ pc = "test_read"
    /\ voltage_value = "zero"
    /\ serialized = NoReply
    /\ send_buffer = [h \in 1..2 |-> NoReply]
    /\ dma = 0
    /\ line = NoReply
    /\ owed = [r \in Register |-> 0]
    /\ todo = {}
    /\ lapses = {}

Suffer(L) == lapses \cup L \in Lapses \cup {{}} /\ lapses' = lapses \cup L

-------------------------------------------------------------------------------
(* The interrupt: a valid frame that names the registers S arrives.        *)

\* The lapses of a host that sends such a frame now.
HostLapses(S) ==
    {k \in {"overlap", "unsettled"} :
        CASE k = "overlap"   -> dma > 0 \/ \E r \in Register : owed[r] > 0
          [] k = "unsettled" -> \E r \in S : status[r] = 10}

Frame == {S \in SUBSET Register : Cardinality(S) \in 1..MAX_PUDATA_COUNT}

\* process_read: its answer is built and thrown away, the requests stay; when
\* createCommFrame has no memory not even they do.
process_read(S) ==
    /\ \A r \in S : owed[r] < MaxOwed
    /\ owed' = [r \in Register |-> IF r \in S THEN owed[r] + 1 ELSE owed[r]]
    /\ \E memory \in BOOLEAN :
         /\ status' = [r \in Register |-> IF r \in S /\ memory THEN 1 ELSE status[r]]
         /\ Suffer(HostLapses(S)
                   \cup (IF Cardinality(S) > 1 THEN {"multi"} ELSE {})
                   \cup (IF S \subseteq Polled THEN {} ELSE {"unpolled"})
                   \cup (IF memory THEN {} ELSE {"malloc"}))
    /\ UNCHANGED <<data, main, out, todo>>

process_write(S) ==
    /\ data' = [r \in Register |-> IF r \in S \cap Writable THEN "written" ELSE data[r]]
    /\ status' = [r \in Register |-> IF r \in S \cap Writable THEN 10 ELSE status[r]]
    /\ todo' = todo \cup (S \cap Writable \cap Polled)
    /\ Suffer(HostLapses(S))
    /\ UNCHANGED <<main, out, owed>>

process_reply == \E S \in Frame : process_read(S) \/ process_write(S)

-------------------------------------------------------------------------------
(* main: process_base_address for register Scan[at].                       *)

here == Scan[at]

\* Step s of main; the rest of it says where main goes on.
At(s)   == pc = s
Goto(s) == pc' = s /\ UNCHANGED at
Advance == pc' = "test_read" /\ at' = (at % Len(Scan)) + 1

\* A bug for mutation runs: a pending write is taken for a read.
TestReadAny ==
    /\ At("test_read")
    /\ Goto(IF status[here] # 0 THEN "clear_read" ELSE "test_write")
    /\ UNCHANGED <<status, data, voltage_value, serialized, out, hist>>

TestRead ==
    /\ At("test_read")
    /\ Goto(IF status[here] = 1 THEN "clear_read" ELSE "test_write")
    /\ UNCHANGED <<status, data, voltage_value, serialized, out, hist>>

\* A bug for mutation runs: the request stays.
ClearReadNot ==
    /\ At("clear_read")
    /\ Goto("measure")
    /\ UNCHANGED <<status, data, voltage_value, serialized, out, hist>>

ClearRead ==
    /\ At("clear_read")
    /\ status' = [status EXCEPT ![here] = 0]
    /\ Goto("measure")
    /\ UNCHANGED <<data, voltage_value, serialized, out, hist>>

\* send_reply_data: the result of i2c_buffer_read is not looked at.
Measure ==
    /\ At("measure")
    /\ \/ voltage_value' = "measured" /\ UNCHANGED lapses /\ Goto("set_data")
       \/ voltage_value' = "zero" /\ Suffer({"i2c"}) /\ Goto("set_data")
       \/ UNCHANGED voltage_value /\ Suffer({"malloc"}) /\ Goto("test_write")
    /\ UNCHANGED <<status, data, serialized, out, owed, todo>>

\* A bug for mutation runs: the measured value is not stored.
SetDataNot ==
    /\ At("set_data")
    /\ Goto("serialize")
    /\ UNCHANGED <<status, data, voltage_value, serialized, out, hist>>

SetData ==
    /\ At("set_data")
    /\ data' = [data EXCEPT ![here] = voltage_value]
    /\ Goto("serialize")
    /\ UNCHANGED <<status, voltage_value, serialized, out, hist>>

\* createBufdata reads the table again; without memory for serializeCommFrame
\* nothing is copied and a transfer of nothing is started.
Serialize ==
    /\ At("serialize")
    /\ \/ /\ serialized' = <<here, data[here]>>
          /\ Goto("copy_1")
          /\ UNCHANGED lapses
       \/ /\ UNCHANGED serialized
          /\ Goto("test_write")
          /\ Suffer({"malloc"})
    /\ UNCHANGED <<status, data, voltage_value, out, owed, todo>>

\* memcpy to send_buffer, whether or not the DMA is reading it.
Copy(h, s, next) ==
    /\ At(s)
    /\ send_buffer' = [send_buffer EXCEPT ![h] = serialized]
    /\ Goto(next)
    /\ UNCHANGED <<status, data, voltage_value, serialized, dma, line, hist>>

Copy1 == Copy(1, "copy_1", "copy_2")
Copy2 == Copy(2, "copy_2", "start")

\* usartSendDMA: while the DMA is busy the answer is dropped.
usartSendDMA ==
    /\ At("start")
    /\ IF dma = 0
         THEN dma' = 2 /\ owed' = [owed EXCEPT ![here] = @ - 1]
         ELSE UNCHANGED <<dma, owed>>
    /\ Goto("test_write")
    /\ UNCHANGED <<status, data, voltage_value, serialized, send_buffer, line, todo, lapses>>

\* A bug for mutation runs: the second test takes a read request for a write.
TestWriteAny ==
    /\ At("test_write")
    /\ IF status[here] # 0 THEN Goto("clear_write") ELSE Advance
    /\ UNCHANGED <<status, data, voltage_value, serialized, out, hist>>

TestWrite ==
    /\ At("test_write")
    /\ IF status[here] = 10 THEN Goto("clear_write") ELSE Advance
    /\ UNCHANGED <<status, data, voltage_value, serialized, out, hist>>

ClearWrite ==
    /\ At("clear_write")
    /\ status' = [status EXCEPT ![here] = 0]
    /\ Goto("command")
    /\ UNCHANGED <<data, voltage_value, serialized, out, hist>>

\* write_command_data: alarm_enable for command 0x66, otherwise nothing.
WriteCommandData ==
    /\ At("command")
    /\ todo' = todo \ {here}
    /\ Advance
    /\ UNCHANGED <<status, data, voltage_value, serialized, out, owed, lapses>>

-------------------------------------------------------------------------------
\* The DMA sends the next half.
DmaSends ==
    /\ dma > 0
    /\ dma' = dma - 1
    /\ line' = IF dma = 2 THEN send_buffer[1] ELSE line
    /\ UNCHANGED <<status, data, main, send_buffer, hist>>

Main ==
    \/ TestRead \/ ClearRead
    \/ Measure \/ SetData \/ Serialize \/ Copy1 \/ Copy2 \/ usartSendDMA
    \/ TestWrite \/ ClearWrite \/ WriteCommandData

Next == process_reply \/ Main \/ DmaSends

Spec == Init /\ [][Next]_vars

\* main's loop and the DMA keep going; the host need not.
FairSpec == Spec /\ WF_vars(Main) /\ WF_vars(DmaSends)

-------------------------------------------------------------------------------
(* What is guaranteed; each property names the lapses that it excuses.     *)

\* What a measurement may leave: zero only after a failed read (lapse i2c).
Measurement == {"measured"} \cup (IF "i2c" \in lapses THEN {"zero"} ELSE {})

\* A frame on the line is one answer from its first byte to its last, and the
\* value in it is the measurement, not written by the host or left over: main
\* writes send_buffer without asking the DMA, and does not stop the interrupt
\* between measuring and sending.  This is so for a host that waits for its
\* answers and reads one register at a time, whatever else it does or fails.
FramesAreWhole ==
    [][dma = 1 /\ dma' = 0 /\ lapses \cap {"overlap", "multi"} = {}
         => line = send_buffer[2] /\ line[2] \in Measurement]_vars

\* internal_communication_protocol.md: "returns a response containing the address
\* code, function code, result data, and a new CRC checksum".  No frame on the
\* line begins as one answer and ends as another, for a host with the lapses
\* its cfg allows.
FramesNeverMix ==
    [][dma = 1 /\ dma' = 0 => line = send_buffer[2]]_vars

\* "The BMS only responds to these requests and never initiates communication
\* itself" (internal_communication_protocol.md), whatever the host does and
\* whatever fails: no more answers are started for a register than were asked.
NeverInitiates ==
    \A r \in Register :
        (IF status[r] = 1 THEN 1 ELSE 0)
      + (IF pc \in Serving /\ here = r THEN 1 ELSE 0) <= owed[r]

\* A read of polled registers is answered, although the test, the clearing and
\* the service are not atomic towards the interrupt and a busy DMA drops the
\* answer.  A failing measurement does not stop it; every other lapse may.
ReadAnswered ==
    \A r \in Register : owed[r] > 0 ~> owed[r] = 0 \/ lapses \ {"i2c"} # {}

\* A write of a polled register is carried out, in whatever step main is when
\* the interrupt accepts it, and whatever fails.  A host that sends a command
\* while an answer is due, or to a register whose write is pending, is excused:
\* the later command takes the status word of the earlier.
WriteCarriedOut ==
    \A r \in Register :
        r \in todo ~> r \notin todo \/ lapses \cap {"overlap", "unsettled"} # {}

\* internal_communication_protocol.md: "If the check passes, the BMS executes
\* the command and returns a response".  Every register that is read is
\* answered, for a host with the lapses its cfg allows.
EveryReadAnswered ==
    \A r \in Register : owed[r] > 0 ~> owed[r] = 0
=============================================================================
