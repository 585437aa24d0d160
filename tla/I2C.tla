---------------------------------- MODULE I2C -----------------------------------
(***************************************************************************)
(* The polled I2C driver (drive/i2c.c): i2c_buffer_read, i2c_buffer_write  *)
(* with i2c_page_write_timeout and i2c_wait_standby_state_timeout.  A step *)
(* is one case of a switch, with the flags it waits for, or one byte.      *)
(*                                                                         *)
(* The device may change at any time between three conditions: "well", it  *)
(* answers; "absent", it acknowledges nothing; "silent", the bus is held   *)
(* and no flag comes.  A wait that is counted ends by its flag or by the   *)
(* time-out, as the device allows when it is made.  ACK and ACK position   *)
(* are left out, as are the values of the bytes.                           *)
(***************************************************************************)
EXTENDS Naturals

CONSTANTS
    Reads,          \* lengths that are read
    Writes,         \* pairs of an address and a length that are written
    I2C_PAGE_SIZE,  \* 8
    ByteMod         \* number_of_byte of a page write and number_of_page count
                    \* modulo this: 256

ASSUME I2CAssumption ==
    /\ Reads \subseteq Nat
    /\ Writes \subseteq Nat \X Nat
    /\ I2C_PAGE_SIZE \in Nat \ {0}
    /\ ByteMod \in Nat /\ ByteMod > I2C_PAGE_SIZE

VARIABLES
    dev,        \* the device and the bus it is on
    held,       \* the bus is held by a start condition of ours
    stop,       \* a stop condition is requested and not yet made
    fn,         \* the function that runs, "idle" between calls
    state,      \* its I2C_STATUS; "DATA" is the inner loop of I2C_TRANSMIT_DATA
    read_cycle,
    n,          \* number_of_byte
    p,          \* p_buffer, as an offset; it stops counting one past the buffer
    req,        \* address and length of the call, and the bytes it sets out to do
    left,       \* bytes of the request behind the current page
    result,     \* what the last call returned
    late,       \* history: a wait for a stop condition timed out in this call
    lost        \* history: a byte written in this call was not acknowledged

hw   == <<held, stop>>
hist == <<late, lost>>
vars == <<dev, hw, fn, state, read_cycle, n, p, req, left, result, hist>>

None == [addr |-> 0, len |-> 0, planned |-> 0]

Init ==
    /\ dev = "well" /\ held = FALSE /\ stop = FALSE
    /\ fn = "idle" /\ state = "START" /\ read_cycle = 0
    /\ n = 0 /\ p = 0 /\ req = None /\ left = 0
    /\ result = "none"
    /\ late = FALSE /\ lost = FALSE

-------------------------------------------------------------------------------
(* The peripheral and the bus.                                             *)

\* A stop condition that was requested is made as soon as the bus allows.
Busy == dev = "silent" \/ (held /\ ~stop)

start_on_bus == held' = TRUE /\ stop' = FALSE
stop_on_bus  == stop' = TRUE /\ UNCHANGED held
StopMade     == stop' = FALSE /\ held' = IF stop THEN FALSE ELSE held
i2c_bus_reset == held' = FALSE /\ stop' = FALSE

Device ==
    /\ dev' \in {"well", "absent", "silent"} \ {dev}
    /\ UNCHANGED <<hw, fn, state, read_cycle, n, p, req, left, result, hist>>

Min2(a, b) == IF a < b THEN a ELSE b
Advance == Min2(p + 1, req.len + 1)

Goto(s) == state' = s
Return(r) == fn' = "idle" /\ state' = "START" /\ result' = r

At(f, s) == fn = f /\ state = s

-------------------------------------------------------------------------------
(* The calls.                                                              *)

i2c_buffer_read(len) ==
    /\ fn = "idle"
    /\ fn' = "read" /\ state' = "START" /\ read_cycle' = 0
    /\ n' = len /\ p' = 0 /\ left' = 0
    /\ req' = [addr |-> 0, len |-> len, planned |-> len]
    /\ late' = FALSE /\ lost' = FALSE
    /\ UNCHANGED <<dev, hw, result>>

PageOf(len) == Min2(I2C_PAGE_SIZE, len)

\* A bug for mutation runs: the first page is taken for a whole one.
ToPageEnd_Whole(addr, len) == IF addr % I2C_PAGE_SIZE = 0 THEN 0 ELSE PageOf(len)

\* What goes first when the address is inside a page: up to the page's end.
ToPageEnd(addr, len) ==
    IF addr % I2C_PAGE_SIZE = 0 THEN 0
    ELSE Min2(I2C_PAGE_SIZE - (addr % I2C_PAGE_SIZE), len)

\* number_of_page is a byte: of a longer rest whole pages are forgotten.
Kept(len) ==
    ((len \div I2C_PAGE_SIZE) % ByteMod) * I2C_PAGE_SIZE + (len % I2C_PAGE_SIZE)

\* What a write sets out to do, and the page it begins with.
Planned(addr, len) == ToPageEnd(addr, len) + Kept(len - ToPageEnd(addr, len))
FirstPage(addr, len) ==
    IF addr % I2C_PAGE_SIZE = 0 THEN PageOf(Planned(addr, len)) ELSE ToPageEnd(addr, len)

\* With no page write to make it returns the 3 that result starts with.  The
\* address counts on where write_address wraps: a page divides 256.
i2c_buffer_write(addr, len) ==
    /\ fn = "idle"
    /\ \/ /\ addr % I2C_PAGE_SIZE # 0 \/ Planned(addr, len) > 0
          /\ fn' = "write" /\ state' = "START" /\ read_cycle' = 0
          /\ n' = FirstPage(addr, len) /\ p' = 0
          /\ left' = Planned(addr, len) - FirstPage(addr, len)
          /\ req' = [addr |-> addr, len |-> len, planned |-> Planned(addr, len)]
          /\ late' = FALSE /\ lost' = FALSE
          /\ UNCHANGED result
       \/ /\ addr % I2C_PAGE_SIZE = 0 /\ Planned(addr, len) = 0
          /\ result' = "3"
          /\ UNCHANGED <<fn, state, read_cycle, n, p, left, req, hist>>
    /\ UNCHANGED <<dev, hw>>

-------------------------------------------------------------------------------
(* i2c_buffer_read                                                         *)

ReadStart ==
    /\ At("read", "START")
    /\ \/ /\ read_cycle = 0 /\ Busy
          /\ i2c_bus_reset
          /\ Return("FAIL")
       \/ /\ read_cycle = 0 => ~Busy
          /\ start_on_bus
          /\ Goto("SEND_ADDRESS")
          /\ UNCHANGED <<fn, result>>
    /\ UNCHANGED <<dev, read_cycle, n, p, req, left, hist>>

ReadSendAddress ==
    /\ At("read", "SEND_ADDRESS")
    /\ \/ /\ dev # "silent"
          /\ Goto("CLEAR_ADDRESS_FLAG")
          /\ UNCHANGED <<hw, read_cycle>>
       \/ /\ dev = "silent"
          /\ i2c_bus_reset
          /\ Goto("START") /\ read_cycle' = 0
    /\ UNCHANGED <<dev, fn, n, p, req, left, result, hist>>

\* A bug for mutation runs: a read that fails leaves the bus as it is.
ReadClearAddressFlag_NoReset ==
    /\ At("read", "CLEAR_ADDRESS_FLAG")
    /\ \/ /\ dev = "well"
          /\ IF read_cycle = 1 /\ n = 1 THEN stop_on_bus ELSE UNCHANGED hw
          /\ Goto("TRANSMIT_DATA")
          /\ UNCHANGED <<fn, result, read_cycle>>
       \/ /\ dev # "well"
          /\ read_cycle' = 0
          /\ Return("FAIL")
          /\ UNCHANGED hw
    /\ UNCHANGED <<dev, n, p, req, left, hist>>

\* A bug for mutation runs: a read is tried again until it is acknowledged.
ReadClearAddressFlag_Retries ==
    /\ At("read", "CLEAR_ADDRESS_FLAG")
    /\ \/ /\ dev = "well"
          /\ IF read_cycle = 1 /\ n = 1 THEN stop_on_bus ELSE UNCHANGED hw
          /\ Goto("TRANSMIT_DATA")
          /\ UNCHANGED read_cycle
       \/ /\ dev # "well"
          /\ i2c_bus_reset
          /\ Goto("START") /\ read_cycle' = 0
    /\ UNCHANGED <<dev, fn, n, p, req, left, result, hist>>

ReadClearAddressFlag ==
    /\ At("read", "CLEAR_ADDRESS_FLAG")
    /\ \/ /\ dev = "well"
          /\ IF read_cycle = 1 /\ n = 1 THEN stop_on_bus ELSE UNCHANGED hw
          /\ Goto("TRANSMIT_DATA")
          /\ UNCHANGED <<fn, result, read_cycle>>
       \/ /\ dev # "well"
          /\ i2c_bus_reset
          /\ read_cycle' = 0
          /\ Return("FAIL")
    /\ UNCHANGED <<dev, n, p, req, left, hist>>

\* The address in the device is sent, or the inner loop is entered.
ReadTransmit ==
    /\ At("read", "TRANSMIT_DATA")
    /\ \/ /\ read_cycle = 0 /\ dev = "well"
          /\ Goto("START") /\ read_cycle' = 1
          /\ UNCHANGED <<hw, fn, result>>
       \/ /\ read_cycle = 0 /\ dev # "well"
          /\ i2c_bus_reset
          /\ read_cycle' = 0
          /\ Return("FAIL")
       \/ /\ read_cycle = 1
          /\ Goto("DATA")
          /\ UNCHANGED <<hw, fn, read_cycle, result>>
    /\ UNCHANGED <<dev, n, p, req, left, hist>>

\* A bug for mutation runs: the stop condition is requested with the last byte only.
ReadData_LateStop ==
    /\ At("read", "DATA") /\ n > 0
    /\ dev = "well"
    /\ n' = n - 1 /\ p' = Advance
    /\ IF n = 1 /\ req.len > 2 THEN stop_on_bus ELSE UNCHANGED hw
    /\ UNCHANGED <<dev, fn, state, read_cycle, req, left, result, hist>>

\* One byte.  With three and with two left the wait for BTC has no bound.
ReadData ==
    /\ At("read", "DATA") /\ n > 0
    /\ dev = "well"
    /\ n' = n - 1 /\ p' = Advance
    /\ IF n = 2 THEN stop_on_bus ELSE UNCHANGED hw
    /\ UNCHANGED <<dev, fn, state, read_cycle, req, left, result, hist>>

\* The time-out of the inner loop does not leave it: the state it sets is
\* overwritten after the last byte.
ReadDataTimeout ==
    /\ At("read", "DATA") /\ n > 0 /\ n \notin {2, 3}
    /\ dev # "well"
    /\ read_cycle' = 0
    /\ UNCHANGED <<dev, hw, fn, state, n, p, req, left, result, hist>>

ReadDataEnds ==
    /\ At("read", "DATA") /\ n = 0
    /\ Goto("STOP")
    /\ UNCHANGED <<dev, hw, fn, read_cycle, n, p, req, left, result, hist>>

\* A bug for mutation runs: the repeated transfer reads its bytes again.
ReadStop_Again ==
    /\ At("read", "STOP")
    /\ \/ /\ dev # "silent" \/ ~stop
          /\ StopMade
          /\ Return("OK")
          /\ UNCHANGED <<read_cycle, n, late>>
       \/ /\ dev = "silent" /\ stop
          /\ Goto("START") /\ read_cycle' = 0
          /\ n' = req.len
          /\ late' = TRUE
          /\ UNCHANGED <<hw, fn, result>>
    /\ UNCHANGED <<dev, p, req, left, lost>>

\* After a time-out the whole transfer is made again, with no byte left to read.
ReadStop ==
    /\ At("read", "STOP")
    /\ \/ /\ dev # "silent" \/ ~stop
          /\ StopMade
          /\ Return("OK")
          /\ UNCHANGED <<read_cycle, late>>
       \/ /\ dev = "silent" /\ stop
          /\ Goto("START") /\ read_cycle' = 0
          /\ late' = TRUE
          /\ UNCHANGED <<hw, fn, result>>
    /\ UNCHANGED <<dev, n, p, req, left, lost>>

-------------------------------------------------------------------------------
(* i2c_page_write_timeout, called by i2c_buffer_write                       *)

\* A bug for mutation runs: a page write waits for the bus.
WriteStart_Waits ==
    /\ At("write", "START")
    /\ ~Busy
    /\ start_on_bus
    /\ Goto("SEND_ADDRESS")
    /\ UNCHANGED <<dev, fn, read_cycle, n, p, req, left, result, hist>>

WriteStart ==
    /\ At("write", "START")
    /\ \/ /\ Busy
          /\ i2c_bus_reset
          /\ Return("FAIL")
       \/ /\ ~Busy
          /\ start_on_bus
          /\ Goto("SEND_ADDRESS")
          /\ UNCHANGED <<fn, result>>
    /\ UNCHANGED <<dev, read_cycle, n, p, req, left, hist>>

WriteSendAddress ==
    /\ At("write", "SEND_ADDRESS")
    /\ Goto(IF dev = "silent" THEN "START" ELSE "CLEAR_ADDRESS_FLAG")
    /\ UNCHANGED <<dev, hw, fn, read_cycle, n, p, req, left, result, hist>>

WriteClearAddressFlag ==
    /\ At("write", "CLEAR_ADDRESS_FLAG")
    /\ \/ /\ dev = "well"
          /\ Goto("TRANSMIT_DATA")
          /\ UNCHANGED <<hw, fn, result>>
       \/ /\ dev # "well"
          /\ i2c_bus_reset
          /\ Return("FAIL")
    /\ UNCHANGED <<dev, read_cycle, n, p, req, left, hist>>

\* The address in the device; whether it was acknowledged changes nothing.
WriteTransmit ==
    /\ At("write", "TRANSMIT_DATA")
    /\ Goto("DATA")
    /\ lost' = (lost \/ dev # "well")
    /\ UNCHANGED <<dev, hw, fn, read_cycle, n, p, req, left, result, late>>

\* A bug for mutation runs: number_of_byte is no byte.
WriteData_NoWidth ==
    /\ At("write", "DATA")
    /\ n' = n + ByteMod - 1
    /\ \/ /\ n > 0
          /\ p' = Advance
          /\ lost' = (lost \/ dev # "well")
          /\ UNCHANGED state
       \/ /\ n = 0
          /\ Goto("STOP")
          /\ UNCHANGED <<p, lost>>
    /\ UNCHANGED <<dev, hw, fn, read_cycle, req, left, result, late>>

\* A bug for mutation runs: the loop tests what it has counted down.
WriteData_PreDecrement ==
    /\ At("write", "DATA")
    /\ n' = IF n = 0 THEN ByteMod - 1 ELSE n - 1
    /\ \/ /\ n > 1
          /\ p' = Advance
          /\ lost' = (lost \/ dev # "well")
          /\ UNCHANGED state
       \/ /\ n <= 1
          /\ Goto("STOP")
          /\ UNCHANGED <<p, lost>>
    /\ UNCHANGED <<dev, hw, fn, read_cycle, req, left, result, late>>

\* One byte, likewise.  The test of the loop counts once more when it fails.
WriteData ==
    /\ At("write", "DATA")
    /\ n' = IF n = 0 THEN ByteMod - 1 ELSE n - 1
    /\ \/ /\ n > 0
          /\ p' = Advance
          /\ lost' = (lost \/ dev # "well")
          /\ UNCHANGED state
       \/ /\ n = 0
          /\ Goto("STOP")
          /\ UNCHANGED <<p, lost>>
    /\ UNCHANGED <<dev, hw, fn, read_cycle, req, left, result, late>>

WriteStop ==
    /\ At("write", "STOP")
    /\ \/ /\ dev # "silent"
          /\ held' = FALSE /\ stop' = FALSE
          /\ fn' = "standby" /\ state' = "START"
          /\ UNCHANGED late
       \/ /\ dev = "silent"
          /\ stop_on_bus
          /\ Goto("START")
          /\ late' = TRUE
          /\ UNCHANGED fn
    /\ UNCHANGED <<dev, read_cycle, n, p, req, left, result, lost>>

-------------------------------------------------------------------------------
(* i2c_wait_standby_state_timeout: has no way out but the acknowledge.     *)

StandbyStart ==
    /\ At("standby", "START")
    /\ \/ /\ Busy
          /\ i2c_bus_reset
          /\ UNCHANGED state
       \/ /\ ~Busy
          /\ start_on_bus
          /\ Goto("SEND_ADDRESS")
    /\ UNCHANGED <<dev, fn, read_cycle, n, p, req, left, result, hist>>

StandbySendAddress ==
    /\ At("standby", "SEND_ADDRESS")
    /\ Goto(IF dev = "silent" THEN "START" ELSE "CLEAR_ADDRESS_FLAG")
    /\ UNCHANGED <<dev, hw, fn, read_cycle, n, p, req, left, result, hist>>

\* The page is written: i2c_buffer_write goes on with the next one.
StandbyClearAddressFlag ==
    /\ At("standby", "CLEAR_ADDRESS_FLAG")
    /\ \/ /\ dev = "well"
          /\ stop_on_bus
          /\ \/ /\ left = 0
                /\ Return("OK")
                /\ UNCHANGED <<n, p, left>>
             \/ /\ left > 0
                /\ n' = PageOf(left) /\ left' = left - PageOf(left)
                /\ p' = req.planned - left
                /\ fn' = "write" /\ Goto("START")
                /\ UNCHANGED result
       \/ /\ dev # "well"
          /\ Goto(IF dev = "absent" THEN "STOP" ELSE "START")
          /\ UNCHANGED <<hw, fn, n, p, left, result>>
    /\ UNCHANGED <<dev, read_cycle, req, hist>>

StandbyStop ==
    /\ At("standby", "STOP")
    /\ IF dev = "silent" THEN stop_on_bus ELSE held' = FALSE /\ stop' = FALSE
    /\ Goto("START")
    /\ UNCHANGED <<dev, fn, read_cycle, n, p, req, left, result, hist>>

-------------------------------------------------------------------------------
Call ==
    \/ \E len \in Reads : i2c_buffer_read(len)
    \/ \E w \in Writes : i2c_buffer_write(w[1], w[2])

Step ==
    \/ ReadStart \/ ReadSendAddress \/ ReadClearAddressFlag \/ ReadTransmit
    \/ ReadData \/ ReadDataTimeout \/ ReadDataEnds \/ ReadStop
    \/ WriteStart \/ WriteSendAddress \/ WriteClearAddressFlag \/ WriteTransmit
    \/ WriteData \/ WriteStop
    \/ StandbyStart \/ StandbySendAddress \/ StandbyClearAddressFlag \/ StandbyStop

Next == Device \/ Call \/ Step

Spec == Init /\ [][Next]_vars
FairSpec == Spec /\ WF_vars(Step)
-------------------------------------------------------------------------------
Booleans == held \in BOOLEAN /\ stop \in BOOLEAN /\ late \in BOOLEAN /\ lost \in BOOLEAN

Ranges ==
    /\ dev \in {"well", "absent", "silent"}
    /\ fn \in {"idle", "read", "write", "standby"}
    /\ state \in {"START", "SEND_ADDRESS", "CLEAR_ADDRESS_FLAG", "TRANSMIT_DATA", "DATA", "STOP"}
    /\ read_cycle \in 0 .. 1
    /\ n \in Nat /\ p \in 0 .. req.len + 1 /\ left \in Nat
    /\ fn = "write" => n < ByteMod
    /\ result \in {"none", "OK", "FAIL", "3"}

\* Every variable keeps its type; number_of_byte of a page write stays a byte.
TypeOK == Booleans /\ Ranges

\* A call stays in the buffer it was given; a write leaves it only after a
\* stop condition timed out and number_of_byte, below zero, started again.
InBuffer == p > req.len => fn # "read" /\ late

\* When I2C_OK is returned every byte of the request was moved, to the buffer
\* of a read, to the data register for a write, unless a stop condition timed
\* out or the request is so long that number_of_page forgets pages of it.
\* Whether a byte written was acknowledged is OkIsAcknowledged.
OkIsWhole ==
    fn = "idle" /\ result = "OK" /\ ~late /\ req.len < ByteMod * I2C_PAGE_SIZE
      => p = req.len

\* bq76952.c prints "alarm enable not success" when i2c_buffer_write does not
\* return I2C_OK: with I2C_OK the device has acknowledged every byte.
OkIsAcknowledged == fn = "idle" /\ result = "OK" => ~lost

\* The bytes of a page write lie in one page of the device, and the pages
\* follow one another; together they are the request, unless number_of_page
\* forgets pages of it or a stop condition timed out.
PagesTile ==
    fn = "write" /\ state = "START" /\ ~late =>
        /\ p + n + left = req.planned
        /\ req.len < ByteMod * I2C_PAGE_SIZE => req.planned = req.len
        /\ req.len > 0 =>
             /\ n > 0
             /\ (req.addr + p) \div I2C_PAGE_SIZE = (req.addr + p + n - 1) \div I2C_PAGE_SIZE

\* No call leaves the bus held without a stop condition, and a call that
\* fails leaves it free; only a stop condition that timed out, or a read of no
\* bytes, may spoil it.
BusReleased ==
    fn = "idle" /\ held => stop \/ late \/ req.len = 0
FailResets == fn = "idle" /\ result = "FAIL" => ~held

\* When the device is well for good every call returns ...
CallReturns == <>[](dev = "well") => (fn # "idle" ~> fn = "idle")

\* ... and when it is not, main stays for ever in the data phase of a read or
\* in the wait after a page write, or it stays nowhere.
StaysOnlyThere ==
    /\ <>[](dev = "silent") => []<>(fn = "idle" \/ fn = "standby" \/ At("read", "DATA"))
    /\ <>[](dev = "absent") => []<>(fn = "idle" \/ fn = "standby" \/ At("read", "DATA"))
=============================================================================
