------------------------------- MODULE I2C_proofs -------------------------------
(***************************************************************************)
(* Proofs about the polled I2C driver, for any addresses and page size: a  *)
(* call stays in its buffer, I2C_OK means that all bytes were moved if     *)
(* number_of_page can count their pages, and the bus is not left held,     *)
(* each as far as no wait for a stop condition timed out.                  *)
(***************************************************************************)
EXTENDS I2C, TLAPS

\* The variables, with the request, and a page write's count in one byte.
Typed ==
    /\ Ranges
    /\ req \in [addr: Nat, len: Nat, planned: Nat]
    /\ req.planned <= req.len
    /\ req.len < ByteMod * I2C_PAGE_SIZE => req.planned = req.len
    /\ fn # "idle" => left <= req.planned

\* Bytes done, to do, and behind this page, make up what the call set out to do.
Counts ==
    /\ fn = "read" => p + n = req.len /\ req.planned = req.len
    /\ At("read", "STOP") => n = 0
    /\ fn = "write" /\ ~late => p + (IF state = "STOP" THEN 0 ELSE n) + left = req.planned
    /\ fn = "standby" /\ ~late => p + left = req.planned

\* A read asks for its stop condition one byte before the last, or with the
\* address if there is one byte only.
StopAsked ==
    /\ fn = "read" /\ n = 0 /\ state \notin {"DATA", "STOP"} => late \/ req.len = 0
    /\ fn = "read" /\ n <= 1 /\ ~late =>
         \/ req.len = 0
         \/ state \in {"START", "SEND_ADDRESS", "CLEAR_ADDRESS_FLAG"}
         \/ state = "TRANSMIT_DATA" /\ read_cycle = 0
         \/ stop

Inv == Typed /\ Counts /\ StopAsked /\ InBuffer /\ OkIsWhole /\ BusReleased /\ FailResets

\* What \div and % return.
LEMMA Divide ==
    ASSUME NEW a \in Nat, NEW P \in Nat \ {0}
    PROVE  a = P * (a \div P) + (a % P) /\ a % P \in 0 .. P - 1 /\ a \div P \in Nat
OBVIOUS

LEMMA PageOfType ==
    ASSUME NEW len \in Nat
    PROVE  /\ PageOf(len) \in 0 .. len /\ PageOf(len) < ByteMod
           /\ len > 0 => PageOf(len) > 0
BY I2CAssumption DEF PageOf, Min2

LEMMA ToPageEndType ==
    ASSUME NEW addr \in Nat, NEW len \in Nat
    PROVE  ToPageEnd(addr, len) \in 0 .. len /\ ToPageEnd(addr, len) < ByteMod
<1>1. addr % I2C_PAGE_SIZE \in 0 .. I2C_PAGE_SIZE - 1
  BY I2CAssumption
<1> QED
  BY <1>1, I2CAssumption DEF ToPageEnd, Min2

\* A byte for number_of_page keeps a rest whole that has fewer than ByteMod
\* pages, and never makes one longer.
LEMMA KeptWhole ==
    ASSUME NEW len \in Nat
    PROVE  /\ Kept(len) \in 0 .. len
           /\ len < ByteMod * I2C_PAGE_SIZE => Kept(len) = len
<1> DEFINE P == I2C_PAGE_SIZE
           q == len \div P
           m == q % ByteMod
<1>1. P \in Nat \ {0} /\ ByteMod \in Nat \ {0}
  BY I2CAssumption
<1>2. len = P * q + (len % P) /\ len % P \in 0 .. P - 1 /\ q \in Nat
  BY <1>1, Divide
<1>3. q = ByteMod * (q \div ByteMod) + m /\ m \in 0 .. ByteMod - 1 /\ q \div ByteMod \in Nat
  BY <1>1, <1>2, Divide
<1>4. Kept(len) = m * P + (len % P)
  BY DEF Kept
<1> HIDE DEF P, q, m
<1>5. ByteMod * (q \div ByteMod) \in Nat
  BY <1>1, <1>3
<1>6. m <= q
  BY <1>3, <1>5
<1>7. m * P <= q * P /\ m * P \in Nat /\ q * P = P * q
  BY <1>1, <1>2, <1>3, <1>6
<1>8. Kept(len) \in 0 .. len
  BY <1>1, <1>2, <1>4, <1>7
<1>9. ASSUME len < ByteMod * P PROVE Kept(len) = len
  <2>1. q < ByteMod
    <3>1. SUFFICES ASSUME q >= ByteMod PROVE FALSE
      BY <1>1, <1>2
    <3>2. P * q >= P * ByteMod /\ P * ByteMod = ByteMod * P
      BY <1>1, <1>2, <3>1
    <3> QED
      BY <1>1, <1>2, <1>9, <3>2
  <2>2. m = q
    BY <1>1, <1>2, <2>1 DEF m
  <2> QED
    BY <1>2, <1>4, <1>7, <2>2
<1> QED
  BY <1>8, <1>9 DEF P

\* A write begins with a page no longer than what it sets out to do, and sets
\* out to do the request, if number_of_page can count its pages.
LEMMA CallType ==
    ASSUME NEW addr \in Nat, NEW len \in Nat
    PROVE  /\ Planned(addr, len) \in 0 .. len
           /\ FirstPage(addr, len) \in 0 .. Planned(addr, len)
           /\ FirstPage(addr, len) < ByteMod
           /\ len < ByteMod * I2C_PAGE_SIZE => Planned(addr, len) = len
<1> DEFINE first == ToPageEnd(addr, len)
           rest  == Kept(len - first)
<1>1. first \in 0 .. len /\ first < ByteMod
  BY ToPageEndType
<1> HIDE DEF first
<1>2. len - first \in Nat
  BY <1>1
<1>3. /\ rest \in 0 .. len - first
      /\ len - first < ByteMod * I2C_PAGE_SIZE => rest = len - first
  BY <1>2, KeptWhole
<1>4. Planned(addr, len) = first + rest
  BY DEF Planned, first
<1> HIDE DEF rest
<1>5. Planned(addr, len) \in 0 .. len /\ first <= Planned(addr, len)
  BY <1>1, <1>2, <1>3, <1>4
<1>6. PageOf(Planned(addr, len)) \in 0 .. Planned(addr, len) /\ PageOf(Planned(addr, len)) < ByteMod
  BY <1>5, PageOfType
<1>7. ByteMod * I2C_PAGE_SIZE \in Nat
  BY I2CAssumption
<1>8. len < ByteMod * I2C_PAGE_SIZE => Planned(addr, len) = len
  BY <1>1, <1>2, <1>3, <1>4, <1>7
<1>9. FirstPage(addr, len) \in {first, PageOf(Planned(addr, len))}
  BY DEF FirstPage, first
<1> QED
  BY <1>1, <1>5, <1>6, <1>8, <1>9

LEMMA InvInit == Init => Inv
BY I2CAssumption DEF Init, Inv, Typed, Ranges, Counts, StopAsked, InBuffer, OkIsWhole,
   BusReleased, FailResets, None, At

LEMMA InvCall == Inv /\ Call => Inv'
<1> SUFFICES ASSUME Inv, Call PROVE Inv'
  OBVIOUS
<1> USE DEF Inv, Typed, Ranges, Counts, StopAsked, InBuffer, OkIsWhole, BusReleased,
        FailResets, At, hw
<1>1. ASSUME NEW len \in Reads, i2c_buffer_read(len) PROVE Inv'
  BY <1>1, I2CAssumption DEF i2c_buffer_read
<1>2. ASSUME NEW w \in Writes, i2c_buffer_write(w[1], w[2]) PROVE Inv'
  <2>1. w[1] \in Nat /\ w[2] \in Nat
    BY I2CAssumption
  <2>2. /\ Planned(w[1], w[2]) \in 0 .. w[2]
        /\ FirstPage(w[1], w[2]) \in 0 .. Planned(w[1], w[2])
        /\ FirstPage(w[1], w[2]) < ByteMod
        /\ w[2] < ByteMod * I2C_PAGE_SIZE => Planned(w[1], w[2]) = w[2]
    BY <2>1, CallType
  <2> QED
    BY <1>2, <2>1, <2>2, I2CAssumption DEF i2c_buffer_write, hist
<1> QED
  BY <1>1, <1>2 DEF Call

LEMMA InvRead ==
    Inv /\ (\/ ReadStart \/ ReadSendAddress \/ ReadClearAddressFlag \/ ReadTransmit
            \/ ReadData \/ ReadDataTimeout \/ ReadDataEnds \/ ReadStop)
    => Inv'
<1> SUFFICES ASSUME Inv PROVE
      (\/ ReadStart \/ ReadSendAddress \/ ReadClearAddressFlag \/ ReadTransmit
       \/ ReadData \/ ReadDataTimeout \/ ReadDataEnds \/ ReadStop) => Inv'
  OBVIOUS
<1> USE DEF Inv, Typed, Ranges, Counts, StopAsked, InBuffer, OkIsWhole, BusReleased,
        FailResets, At, hw, hist, Goto, Return
<1>1. ReadStart => Inv'
  BY DEF ReadStart, Busy, start_on_bus, i2c_bus_reset
<1>2. ReadSendAddress => Inv'
  BY DEF ReadSendAddress, i2c_bus_reset
<1>3. ReadClearAddressFlag => Inv'
  BY DEF ReadClearAddressFlag, i2c_bus_reset, stop_on_bus
<1>4. ReadTransmit => Inv'
  BY DEF ReadTransmit, i2c_bus_reset
<1>5. ReadData => Inv'
  BY DEF ReadData, stop_on_bus, Advance, Min2
<1>6. ReadDataTimeout => Inv'
  BY DEF ReadDataTimeout
<1>7. ReadDataEnds => Inv'
  BY DEF ReadDataEnds
<1>8. ReadStop => Inv'
  <2>1. ASSUME ReadStop, state' = "START", fn' = "idle" PROVE Inv'
    <3>1. CASE stop
      BY <2>1, <3>1 DEF ReadStop, StopMade
    <3>2. CASE ~stop
      BY <2>1, <3>2 DEF ReadStop, StopMade
    <3> QED
      BY <3>1, <3>2
  <2>2. ASSUME ReadStop, late' = TRUE, fn' = "read" PROVE Inv'
    BY <2>2 DEF ReadStop
  <2> QED
    BY <2>1, <2>2 DEF ReadStop
<1> QED
  BY <1>1, <1>2, <1>3, <1>4, <1>5, <1>6, <1>7, <1>8

LEMMA InvWrite ==
    Inv /\ (\/ WriteStart \/ WriteSendAddress \/ WriteClearAddressFlag \/ WriteTransmit
            \/ WriteData \/ WriteStop)
    => Inv'
<1> SUFFICES ASSUME Inv PROVE
      (\/ WriteStart \/ WriteSendAddress \/ WriteClearAddressFlag \/ WriteTransmit
       \/ WriteData \/ WriteStop) => Inv'
  OBVIOUS
<1> USE DEF Inv, Typed, Ranges, Counts, StopAsked, InBuffer, OkIsWhole, BusReleased,
        FailResets, At, hw, hist, Goto, Return
<1>1. WriteStart => Inv'
  BY DEF WriteStart, Busy, start_on_bus, i2c_bus_reset
<1>2. WriteSendAddress => Inv'
  BY DEF WriteSendAddress
<1>3. WriteClearAddressFlag => Inv'
  BY DEF WriteClearAddressFlag, i2c_bus_reset
<1>4. WriteTransmit => Inv'
  BY DEF WriteTransmit
<1>5. WriteData => Inv'
  BY I2CAssumption DEF WriteData, Advance, Min2
<1>6. WriteStop => Inv'
  BY DEF WriteStop, stop_on_bus
<1> QED
  BY <1>1, <1>2, <1>3, <1>4, <1>5, <1>6

LEMMA InvStandby ==
    Inv /\ (StandbyStart \/ StandbySendAddress \/ StandbyClearAddressFlag \/ StandbyStop)
    => Inv'
<1> SUFFICES ASSUME Inv PROVE
      (StandbyStart \/ StandbySendAddress \/ StandbyClearAddressFlag \/ StandbyStop) => Inv'
  OBVIOUS
<1> USE DEF Inv, Typed, Ranges, Counts, StopAsked, InBuffer, OkIsWhole, BusReleased,
        FailResets, At, hw, hist, Goto, Return
<1>1. StandbyStart => Inv'
  BY DEF StandbyStart, Busy, start_on_bus, i2c_bus_reset
<1>2. StandbySendAddress => Inv'
  BY DEF StandbySendAddress
<1>3. StandbyClearAddressFlag => Inv'
  <2>1. PageOf(left) \in 0 .. left /\ PageOf(left) < ByteMod
    BY PageOfType
  <2> QED
    BY <2>1 DEF StandbyClearAddressFlag, stop_on_bus
<1>4. StandbyStop => Inv'
  BY DEF StandbyStop, stop_on_bus
<1> QED
  BY <1>1, <1>2, <1>3, <1>4

LEMMA InvNext == Inv /\ [Next]_vars => Inv'
<1> SUFFICES ASSUME Inv, [Next]_vars PROVE Inv'
  OBVIOUS
<1>1. CASE Device
  BY <1>1 DEF Device, Inv, Typed, Ranges, Counts, StopAsked, InBuffer, OkIsWhole,
     BusReleased, FailResets, At, hw, hist
<1>2. CASE UNCHANGED vars
  BY <1>2 DEF vars, Inv, Typed, Ranges, Counts, StopAsked, InBuffer, OkIsWhole,
     BusReleased, FailResets, At, hw, hist
<1> QED
  BY <1>1, <1>2, InvCall, InvRead, InvWrite, InvStandby DEF Next, Step

LEMMA BooleansInvariance == Spec => []Booleans
<1>1. Init => Booleans
  BY DEF Init, Booleans
<1>2. Booleans /\ [Next]_vars => Booleans'
  <2> SUFFICES ASSUME Booleans, [Next]_vars PROVE Booleans'
    OBVIOUS
  <2> USE DEF Booleans, hw, hist, start_on_bus, stop_on_bus, i2c_bus_reset
  <2>1. Device \/ UNCHANGED vars => Booleans'
    BY Zenon DEF Device, vars
  <2>2. Call => Booleans'
    BY Zenon DEF Call, i2c_buffer_read, i2c_buffer_write
  <2>3. ReadStart \/ ReadSendAddress \/ ReadClearAddressFlag => Booleans'
    BY Zenon DEF ReadStart, ReadSendAddress, ReadClearAddressFlag
  <2>4. ReadTransmit \/ ReadDataTimeout \/ ReadDataEnds => Booleans'
    BY Zenon DEF ReadTransmit, ReadDataTimeout, ReadDataEnds
  <2>5. ReadData => Booleans'
    BY Zenon DEF ReadData
  <2>6. ReadStop => Booleans'
    BY Zenon DEF ReadStop, StopMade
  <2>7. WriteStart \/ WriteSendAddress \/ WriteClearAddressFlag \/ WriteTransmit => Booleans'
    BY Zenon DEF WriteStart, WriteSendAddress, WriteClearAddressFlag, WriteTransmit
  <2>8. WriteData \/ WriteStop => Booleans'
    BY Zenon DEF WriteData, WriteStop
  <2>9. StandbyStart \/ StandbySendAddress \/ StandbyStop => Booleans'
    BY Zenon DEF StandbyStart, StandbySendAddress, StandbyStop
  <2>10. StandbyClearAddressFlag => Booleans'
    BY Zenon DEF StandbyClearAddressFlag
  <2> QED
    BY <2>1, <2>2, <2>3, <2>4, <2>5, <2>6, <2>7, <2>8, <2>9, <2>10 DEF Next, Step
<1> QED
  BY <1>1, <1>2, PTL DEF Spec

LEMMA Invariance == Spec => []Inv
BY InvInit, InvNext, PTL DEF Spec

\* The driver's variables keep their types: number_of_byte of a page write
\* stays a byte, whatever times out.
THEOREM TypeCorrect == Spec => []TypeOK
<1>1. Inv /\ Booleans => TypeOK
  BY DEF Inv, Typed, TypeOK
<1> QED
  BY <1>1, Invariance, BooleansInvariance, PTL

\* For any length, address and page size no call goes past its buffer, but a
\* write whose stop condition timed out (i2c.c:276).
THEOREM InBufferThm == Spec => []InBuffer
<1>1. Inv => InBuffer
  BY DEF Inv
<1> QED
  BY <1>1, Invariance, PTL

\* For any address, page size and length that number_of_page can count the
\* pages of, I2C_OK is returned only when every byte of the request was moved,
\* acknowledged or not, unless a stop condition timed out.
THEOREM OkIsWholeThm == Spec => []OkIsWhole
<1>1. Inv => OkIsWhole
  BY DEF Inv
<1> QED
  BY <1>1, Invariance, PTL

\* A call that returns has asked for a stop condition or released the bus,
\* unless one timed out or the call read no byte.
THEOREM BusReleasedThm == Spec => []BusReleased
<1>1. Inv => BusReleased
  BY DEF Inv
<1> QED
  BY <1>1, Invariance, PTL

\* A call that returns I2C_FAIL leaves the bus free for the next one.
THEOREM FailResetsThm == Spec => []FailResets
<1>1. Inv => FailResets
  BY DEF Inv
<1> QED
  BY <1>1, Invariance, PTL

-------------------------------------------------------------------------------
(* The pages.  First what \div and % of any page size P need.              *)

\* Quotient and remainder are unique.
LEMMA OneQuotient ==
    ASSUME NEW P \in Nat \ {0}, NEW q \in Nat, NEW k \in Nat,
           NEW r \in 0 .. P - 1, NEW s \in 0 .. P - 1, P * q + r = P * k + s
    PROVE  q = k /\ r = s
<1>1. CASE q < k
  <2>1. k >= q + 1
    BY <1>1
  <2>2. P * k >= P * (q + 1)
    BY <2>1
  <2>3. P * (q + 1) = P * q + P
    OBVIOUS
  <2> QED
    BY <2>2, <2>3
<1>2. CASE k < q
  <2>1. q >= k + 1
    BY <1>2
  <2>2. P * q >= P * (k + 1)
    BY <2>1
  <2>3. P * (k + 1) = P * k + P
    OBVIOUS
  <2> QED
    BY <2>2, <2>3
<1>3. CASE q = k
  BY <1>3
<1> QED
  BY <1>1, <1>2, <1>3

\* As many bytes as are left in the page of a lie in the page of a.
LEMMA SamePage ==
    ASSUME NEW a \in Nat, NEW P \in Nat \ {0}, NEW b \in 0 .. P - 1 - (a % P)
    PROVE  (a + b) \div P = a \div P
<1>1. a = P * (a \div P) + (a % P) /\ a % P \in 0 .. P - 1 /\ a \div P \in Nat
  BY Divide
<1>2. a + b \in Nat
  BY <1>1
<1>3. a + b = P * ((a + b) \div P) + ((a + b) % P) /\ (a + b) % P \in 0 .. P - 1 /\ (a + b) \div P \in Nat
  BY <1>2, Divide
<1>4. (a % P) + b \in 0 .. P - 1
  BY <1>1
<1>5. P * ((a + b) \div P) + ((a + b) % P) = P * (a \div P) + ((a % P) + b)
  BY <1>1, <1>3
<1> QED
  BY <1>1, <1>3, <1>4, <1>5, OneQuotient

\* A multiple of P leaves no remainder.
LEMMA Multiple ==
    ASSUME NEW P \in Nat \ {0}, NEW k \in Nat, NEW e \in Nat, e = P * k
    PROVE  e % P = 0
<1>1. ASSUME NEW q \in Nat, NEW r \in 0 .. P - 1, NEW s \in 0 .. P - 1, s = 0, e = P * q + r
      PROVE  r = s
  <2>1. P * q + r = P * k + s
    BY <1>1
  <2> QED
    BY <2>1, OneQuotient
<1>2. e = P * (e \div P) + (e % P) /\ e % P \in 0 .. P - 1 /\ e \div P \in Nat
  BY Divide
<1>3. 0 \in 0 .. P - 1
  OBVIOUS
<1> QED
  BY <1>1, <1>2, <1>3

\* What is left in the page of a ends where a page starts.
LEMMA PageEnds ==
    ASSUME NEW a \in Nat, NEW P \in Nat \ {0}
    PROVE  (a + (P - (a % P))) % P = 0
<1>1. a = P * (a \div P) + (a % P) /\ a % P \in 0 .. P - 1 /\ a \div P \in Nat
  BY Divide
<1>2. P * ((a \div P) + 1) = P * (a \div P) + P /\ (a \div P) + 1 \in Nat
  BY <1>1
<1>3. a + (P - (a % P)) \in Nat /\ a + (P - (a % P)) = P * ((a \div P) + 1)
  BY <1>1, <1>2
<1> QED
  BY <1>2, <1>3, Multiple

\* A page that starts where a page of the device starts.
LEMMA PageOfTiles ==
    ASSUME NEW a \in Nat, NEW len \in Nat \ {0}, a % I2C_PAGE_SIZE = 0
    PROVE  /\ PageOf(len) \in 1 .. len
           /\ (a + PageOf(len) - 1) \div I2C_PAGE_SIZE = a \div I2C_PAGE_SIZE
           /\ len - PageOf(len) = 0 \/ (a + PageOf(len)) % I2C_PAGE_SIZE = 0
<1> DEFINE P == I2C_PAGE_SIZE
           n1 == PageOf(len)
<1>1. P \in Nat \ {0} /\ a % P = 0
  BY I2CAssumption
<1>2. n1 \in 1 .. len /\ n1 - 1 \in 0 .. P - 1 - (a % P) /\ (n1 = len \/ n1 = P - (a % P))
  BY <1>1 DEF PageOf, Min2
<1> HIDE DEF P, n1
<1>3. (a + (n1 - 1)) \div P = a \div P
  BY <1>1, <1>2, SamePage
<1>4. a + (n1 - 1) = a + n1 - 1
  BY <1>2
<1>5. len - n1 = 0 \/ (a + n1) % P = 0
  <2>1. (a + (P - (a % P))) % P = 0
    BY <1>1, PageEnds
  <2> QED
    BY <1>2, <2>1
<1> QED
  BY <1>2, <1>3, <1>4, <1>5 DEF P, n1

\* What goes first from inside a page ends with the page, or is all there is.
LEMMA ToPageEndTiles ==
    ASSUME NEW a \in Nat, NEW len \in Nat \ {0}, a % I2C_PAGE_SIZE # 0
    PROVE  /\ ToPageEnd(a, len) \in 1 .. len
           /\ (a + ToPageEnd(a, len) - 1) \div I2C_PAGE_SIZE = a \div I2C_PAGE_SIZE
           /\ ToPageEnd(a, len) = len \/ (a + ToPageEnd(a, len)) % I2C_PAGE_SIZE = 0
<1> DEFINE P == I2C_PAGE_SIZE
           n1 == ToPageEnd(a, len)
<1>1. P \in Nat \ {0} /\ a % P \in 0 .. P - 1
  BY I2CAssumption, Divide
<1>2. n1 \in 1 .. len /\ n1 - 1 \in 0 .. P - 1 - (a % P) /\ (n1 = len \/ n1 = P - (a % P))
  BY <1>1 DEF ToPageEnd, Min2
<1> HIDE DEF P, n1
<1>3. (a + (n1 - 1)) \div P = a \div P
  BY <1>1, <1>2, SamePage
<1>4. a + (n1 - 1) = a + n1 - 1
  BY <1>2
<1>5. n1 = len \/ (a + n1) % P = 0
  <2>1. (a + (P - (a % P))) % P = 0
    BY <1>1, PageEnds
  <2> QED
    BY <1>2, <2>1
<1> QED
  BY <1>2, <1>3, <1>4, <1>5 DEF P, n1

\* The page that a write begins with.
LEMMA CallTiles ==
    ASSUME NEW addr \in Nat, NEW len \in Nat,
           addr % I2C_PAGE_SIZE # 0 \/ Planned(addr, len) > 0
    PROVE  /\ len > 0 =>
                /\ FirstPage(addr, len) > 0
                /\ (addr + FirstPage(addr, len) - 1) \div I2C_PAGE_SIZE = addr \div I2C_PAGE_SIZE
           /\ \/ Planned(addr, len) - FirstPage(addr, len) = 0
              \/ (addr + FirstPage(addr, len)) % I2C_PAGE_SIZE = 0
<1>1. /\ Planned(addr, len) \in 0 .. len
      /\ FirstPage(addr, len) \in 0 .. Planned(addr, len)
  BY CallType
<1>2. CASE addr % I2C_PAGE_SIZE = 0
  <2>1. Planned(addr, len) \in Nat \ {0} /\ FirstPage(addr, len) = PageOf(Planned(addr, len))
    BY <1>1, <1>2 DEF FirstPage
  <2> QED
    BY <1>2, <2>1, PageOfTiles
<1>3. CASE addr % I2C_PAGE_SIZE # 0 /\ len > 0
  <2>1. FirstPage(addr, len) = ToPageEnd(addr, len) /\ len \in Nat \ {0}
    BY <1>3 DEF FirstPage
  <2>2. /\ FirstPage(addr, len) \in 1 .. len
        /\ (addr + FirstPage(addr, len) - 1) \div I2C_PAGE_SIZE = addr \div I2C_PAGE_SIZE
        /\ FirstPage(addr, len) = len \/ (addr + FirstPage(addr, len)) % I2C_PAGE_SIZE = 0
    BY <1>3, <2>1, ToPageEndTiles
  <2>3. FirstPage(addr, len) = len => Planned(addr, len) - FirstPage(addr, len) = 0
    BY <1>1
  <2> QED
    BY <2>2, <2>3
<1>4. CASE len = 0
  BY <1>1, <1>4
<1> QED
  BY <1>2, <1>3, <1>4

\* The page that is written ends at the end of a page of the device, or of
\* what the call set out to do; before its bytes are sent they all lie in one.
Sending == {"START", "SEND_ADDRESS", "CLEAR_ADDRESS_FLAG", "TRANSMIT_DATA"}
ToSend == IF state = "STOP" THEN 0 ELSE n

Tiles ==
    ~late =>
      /\ fn = "write" => left = 0 \/ (req.addr + (p + ToSend)) % I2C_PAGE_SIZE = 0
      /\ fn = "write" /\ state \in Sending /\ req.len > 0 =>
           /\ n > 0
           /\ (req.addr + p) \div I2C_PAGE_SIZE = (req.addr + p + n - 1) \div I2C_PAGE_SIZE
      /\ fn = "standby" => left = 0 \/ (req.addr + p) % I2C_PAGE_SIZE = 0

\* No write has begun.
LEMMA TilesInit == Init => Tiles
BY DEF Init, Tiles

\* Every step keeps the pages in place: a byte sent moves the offset on as it
\* counts down, and the next page starts where the last one ended.
LEMMA TilesNext == Inv /\ Tiles /\ [Next]_vars => Tiles'
<1> SUFFICES ASSUME Inv, Tiles, [Next]_vars PROVE Tiles'
  OBVIOUS
<1> USE DEF Tiles, ToSend, Sending, At, hw, hist, Goto, Return
<1>t. /\ p \in Nat /\ n \in Nat /\ left \in Nat /\ req.addr \in Nat /\ req.len \in Nat
      /\ req.planned \in 0 .. req.len
      /\ ~late /\ fn = "write" => p <= req.len
      /\ ~late /\ fn = "standby" => p + left = req.planned
      /\ ~late /\ fn = "write" /\ state # "STOP" => p + n <= req.len
  BY DEF Inv, Typed, Ranges, Counts
<1>1. CASE Device \/ UNCHANGED vars
  BY <1>1 DEF Device, vars
<1>2. ASSUME NEW len \in Reads, i2c_buffer_read(len) PROVE Tiles'
  BY <1>2 DEF i2c_buffer_read
<1>3. ASSUME NEW w \in Writes, i2c_buffer_write(w[1], w[2]) PROVE Tiles'
  <2>1. w[1] \in Nat /\ w[2] \in Nat
    BY I2CAssumption
  <2>2. CASE UNCHANGED <<fn, state, n, p, left, req, late>>
    BY <2>2
  <2>3. CASE /\ w[1] % I2C_PAGE_SIZE # 0 \/ Planned(w[1], w[2]) > 0
             /\ fn' = "write" /\ state' = "START" /\ n' = FirstPage(w[1], w[2]) /\ p' = 0
             /\ left' = Planned(w[1], w[2]) - FirstPage(w[1], w[2])
             /\ req' = [addr |-> w[1], len |-> w[2], planned |-> Planned(w[1], w[2])]
    <3>1. /\ Planned(w[1], w[2]) \in 0 .. w[2]
          /\ FirstPage(w[1], w[2]) \in 0 .. Planned(w[1], w[2])
      BY <2>1, CallType
    <3>2. /\ w[2] > 0 =>
               /\ FirstPage(w[1], w[2]) > 0
               /\ (w[1] + FirstPage(w[1], w[2]) - 1) \div I2C_PAGE_SIZE = w[1] \div I2C_PAGE_SIZE
          /\ \/ Planned(w[1], w[2]) - FirstPage(w[1], w[2]) = 0
             \/ (w[1] + FirstPage(w[1], w[2])) % I2C_PAGE_SIZE = 0
      BY <2>1, <2>3, CallTiles
    <3>3. /\ req'.addr = w[1] /\ req'.len = w[2]
          /\ req'.addr + (p' + n') = w[1] + FirstPage(w[1], w[2])
          /\ req'.addr + p' = w[1]
          /\ req'.addr + p' + n' - 1 = w[1] + FirstPage(w[1], w[2]) - 1
      BY <2>1, <2>3, <3>1
    <3> QED
      BY <2>3, <3>2, <3>3
  <2> QED
    BY <1>3, <2>2, <2>3 DEF i2c_buffer_write
<1>4. CASE ReadStart \/ ReadSendAddress \/ ReadClearAddressFlag \/ ReadTransmit
           \/ ReadData \/ ReadDataTimeout \/ ReadDataEnds \/ ReadStop
  BY <1>4 DEF ReadStart, ReadSendAddress, ReadClearAddressFlag, ReadTransmit,
     ReadData, ReadDataTimeout, ReadDataEnds, ReadStop
<1>5. CASE WriteStart \/ WriteSendAddress \/ WriteClearAddressFlag \/ WriteTransmit
  BY <1>5 DEF WriteStart, WriteSendAddress, WriteClearAddressFlag, WriteTransmit
<1>6. CASE WriteData
  <2>1. SUFFICES ASSUME ~late PROVE Tiles'
    BY <1>6 DEF WriteData
  <2>2. CASE n > 0
    <3>1. p' = p + 1 /\ n' = n - 1 /\ state' = state /\ state = "DATA"
      BY <1>6, <1>t, <2>1, <2>2 DEF WriteData, Advance, Min2
    <3>2. p' + n' = p + n
      BY <1>t, <3>1
    <3> QED
      BY <1>6, <2>1, <3>1, <3>2 DEF WriteData
  <2>3. CASE n = 0
    <3>1. p' = p /\ state' = "STOP" /\ p' + 0 = p + n
      BY <1>6, <1>t, <2>3 DEF WriteData
    <3> QED
      BY <1>6, <2>1, <3>1 DEF WriteData
  <2> QED
    BY <1>t, <2>2, <2>3
<1>7. CASE WriteStop
  BY <1>7, <1>t DEF WriteStop
<1>8. CASE StandbyStart \/ StandbySendAddress \/ StandbyStop
  BY <1>8 DEF StandbyStart, StandbySendAddress, StandbyStop
<1>9. CASE StandbyClearAddressFlag
  <2>1. CASE fn' # "write"
    BY <1>9, <2>1 DEF StandbyClearAddressFlag
  <2>2. CASE fn' = "write" /\ ~late'
    <3>1. /\ fn = "standby" /\ ~late /\ left > 0 /\ state' = "START" /\ UNCHANGED req
          /\ n' = PageOf(left) /\ left' = left - PageOf(left) /\ p' = req.planned - left
      BY <1>9, <2>2 DEF StandbyClearAddressFlag
    <3>2. p' = p /\ (req.addr + p) % I2C_PAGE_SIZE = 0 /\ req.addr + p \in Nat
      BY <1>t, <3>1
    <3>4. /\ n' \in 1 .. left
          /\ (req.addr + p + n' - 1) \div I2C_PAGE_SIZE = (req.addr + p) \div I2C_PAGE_SIZE
          /\ left' = 0 \/ (req.addr + p + n') % I2C_PAGE_SIZE = 0
      <4> DEFINE a == req.addr + p
      <4> HIDE DEF a
      <4>1. a \in Nat /\ left \in Nat \ {0} /\ a % I2C_PAGE_SIZE = 0
        BY <1>t, <3>1, <3>2 DEF a
      <4>2. /\ PageOf(left) \in 1 .. left
            /\ (a + PageOf(left) - 1) \div I2C_PAGE_SIZE = a \div I2C_PAGE_SIZE
            /\ left - PageOf(left) = 0 \/ (a + PageOf(left)) % I2C_PAGE_SIZE = 0
        BY <4>1, PageOfTiles
      <4> QED
        BY <3>1, <4>2 DEF a
    <3>5. /\ req'.addr + (p' + n') = req.addr + p + n'
          /\ req'.addr + p' = req.addr + p
          /\ req'.addr + p' + n' - 1 = req.addr + p + n' - 1
          /\ n' > 0
      BY <1>t, <3>1, <3>2, <3>4
    <3>6. (req'.addr + p' + n' - 1) \div I2C_PAGE_SIZE = (req'.addr + p') \div I2C_PAGE_SIZE
      BY <3>4, <3>5
    <3>7. left' = 0 \/ (req'.addr + (p' + n')) % I2C_PAGE_SIZE = 0
      BY <3>4, <3>5
    <3>8. ToSend' = n'
      BY <3>1
    <3> HIDE DEF ToSend
    <3> QED
      BY <2>2, <3>1, <3>5, <3>6, <3>7, <3>8
  <2> QED
    BY <2>1, <2>2
<1> QED
  BY <1>1, <1>2, <1>3, <1>4, <1>5, <1>6, <1>7, <1>8, <1>9 DEF Next, Call, Step

\* For any page size, address and length the bytes of a page write lie in one
\* page of the device, and the pages follow one another, until a stop condition
\* times out; they are the whole request when number_of_page, a byte, can count
\* its pages.
THEOREM PagesTileThm == Spec => []PagesTile
<1>1. Inv /\ Tiles => PagesTile
  BY DEF Inv, Typed, Counts, Tiles, PagesTile, Sending
<1> QED
  BY <1>1, TilesInit, TilesNext, InvInit, InvNext, PTL DEF Spec
=============================================================================
