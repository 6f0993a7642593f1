--------------------------- MODULE DevicesProofs ---------------------------
(***************************************************************************)
(* The proofs about Devices: for every configuration word, and for every   *)
(* size of the tables that satisfies FitAssumption, no vector is given out *)
(* twice, and every interrupt reaches the unit that raised it.             *)
(***************************************************************************)
EXTENDS Devices, FiniteSetTheorems, TLAPS

(***************************************************************************)
(* The drivers install handlers of their own and leave every other vector  *)
(* of the table alone (dev_alloc_uart, dev_alloc_spi, dev_alloc_i2c,       *)
(* dev_alloc_gpio).                                                        *)
(***************************************************************************)
LEMMA AllocUartType ==
  ASSUME NEW d \in [Vectors -> Handlers], NEW unit \in Nat,
         NEW tx \in Vectors, NEW rx \in Vectors
  PROVE  /\ AllocUart(d, unit, tx, rx) \in [Vectors -> Handlers]
         /\ \A v \in Vectors : v # tx /\ v # rx => AllocUart(d, unit, tx, rx)[v] = d[v]
         /\ unit >= MaxUart => AllocUart(d, unit, tx, rx) = d
<1>1. CASE unit < MaxUart
  <2>1. unit \in 0 .. MaxUart - 1
    BY <1>1, FitAssumption
  <2>2. <<"uart_tx", unit>> \in Handlers /\ <<"uart_rx", unit>> \in Handlers
    BY <2>1 DEF Handlers
  <2>3. AllocUart(d, unit, tx, rx)
          = [d EXCEPT ![tx] = <<"uart_tx", unit>>, ![rx] = <<"uart_rx", unit>>]
    BY <1>1 DEF AllocUart
  <2>4. ~(unit >= MaxUart)
    BY <1>1, FitAssumption
  <2> QED
    BY <2>2, <2>3, <2>4
<1>2. CASE ~(unit < MaxUart)
  BY <1>2 DEF AllocUart
<1> QED
  BY <1>1, <1>2

LEMMA AllocSpiType ==
  ASSUME NEW d \in [Vectors -> Handlers], NEW unit \in Nat, NEW v \in Vectors
  PROVE  /\ AllocSpi(d, unit, v) \in [Vectors -> Handlers]
         /\ \A w \in Vectors : w # v => AllocSpi(d, unit, v)[w] = d[w]
<1>1. CASE unit < MaxSpi
  <2>1. unit \in 0 .. MaxSpi - 1
    BY <1>1, FitAssumption
  <2>2. <<"spi", unit>> \in Handlers
    BY <2>1 DEF Handlers
  <2> QED
    BY <1>1, <2>2 DEF AllocSpi
<1>2. CASE ~(unit < MaxSpi)
  BY <1>2 DEF AllocSpi
<1> QED
  BY <1>1, <1>2

LEMMA AllocI2cType ==
  ASSUME NEW d \in [Vectors -> Handlers], NEW unit \in Nat, NEW v \in Vectors
  PROVE  /\ AllocI2c(d, unit, v) \in [Vectors -> Handlers]
         /\ \A w \in Vectors : w # v => AllocI2c(d, unit, v)[w] = d[w]
<1>1. CASE unit < MaxI2c
  <2>1. unit \in 0 .. MaxI2c - 1
    BY <1>1, FitAssumption
  <2>2. <<"i2c", unit>> \in Handlers
    BY <2>1 DEF Handlers
  <2> QED
    BY <1>1, <2>2 DEF AllocI2c
<1>2. CASE ~(unit < MaxI2c)
  BY <1>2 DEF AllocI2c
<1> QED
  BY <1>1, <1>2

LEMMA FixedDispatchType ==
  /\ FixedDispatch \in [Vectors -> Handlers]
  /\ \A v \in Vectors : v >= 5 => FixedDispatch[v] = Unrecognized
<1> DEFINE blank == [v \in Vectors |-> Unrecognized]
           timer == AllocTimer(blank, 1)
           uart  == AllocUart(timer, 0, 2, 3)
<1>1. 1 \in Vectors /\ 2 \in Vectors /\ 3 \in Vectors /\ 4 \in Vectors
  BY FitAssumption DEF Vectors
<1>2. blank \in [Vectors -> Handlers]
  BY DEF Handlers
<1>3. timer \in [Vectors -> Handlers] /\ \A v \in Vectors : v # 1 => timer[v] = Unrecognized
  <2>1. <<"timer", 0>> \in Handlers
    BY DEF Handlers
  <2> QED
    BY <1>1, <1>2, <2>1 DEF AllocTimer
<1> HIDE DEF timer
<1>4. /\ uart \in [Vectors -> Handlers]
      /\ \A v \in Vectors : v # 2 /\ v # 3 => uart[v] = timer[v]
  BY <1>1, <1>3, AllocUartType
<1> HIDE DEF uart
<1>5. FixedDispatch = AllocSpi(uart, 0, 4)
  BY DEF FixedDispatch, uart, timer
<1>6. /\ AllocSpi(uart, 0, 4) \in [Vectors -> Handlers]
      /\ \A v \in Vectors : v # 4 => AllocSpi(uart, 0, 4)[v] = uart[v]
  BY <1>1, <1>4, AllocSpiType
<1>7. ASSUME NEW v \in Vectors, v >= 5
      PROVE  v # 1 /\ v # 2 /\ v # 3 /\ v # 4
  BY <1>7 DEF Vectors
<1> QED
  BY <1>3, <1>4, <1>5, <1>6, <1>7

-----------------------------------------------------------------------------
(***************************************************************************)
(* The arithmetic that keeps the last vector free: a UART that is not      *)
(* beyond the driver's units never comes at the last vector but one, since *)
(* the entries before it would have to be more than there are.             *)
(***************************************************************************)
LEMMA UartBelowLast ==
  ASSUME TypeOK, CountInv, ctr < PeriphMax, vnr = IvecMax - 2
  PROVE  uarts >= MaxUart
<1>1. /\ ctr \in Nat /\ vnr \in Int /\ uarts \in Int /\ spis \in Int /\ i2cs \in Int
      /\ IvecMax \in Int /\ PeriphMax \in Int /\ MaxUart \in Int
      /\ 5 + PeriphMax + MaxUart <= IvecMax
  BY FitAssumption DEF TypeOK
<1> QED
  BY <1>1 DEF CountInv

(***************************************************************************)
(* Every step of setup_devices keeps the invariant, and leaves the vectors *)
(* that were given out to those that have them.                            *)
(***************************************************************************)
VectorsKept ==
  \A v \in Vectors : dispatch[v] # Unrecognized => dispatch'[v] = dispatch[v]

LEMMA EntryFacts ==
  ASSUME DevicesInv, NEW kind \in Kinds, Entry(kind)
  PROVE  /\ ~ready /\ ~ready' /\ ready' \in BOOLEAN /\ periph' = periph
         /\ ctr < PeriphMax /\ ctr' = ctr + 1 /\ ctr' \in 0 .. PeriphMax
         /\ vnr \in Vectors /\ vnr + 1 \in Vectors
         /\ vnr + 1 \in 5 .. IvecMax /\ vnr + 2 \in 5 .. IvecMax
         /\ vnr # IvecMax - 1
         /\ dispatch[vnr] = Unrecognized /\ dispatch[vnr + 1] = Unrecognized
         /\ periph \in [Entries -> Kinds]
         /\ dispatch \in [Vectors -> Handlers]
<1>1. /\ ~ready /\ ctr < PeriphMax /\ vnr < IvecMax - 1
      /\ ctr' = ctr + 1 /\ periph' = periph
  BY DEF Entry, More
<1>0. ready' \in BOOLEAN /\ ~ready'
  <2>1. ready' = ready
    BY DEF Entry
  <2>2. ready \in BOOLEAN
    BY DEF DevicesInv, TypeOK
  <2> QED
    BY <1>1, <2>1, <2>2
<1>2. /\ ctr \in 0 .. PeriphMax /\ vnr \in 5 .. IvecMax
      /\ IvecMax \in Int /\ PeriphMax \in Int
      /\ periph \in [Entries -> Kinds] /\ dispatch \in [Vectors -> Handlers]
  BY FitAssumption DEF DevicesInv, TypeOK
<1>3. /\ ctr + 1 \in 0 .. PeriphMax
      /\ vnr \in 0 .. IvecMax - 1 /\ vnr + 1 \in 0 .. IvecMax - 1
      /\ vnr + 1 \in 5 .. IvecMax /\ vnr + 2 \in 5 .. IvecMax
      /\ vnr # IvecMax - 1 /\ vnr >= vnr /\ vnr + 1 >= vnr
  BY <1>1, <1>2
<1>4. \A v \in Vectors : v >= vnr => dispatch[v] = Unrecognized
  BY <1>1 DEF DevicesInv, FreeInv
<1>5. dispatch[vnr] = Unrecognized /\ dispatch[vnr + 1] = Unrecognized
  BY <1>3, <1>4 DEF Vectors
<1> QED
  BY <1>0, <1>1, <1>2, <1>3, <1>5 DEF Vectors

LEMMA DevicesInit == Init => DevicesInv
<1> SUFFICES ASSUME Init PROVE DevicesInv
  OBVIOUS
<1>1. TypeOK
  <2>1. periph \in [Entries -> Kinds] /\ dispatch = FixedDispatch /\ ready = FALSE
    BY DEF Init
  <2>2. /\ 0 \in 0 .. PeriphMax /\ 5 \in 5 .. IvecMax
        /\ 1 \in Nat \ {0} /\ 0 \in Nat
    BY FitAssumption
  <2>3. ready \in BOOLEAN
    BY <2>1
  <2>4. ctr = 0 /\ vnr = 5 /\ uarts = 1 /\ spis = 1 /\ i2cs = 0
    BY DEF Init
  <2> QED
    BY <2>1, <2>2, <2>3, <2>4, FixedDispatchType DEF TypeOK
<1>2. CountInv
  BY DEF Init, CountInv
<1>3. FreeInv
  <2>1. ASSUME NEW v \in Vectors, v >= vnr \/ v = IvecMax - 1
        PROVE  v >= 5
    BY <2>1, FitAssumption DEF Init
  <2> QED
    BY <2>1, FixedDispatchType DEF Init, FreeInv
<1> QED
  BY <1>1, <1>2, <1>3 DEF DevicesInv

LEMMA NoneStep == DevicesInv /\ EntryNone => DevicesInv' /\ VectorsKept
<1> SUFFICES ASSUME DevicesInv, EntryNone PROVE DevicesInv' /\ VectorsKept
  OBVIOUS
<1>1. /\ Entry("none") /\ vnr' = vnr /\ uarts' = uarts /\ spis' = spis /\ i2cs' = i2cs
      /\ dispatch' = dispatch
  BY DEF EntryNone, unitVars
<1>2. /\ ~ready /\ ~ready' /\ ready' \in BOOLEAN /\ periph' = periph /\ ctr' = ctr + 1 /\ ctr' \in 0 .. PeriphMax
  BY <1>1, EntryFacts DEF Kinds
<1>3. TypeOK'
  BY <1>1, <1>2 DEF DevicesInv, TypeOK
<1>4. CountInv'
  <2>1. ctr \in Int /\ spis \in Int /\ i2cs \in Int /\ uarts \in Int
    BY DEF DevicesInv, TypeOK
  <2>2. (spis - 1) + i2cs + (uarts - 1) <= ctr + 1
    BY <2>1 DEF DevicesInv, CountInv
  <2> QED
    BY <1>1, <1>2, <2>2 DEF DevicesInv, CountInv
<1>5. FreeInv'
  BY <1>1, <1>2 DEF DevicesInv, FreeInv
<1> QED
  BY <1>1, <1>3, <1>4, <1>5 DEF DevicesInv, VectorsKept

LEMMA SpiStep == DevicesInv /\ EntrySpi => DevicesInv' /\ VectorsKept
<1> SUFFICES ASSUME DevicesInv, EntrySpi PROVE DevicesInv' /\ VectorsKept
  OBVIOUS
<1>1. /\ Entry("spi") /\ dispatch' = AllocSpi(dispatch, spis, vnr)
      /\ spis' = spis + 1 /\ vnr' = vnr + 1 /\ uarts' = uarts /\ i2cs' = i2cs
  BY DEF EntrySpi
<1>2. /\ ~ready /\ ~ready' /\ ready' \in BOOLEAN /\ periph' = periph /\ ctr' = ctr + 1 /\ ctr' \in 0 .. PeriphMax
      /\ vnr \in Vectors /\ vnr + 1 \in 5 .. IvecMax /\ vnr # IvecMax - 1
      /\ dispatch[vnr] = Unrecognized /\ dispatch \in [Vectors -> Handlers]
      /\ periph \in [Entries -> Kinds]
  BY <1>1, EntryFacts DEF Kinds
<1>3. /\ spis \in Nat \ {0} /\ i2cs \in Nat /\ uarts \in Nat \ {0}
      /\ ctr \in Int /\ vnr \in Int
  BY DEF DevicesInv, TypeOK
<1>4. /\ dispatch' \in [Vectors -> Handlers]
      /\ \A w \in Vectors : w # vnr => dispatch'[w] = dispatch[w]
  BY <1>1, <1>2, <1>3, AllocSpiType
<1>5. TypeOK'
  <2>1. spis + 1 \in Nat \ {0}
    BY <1>3
  <2> QED
    BY <1>1, <1>2, <1>3, <1>4, <2>1 DEF TypeOK
<1>6. CountInv'
  <2>1. vnr + 1 = 5 + ((spis + 1) - 1) + i2cs + 2 * (uarts - 1)
    BY <1>3 DEF DevicesInv, CountInv
  <2>2. ((spis + 1) - 1) + i2cs + (uarts - 1) <= ctr + 1
    BY <1>3 DEF DevicesInv, CountInv
  <2> QED
    BY <1>1, <1>2, <2>1, <2>2 DEF CountInv
<1>7. FreeInv'
  <2>1. ASSUME NEW v \in Vectors, v >= vnr + 1 \/ v = IvecMax - 1
        PROVE  dispatch'[v] = Unrecognized
    <3>1. v # vnr
      BY <1>2, <1>3, <2>1 DEF Vectors
    <3>2. v >= vnr \/ v = IvecMax - 1
      BY <1>3, <2>1 DEF Vectors
    <3> QED
      BY <1>2, <1>4, <3>1, <3>2 DEF DevicesInv, FreeInv
  <2> QED
    BY <1>1, <2>1 DEF FreeInv
<1> QED
  BY <1>2, <1>4, <1>5, <1>6, <1>7 DEF DevicesInv, VectorsKept

LEMMA I2cStep == DevicesInv /\ EntryI2c => DevicesInv' /\ VectorsKept
<1> SUFFICES ASSUME DevicesInv, EntryI2c PROVE DevicesInv' /\ VectorsKept
  OBVIOUS
<1>1. /\ Entry("i2c") /\ dispatch' = AllocI2c(dispatch, i2cs, vnr)
      /\ i2cs' = i2cs + 1 /\ vnr' = vnr + 1 /\ uarts' = uarts /\ spis' = spis
  BY DEF EntryI2c
<1>2. /\ ~ready /\ ~ready' /\ ready' \in BOOLEAN /\ periph' = periph /\ ctr' = ctr + 1 /\ ctr' \in 0 .. PeriphMax
      /\ vnr \in Vectors /\ vnr + 1 \in 5 .. IvecMax /\ vnr # IvecMax - 1
      /\ dispatch[vnr] = Unrecognized /\ dispatch \in [Vectors -> Handlers]
      /\ periph \in [Entries -> Kinds]
  BY <1>1, EntryFacts DEF Kinds
<1>3. /\ spis \in Nat \ {0} /\ i2cs \in Nat /\ uarts \in Nat \ {0}
      /\ ctr \in Int /\ vnr \in Int
  BY DEF DevicesInv, TypeOK
<1>4. /\ dispatch' \in [Vectors -> Handlers]
      /\ \A w \in Vectors : w # vnr => dispatch'[w] = dispatch[w]
  BY <1>1, <1>2, <1>3, AllocI2cType
<1>5. TypeOK'
  <2>1. i2cs + 1 \in Nat
    BY <1>3
  <2> QED
    BY <1>1, <1>2, <1>3, <1>4, <2>1 DEF TypeOK
<1>6. CountInv'
  <2>1. vnr + 1 = 5 + (spis - 1) + (i2cs + 1) + 2 * (uarts - 1)
    BY <1>3 DEF DevicesInv, CountInv
  <2>2. (spis - 1) + (i2cs + 1) + (uarts - 1) <= ctr + 1
    BY <1>3 DEF DevicesInv, CountInv
  <2> QED
    BY <1>1, <1>2, <2>1, <2>2 DEF CountInv
<1>7. FreeInv'
  <2>1. ASSUME NEW v \in Vectors, v >= vnr + 1 \/ v = IvecMax - 1
        PROVE  dispatch'[v] = Unrecognized
    <3>1. v # vnr
      BY <1>2, <1>3, <2>1 DEF Vectors
    <3>2. v >= vnr \/ v = IvecMax - 1
      BY <1>3, <2>1 DEF Vectors
    <3> QED
      BY <1>2, <1>4, <3>1, <3>2 DEF DevicesInv, FreeInv
  <2> QED
    BY <1>1, <2>1 DEF FreeInv
<1> QED
  BY <1>2, <1>4, <1>5, <1>6, <1>7 DEF DevicesInv, VectorsKept

LEMMA UartStep == DevicesInv /\ EntryUart => DevicesInv' /\ VectorsKept
<1> SUFFICES ASSUME DevicesInv, EntryUart PROVE DevicesInv' /\ VectorsKept
  OBVIOUS
<1>1. /\ Entry("uart") /\ dispatch' = AllocUart(dispatch, uarts, vnr, vnr + 1)
      /\ uarts' = uarts + 1 /\ vnr' = vnr + 2 /\ spis' = spis /\ i2cs' = i2cs
  BY DEF EntryUart
<1>2. /\ ~ready /\ ~ready' /\ ready' \in BOOLEAN /\ periph' = periph
      /\ ctr < PeriphMax /\ ctr' = ctr + 1 /\ ctr' \in 0 .. PeriphMax
      /\ vnr \in Vectors /\ vnr + 1 \in Vectors /\ vnr + 2 \in 5 .. IvecMax
      /\ vnr # IvecMax - 1
      /\ dispatch[vnr] = Unrecognized /\ dispatch[vnr + 1] = Unrecognized
      /\ dispatch \in [Vectors -> Handlers] /\ periph \in [Entries -> Kinds]
  BY <1>1, EntryFacts DEF Kinds
<1>3. /\ spis \in Nat \ {0} /\ i2cs \in Nat /\ uarts \in Nat \ {0}
      /\ ctr \in Int /\ vnr \in Int
  BY DEF DevicesInv, TypeOK
<1>4. /\ dispatch' \in [Vectors -> Handlers]
      /\ \A w \in Vectors : w # vnr /\ w # vnr + 1 => dispatch'[w] = dispatch[w]
      /\ uarts >= MaxUart => dispatch' = dispatch
  BY <1>1, <1>2, <1>3, AllocUartType
<1>5. TypeOK'
  <2>1. uarts + 1 \in Nat \ {0}
    BY <1>3
  <2> QED
    BY <1>1, <1>2, <1>3, <1>4, <2>1 DEF TypeOK
<1>6. CountInv'
  <2>1. vnr + 2 = 5 + (spis - 1) + i2cs + 2 * ((uarts + 1) - 1)
    BY <1>3 DEF DevicesInv, CountInv
  <2>2. (spis - 1) + i2cs + ((uarts + 1) - 1) <= ctr + 1
    BY <1>3 DEF DevicesInv, CountInv
  <2> QED
    BY <1>1, <1>2, <2>1, <2>2 DEF CountInv
<1>7. FreeInv'
  <2>1. ASSUME NEW v \in Vectors, v >= vnr + 2 \/ v = IvecMax - 1
        PROVE  dispatch'[v] = Unrecognized
    <3>1. v # vnr
      BY <1>2, <1>3, <2>1 DEF Vectors
    <3>2. dispatch[v] = Unrecognized
      <4>1. v >= vnr \/ v = IvecMax - 1
        BY <1>3, <2>1 DEF Vectors
      <4> QED
        BY <1>2, <4>1 DEF DevicesInv, FreeInv
    <3>3. CASE v # vnr + 1
      BY <1>4, <3>1, <3>2, <3>3
    <3>4. CASE v = vnr + 1
      <4>1. vnr = IvecMax - 2
        BY <1>3, <2>1, <3>4, FitAssumption
      <4>2. uarts >= MaxUart
        BY <1>2, <4>1, UartBelowLast DEF DevicesInv
      <4> QED
        BY <1>4, <3>2, <4>2
    <3> QED
      BY <3>3, <3>4
  <2> QED
    BY <1>1, <2>1 DEF FreeInv
<1> QED
  BY <1>2, <1>4, <1>5, <1>6, <1>7 DEF DevicesInv, VectorsKept

LEMMA GpioStep == DevicesInv /\ SetupGpio => DevicesInv' /\ VectorsKept
<1> SUFFICES ASSUME DevicesInv, SetupGpio PROVE DevicesInv' /\ VectorsKept
  OBVIOUS
<1>1. /\ ~ready /\ ready' /\ dispatch' = [dispatch EXCEPT ![IvecMax - 1] = <<"gpio", 0>>]
      /\ periph' = periph /\ ctr' = ctr /\ vnr' = vnr
      /\ uarts' = uarts /\ spis' = spis /\ i2cs' = i2cs
  <2>1. ready' = TRUE
    BY DEF SetupGpio
  <2> QED
    BY <2>1 DEF SetupGpio, AllocGpio, unitVars
<1>2. IvecMax - 1 \in Vectors
  BY FitAssumption DEF Vectors
<1>3. dispatch \in [Vectors -> Handlers]
  BY DEF DevicesInv, TypeOK
<1>4. /\ dispatch' \in [Vectors -> Handlers]
      /\ \A v \in Vectors : v # IvecMax - 1 => dispatch'[v] = dispatch[v]
  <2>1. <<"gpio", 0>> \in Handlers
    BY DEF Handlers
  <2> QED
    BY <1>1, <1>2, <1>3, <2>1
<1>5. dispatch[IvecMax - 1] = Unrecognized
  BY <1>1, <1>2 DEF DevicesInv, FreeInv
<1>6. TypeOK'
  <2>1. ready' \in BOOLEAN
    BY DEF SetupGpio
  <2> QED
    BY <1>1, <1>4, <2>1 DEF DevicesInv, TypeOK
<1>7. CountInv'
  BY <1>1 DEF DevicesInv, CountInv
<1>8. FreeInv'
  BY <1>1 DEF FreeInv
<1> QED
  BY <1>4, <1>5, <1>6, <1>7, <1>8 DEF DevicesInv, VectorsKept

LEMMA DevicesStutter == DevicesInv /\ UNCHANGED vars => DevicesInv'
<1> SUFFICES ASSUME DevicesInv, UNCHANGED vars PROVE DevicesInv'
  OBVIOUS
<1>1. /\ periph' = periph /\ ctr' = ctr /\ vnr' = vnr /\ uarts' = uarts
      /\ spis' = spis /\ i2cs' = i2cs /\ dispatch' = dispatch /\ ready' = ready
  BY DEF vars, unitVars
<1> QED
  BY <1>1 DEF DevicesInv, TypeOK, CountInv, FreeInv

LEMMA DevicesNext == DevicesInv /\ Next => DevicesInv' /\ VectorsKept
  BY NoneStep, SpiStep, I2cStep, UartStep, GpioStep DEF Next

-----------------------------------------------------------------------------
(***************************************************************************)
(* The inductive invariant, type correctness included, holds for every     *)
(* configuration word and every size of the tables (setup_devices).        *)
(***************************************************************************)
THEOREM DevicesInvariant == Spec => []DevicesInv
<1>1. DevicesInv /\ [Next]_vars => DevicesInv'
  BY DevicesNext, DevicesStutter
<1> QED
  BY DevicesInit, <1>1, PTL DEF Spec

(***************************************************************************)
(* No vector is taken from the driver it was given to (the loop's          *)
(* condition in setup_devices, MAX_UART_DEVICES in uart.c).                *)
(***************************************************************************)
THEOREM DevicesKeepVectors == Spec => VectorsStay
<1>1. DevicesInv /\ [Next]_vars => [VectorsKept]_vars
  BY DevicesNext
<1> QED
  BY DevicesInvariant, <1>1, PTL DEF Spec, VectorsStay, VectorsKept

-----------------------------------------------------------------------------
(***************************************************************************)
(* How the processor counts.                                               *)
(***************************************************************************)
LEMMA BeforeNat ==
  ASSUME NEW k \in Int, NEW kind
  PROVE  /\ IsFiniteSet({j \in Entries : j < k /\ periph[j] = kind})
         /\ Before(k, kind) \in Nat
<1>1. IsFiniteSet(Entries)
  BY FS_Interval, FitAssumption DEF Entries
<1>2. {j \in Entries : j < k /\ periph[j] = kind} \in SUBSET Entries
  OBVIOUS
<1>3. IsFiniteSet({j \in Entries : j < k /\ periph[j] = kind})
  BY <1>1, <1>2, FS_Subset
<1> QED
  BY <1>3, FS_CardinalityType DEF Before

LEMMA BeforeZero ==
  ASSUME NEW kind
  PROVE  Before(0, kind) = 0
<1>1. {j \in Entries : j < 0 /\ periph[j] = kind} = {}
  BY FitAssumption DEF Entries
<1> QED
  BY <1>1, FS_EmptySet DEF Before

LEMMA BeforeNext ==
  ASSUME NEW k \in Entries, NEW kind
  PROVE  Before(k + 1, kind) = IF periph[k] = kind THEN Before(k, kind) + 1 ELSE Before(k, kind)
<1> DEFINE S == {j \in Entries : j < k /\ periph[j] = kind}
           T == {j \in Entries : j < k + 1 /\ periph[j] = kind}
<1>1. k \in Int /\ PeriphMax \in Nat
  BY FitAssumption DEF Entries
<1>2. IsFiniteSet(S)
  BY <1>1, BeforeNat
<1>3. k \notin S
  BY <1>1
<1>4. CASE periph[k] = kind
  <2>1. T = S \cup {k}
    BY <1>1, <1>4 DEF Entries
  <2>2. Cardinality(S \cup {k}) = Cardinality(S) + 1
    BY <1>2, <1>3, FS_AddElement
  <2> QED
    BY <1>4, <2>1, <2>2 DEF Before
<1>5. CASE periph[k] # kind
  <2>1. T = S
    BY <1>1, <1>5 DEF Entries
  <2> QED
    BY <1>5, <2>1 DEF Before
<1> QED
  BY <1>4, <1>5

LEMMA BeforeGrows ==
  ASSUME NEW j \in Int, NEW k \in Int, j <= k, NEW kind
  PROVE  Before(j, kind) <= Before(k, kind)
<1> DEFINE S == {n \in Entries : n < j /\ periph[n] = kind}
           T == {n \in Entries : n < k /\ periph[n] = kind}
<1>1. S \in SUBSET T
  BY FitAssumption DEF Entries
<1>2. IsFiniteSet(T)
  BY BeforeNat
<1> QED
  BY <1>1, <1>2, FS_Subset DEF Before

LEMMA FirstVectorGrows ==
  ASSUME NEW j \in Int, NEW k \in Int, j <= k
  PROVE  FirstVector(j) \in Nat /\ FirstVector(j) >= 5 /\ FirstVector(j) <= FirstVector(k)
<1>1. /\ Before(j, "spi") \in Nat /\ Before(j, "i2c") \in Nat /\ Before(j, "uart") \in Nat
      /\ Before(k, "spi") \in Nat /\ Before(k, "i2c") \in Nat /\ Before(k, "uart") \in Nat
  BY BeforeNat
<1>2. /\ Before(j, "spi") <= Before(k, "spi") /\ Before(j, "i2c") <= Before(k, "i2c")
      /\ Before(j, "uart") <= Before(k, "uart")
  BY BeforeGrows
<1> QED
  BY <1>1, <1>2 DEF FirstVector

(***************************************************************************)
(* The driver counts as the processor does: what the entries read so far   *)
(* have is served, and the fixed vectors are.                              *)
(***************************************************************************)
CountsAgree ==
  /\ uarts = 1 + Before(ctr, "uart")
  /\ spis = 1 + Before(ctr, "spi")
  /\ i2cs = Before(ctr, "i2c")

FixedServed ==
  /\ Handler(1) = <<"timer", 0>>
  /\ Handler(2) = <<"uart_tx", 0>> /\ Handler(3) = <<"uart_rx", 0>>
  /\ Handler(4) = <<"spi", 0>>

ServedInv ==
  /\ CountsAgree
  /\ \A k \in Entries : k < ctr => EntryServed(k)
  /\ FixedServed
  /\ ready => ~More /\ Handler(IvecMax - 1) = <<"gpio", 0>>

LEMMA VectorIsFirst ==
  ASSUME DevicesInv, CountsAgree
  PROVE  vnr = FirstVector(ctr)
<1>1. ctr \in Int
  BY DEF DevicesInv, TypeOK
<1>2. Before(ctr, "spi") \in Nat /\ Before(ctr, "i2c") \in Nat /\ Before(ctr, "uart") \in Nat
  BY <1>1, BeforeNat
<1> QED
  BY <1>2 DEF DevicesInv, CountInv, CountsAgree, FirstVector

(***************************************************************************)
(* What is served stays so, since no vector is given away again.           *)
(***************************************************************************)
LEMMA ServedStays ==
  ASSUME DevicesInv, VectorsKept, periph' = periph
  PROVE  /\ \A k \in Entries : EntryServed(k) => EntryServed(k)'
         /\ FixedServed => FixedServed'
<1>1. ASSUME NEW v \in Vectors, NEW name \in {"timer", "uart_tx", "uart_rx", "spi", "i2c"},
             NEW u, Handler(v) = <<name, u>>
      PROVE  Handler(v)' = <<name, u>>
  <2>1. <<name, u>> # Unrecognized
    BY DEF Unrecognized
  <2> QED
    BY <1>1, <2>1 DEF VectorsKept, Handler
<1>2. ASSUME NEW k \in Entries, EntryServed(k) PROVE EntryServed(k)'
  <2>1. k \in Int /\ k <= k
    BY FitAssumption DEF Entries
  <2>2. FirstVector(k) \in Nat /\ FirstVector(k) >= 5
    BY <2>1, FirstVectorGrows
  <2>3. FirstVector(k)' = FirstVector(k) /\ \A kind : Before(k, kind)' = Before(k, kind)
    BY DEF FirstVector, Before
  <2>4. /\ FirstVector(k) < IvecMax - 1 => FirstVector(k) \in Vectors
        /\ FirstVector(k) + 1 < IvecMax - 1 =>
             FirstVector(k) \in Vectors /\ FirstVector(k) + 1 \in Vectors
    BY <2>2, FitAssumption DEF Vectors
  <2>5. CASE periph[k] = "uart"
    BY <1>1, <1>2, <2>3, <2>4, <2>5 DEF EntryServed
  <2>6. CASE periph[k] = "spi"
    BY <1>1, <1>2, <2>3, <2>4, <2>6 DEF EntryServed
  <2>7. CASE periph[k] = "i2c"
    BY <1>1, <1>2, <2>3, <2>4, <2>7 DEF EntryServed
  <2>8. CASE periph[k] \notin {"uart", "spi", "i2c"}
    BY <2>8 DEF EntryServed
  <2> QED
    BY <2>5, <2>6, <2>7, <2>8
<1>3. ASSUME FixedServed PROVE FixedServed'
  <2>1. 1 \in Vectors /\ 2 \in Vectors /\ 3 \in Vectors /\ 4 \in Vectors
    BY FitAssumption DEF Vectors
  <2> QED
    BY <1>1, <1>3, <2>1 DEF FixedServed
<1> QED
  BY <1>2, <1>3

LEMMA ServedInit == Init => ServedInv
<1> SUFFICES ASSUME Init PROVE ServedInv
  OBVIOUS
<1>1. CountsAgree
  BY BeforeZero DEF Init, CountsAgree
<1>2. \A k \in Entries : ~(k < ctr)
  BY FitAssumption DEF Init, Entries
<1>3. 1 \in Vectors /\ 2 \in Vectors /\ 3 \in Vectors /\ 4 \in Vectors
  BY FitAssumption DEF Vectors
<1>4. 0 < MaxUart /\ 0 < MaxSpi
  BY FitAssumption
<1>5. FixedServed
  BY <1>3, <1>4 DEF Init, FixedServed, Handler, FixedDispatch, AllocSpi, AllocUart, AllocTimer
<1>6. ~ready
  BY DEF Init
<1> QED
  BY <1>1, <1>2, <1>5, <1>6 DEF ServedInv

(***************************************************************************)
(* An entry read: those before it stay served, and its own is.             *)
(***************************************************************************)
LEMMA EntryServes ==
  ASSUME DevicesInv, ServedInv, NEW kind \in Kinds, Entry(kind), VectorsKept,
         CountsAgree', \A k \in Entries : k = ctr => EntryServed(k)'
  PROVE  ServedInv'
<1>1. ctr \in Int /\ ctr' = ctr + 1 /\ periph' = periph /\ ~ready'
  BY EntryFacts DEF DevicesInv, TypeOK
<1>2. ASSUME NEW k \in Entries, k < ctr + 1 PROVE EntryServed(k)'
  <2>1. k < ctr \/ k = ctr
    BY <1>1, <1>2, FitAssumption DEF Entries
  <2>2. CASE k < ctr
    BY <1>1, <2>2, ServedStays DEF ServedInv
  <2>3. CASE k = ctr
    BY <1>1, <2>3
  <2> QED
    BY <2>1, <2>2, <2>3
<1>3. FixedServed'
  BY <1>1, ServedStays DEF ServedInv
<1> QED
  BY <1>1, <1>2, <1>3 DEF ServedInv

(***************************************************************************)
(* What the next entry, number k, is for the processor.                    *)
(***************************************************************************)
LEMMA NextEntry ==
  ASSUME DevicesInv, ServedInv, NEW kind \in Kinds, Entry(kind), NEW k, k = ctr
  PROVE  /\ k \in Entries /\ periph[k] = kind /\ periph' = periph /\ ctr' = k + 1
         /\ vnr = FirstVector(k) /\ vnr \in Vectors /\ vnr + 1 \in Vectors
         /\ FirstVector(k)' = FirstVector(k)
         /\ \A x : /\ Before(k, x)' = Before(k, x)
                   /\ Before(k, x) \in Nat
                   /\ Before(ctr, x)' = IF x = kind THEN Before(k, x) + 1 ELSE Before(k, x)
<1>1. ctr \in Entries /\ ctr \in Int
  <2>1. ctr \in 0 .. PeriphMax
    BY DEF DevicesInv, TypeOK
  <2>2. ctr < PeriphMax
    BY EntryFacts
  <2> QED
    BY <2>1, <2>2, FitAssumption DEF Entries
<1>2. ctr' = ctr + 1 /\ periph' = periph /\ periph[ctr] = kind
  BY DEF Entry
<1>3. vnr \in Vectors /\ vnr + 1 \in Vectors
  BY EntryFacts
<1>4. vnr = FirstVector(ctr)
  BY VectorIsFirst DEF ServedInv
<1>5. \A x : Before(k, x)' = Before(k, x)
  BY <1>2 DEF Before
<1>6. \A x : Before(ctr, x)' = Before(k + 1, x)
  BY <1>2 DEF Before
<1>7. \A x : Before(k + 1, x) = IF x = kind THEN Before(k, x) + 1 ELSE Before(k, x)
  BY <1>1, <1>2, BeforeNext
<1>8. \A x : Before(k, x) \in Nat
  BY <1>1, BeforeNat
<1>9. FirstVector(k)' = FirstVector(k)
  BY <1>5 DEF FirstVector
<1> QED
  BY <1>1, <1>2, <1>3, <1>4, <1>5, <1>6, <1>7, <1>8, <1>9

LEMMA ServedNone ==
  ASSUME DevicesInv, ServedInv, EntryNone
  PROVE  ServedInv'
<1>1. /\ Entry("none") /\ uarts' = uarts /\ spis' = spis /\ i2cs' = i2cs
      /\ dispatch' = dispatch /\ "none" \in Kinds
  BY DEF EntryNone, unitVars, Kinds
<1>2. CountsAgree'
  BY <1>1, NextEntry DEF ServedInv, CountsAgree
<1>3. ASSUME NEW k \in Entries, k = ctr PROVE EntryServed(k)'
  <2>1. periph'[k] = "none"
    BY <1>1, <1>3, NextEntry
  <2> QED
    BY <2>1 DEF EntryServed
<1> QED
  BY <1>1, <1>2, <1>3, NoneStep, EntryServes

LEMMA ServedSpi ==
  ASSUME DevicesInv, ServedInv, EntrySpi
  PROVE  ServedInv'
<1>1. /\ Entry("spi") /\ dispatch' = AllocSpi(dispatch, spis, vnr)
      /\ spis' = spis + 1 /\ uarts' = uarts /\ i2cs' = i2cs /\ "spi" \in Kinds
  BY DEF EntrySpi, Kinds
<1>2. CountsAgree'
  BY <1>1, NextEntry DEF ServedInv, CountsAgree
<1>3. ASSUME NEW k \in Entries, k = ctr PROVE EntryServed(k)'
  <2>1. /\ periph'[k] = "spi" /\ vnr = FirstVector(k) /\ vnr \in Vectors
        /\ FirstVector(k)' = FirstVector(k) /\ Before(k, "spi")' = Before(k, "spi")
    BY <1>1, <1>3, NextEntry
  <2>2. spis = 1 + Before(k, "spi")
    BY <1>3 DEF ServedInv, CountsAgree
  <2>3. dispatch \in [Vectors -> Handlers]
    BY DEF DevicesInv, TypeOK
  <2>4. spis < MaxSpi => dispatch'[vnr] = <<"spi", spis>>
    BY <1>1, <2>1, <2>3 DEF AllocSpi
  <2> QED
    BY <2>1, <2>2, <2>4 DEF EntryServed, Handler
<1> QED
  BY <1>1, <1>2, <1>3, SpiStep, EntryServes

LEMMA ServedI2c ==
  ASSUME DevicesInv, ServedInv, EntryI2c
  PROVE  ServedInv'
<1>1. /\ Entry("i2c") /\ dispatch' = AllocI2c(dispatch, i2cs, vnr)
      /\ i2cs' = i2cs + 1 /\ uarts' = uarts /\ spis' = spis /\ "i2c" \in Kinds
  BY DEF EntryI2c, Kinds
<1>2. CountsAgree'
  BY <1>1, NextEntry DEF ServedInv, CountsAgree
<1>3. ASSUME NEW k \in Entries, k = ctr PROVE EntryServed(k)'
  <2>1. /\ periph'[k] = "i2c" /\ vnr = FirstVector(k) /\ vnr \in Vectors
        /\ FirstVector(k)' = FirstVector(k) /\ Before(k, "i2c")' = Before(k, "i2c")
    BY <1>1, <1>3, NextEntry
  <2>2. i2cs = Before(k, "i2c")
    BY <1>3 DEF ServedInv, CountsAgree
  <2>3. dispatch \in [Vectors -> Handlers]
    BY DEF DevicesInv, TypeOK
  <2>4. i2cs < MaxI2c => dispatch'[vnr] = <<"i2c", i2cs>>
    BY <1>1, <2>1, <2>3 DEF AllocI2c
  <2> QED
    BY <2>1, <2>2, <2>4 DEF EntryServed, Handler
<1> QED
  BY <1>1, <1>2, <1>3, I2cStep, EntryServes

LEMMA ServedUart ==
  ASSUME DevicesInv, ServedInv, EntryUart
  PROVE  ServedInv'
<1>1. /\ Entry("uart") /\ dispatch' = AllocUart(dispatch, uarts, vnr, vnr + 1)
      /\ uarts' = uarts + 1 /\ spis' = spis /\ i2cs' = i2cs /\ "uart" \in Kinds
  BY DEF EntryUart, Kinds
<1>2. CountsAgree'
  BY <1>1, NextEntry DEF ServedInv, CountsAgree
<1>3. ASSUME NEW k \in Entries, k = ctr PROVE EntryServed(k)'
  <2>1. /\ periph'[k] = "uart" /\ vnr = FirstVector(k)
        /\ vnr \in Vectors /\ vnr + 1 \in Vectors
        /\ FirstVector(k)' = FirstVector(k) /\ Before(k, "uart")' = Before(k, "uart")
    BY <1>1, <1>3, NextEntry
  <2>2. uarts = 1 + Before(k, "uart")
    BY <1>3 DEF ServedInv, CountsAgree
  <2>3. dispatch \in [Vectors -> Handlers]
    BY DEF DevicesInv, TypeOK
  <2>4. vnr # vnr + 1
    BY <2>1, FitAssumption DEF Vectors
  <2>5. uarts < MaxUart =>
          dispatch'[vnr] = <<"uart_tx", uarts>> /\ dispatch'[vnr + 1] = <<"uart_rx", uarts>>
    BY <1>1, <2>1, <2>3, <2>4 DEF AllocUart
  <2> QED
    BY <2>1, <2>2, <2>5 DEF EntryServed, Handler
<1> QED
  BY <1>1, <1>2, <1>3, UartStep, EntryServes

LEMMA ServedGpio ==
  ASSUME DevicesInv, ServedInv, SetupGpio
  PROVE  ServedInv'
<1>1. /\ ~More /\ dispatch' = AllocGpio(dispatch, IvecMax - 1)
      /\ periph' = periph /\ ctr' = ctr /\ vnr' = vnr
      /\ uarts' = uarts /\ spis' = spis /\ i2cs' = i2cs
  BY DEF SetupGpio, unitVars
<1>2. CountsAgree' /\ ~More'
  BY <1>1 DEF ServedInv, CountsAgree, Before, More
<1>3. VectorsKept
  BY GpioStep
<1>4. (\A k \in Entries : k < ctr => EntryServed(k))' /\ FixedServed'
  <2>1. ASSUME NEW k \in Entries, k < ctr PROVE EntryServed(k)'
    BY <1>1, <1>3, <2>1, ServedStays DEF ServedInv
  <2>2. FixedServed'
    BY <1>1, <1>3, ServedStays DEF ServedInv
  <2> QED
    BY <1>1, <2>1, <2>2
<1>5. dispatch'[IvecMax - 1] = <<"gpio", 0>>
  <2>1. IvecMax - 1 \in Vectors
    BY FitAssumption DEF Vectors
  <2>2. dispatch \in [Vectors -> Handlers]
    BY DEF DevicesInv, TypeOK
  <2> QED
    BY <1>1, <2>1, <2>2 DEF AllocGpio
<1> QED
  BY <1>2, <1>4, <1>5 DEF ServedInv, Handler

LEMMA ServedStutter ==
  ASSUME ServedInv, UNCHANGED vars
  PROVE  ServedInv'
<1>1. /\ periph' = periph /\ ctr' = ctr /\ vnr' = vnr /\ uarts' = uarts
      /\ spis' = spis /\ i2cs' = i2cs /\ dispatch' = dispatch /\ ready' = ready
  BY DEF vars, unitVars
<1> QED
  BY <1>1 DEF ServedInv, CountsAgree, FixedServed, EntryServed, FirstVector, Before,
              Handler, More

(***************************************************************************)
(* Entries that the loop did not come to have their vectors beyond the     *)
(* last one, and no handler to be called.                                  *)
(***************************************************************************)
LEMMA ServedInvServes ==
  ASSUME DevicesInv, ServedInv
  PROVE  InterruptsServed
<1> SUFFICES ASSUME ready, NEW k \in Entries PROVE EntryServed(k)
  BY DEF InterruptsServed, ServedInv, FixedServed
<1>1. ctr \in 0 .. PeriphMax /\ vnr \in Int /\ k \in Int
  BY DEF DevicesInv, TypeOK, Entries
<1>2. CASE k < ctr
  BY <1>2 DEF ServedInv
<1>3. CASE ~(k < ctr)
  <2>1. ctr <= k /\ ctr < PeriphMax
    BY <1>1, <1>3, FitAssumption DEF Entries
  <2>2. vnr >= IvecMax - 1
    BY <1>1, <2>1, FitAssumption DEF ServedInv, More
  <2>3. vnr = FirstVector(ctr)
    BY VectorIsFirst DEF ServedInv
  <2>4. FirstVector(ctr) <= FirstVector(k) /\ FirstVector(k) \in Nat
    BY <1>1, <2>1, FirstVectorGrows
  <2>5. ~(FirstVector(k) < IvecMax - 1) /\ ~(FirstVector(k) + 1 < IvecMax - 1)
    BY <1>1, <2>2, <2>3, <2>4, FitAssumption
  <2> QED
    BY <2>5 DEF EntryServed
<1> QED
  BY <1>2, <1>3

(***************************************************************************)
(* Once the devices are set up, every interrupt of a peripheral that has a *)
(* driver calls the handler of that very unit, for every configuration     *)
(* word and every size of the tables (setup_devices, os_handle_interrupt). *)
(***************************************************************************)
THEOREM DevicesServeInterrupts == Spec => []InterruptsServed
<1>1. DevicesInv /\ ServedInv /\ [Next]_vars => ServedInv'
  BY ServedNone, ServedSpi, ServedI2c, ServedUart, ServedGpio, ServedStutter DEF Next
<1>2. DevicesInv /\ ServedInv => InterruptsServed
  BY ServedInvServes
<1> QED
  BY ServedInit, DevicesInvariant, <1>1, <1>2, PTL DEF Spec
=============================================================================
