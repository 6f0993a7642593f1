------------------------------ MODULE Devices ------------------------------
(***************************************************************************)
(* The interrupt vectors (lib/driver/os_main.c): setup_devices reads the   *)
(* configuration word of the processor, gives every peripheral that it     *)
(* names the next unit number of its kind and the next vectors, and lets   *)
(* the driver of that kind install its handlers there.                     *)
(*                                                                         *)
(* The processor numbers its vectors in the same order, which is what      *)
(* setup_devices relies on: a peripheral's own entry is served only if     *)
(* every entry before it took the right number of vectors, and if nobody   *)
(* takes the vector afterwards.                                            *)
(***************************************************************************)
EXTENDS Integers, FiniteSets

CONSTANTS IvecMax,     \* CPU_IVEC_MAX (16)
          PeriphMax,   \* CPU_PERIPH_MAX (8)
          MaxUart, MaxSpi, MaxI2c   \* units that the drivers have a softc
                                    \* for (3, 5 and 2)

(***************************************************************************)
(* The vectors suffice for what the drivers support.  With the constants   *)
(* of the sources both sides are 16: one more UART in uart.c, or one more  *)
(* peripheral in the configuration word, and the assumption is false.      *)
(***************************************************************************)
ASSUME FitAssumption ==
  /\ IvecMax \in Nat /\ PeriphMax \in Nat
  /\ MaxUart \in Nat \ {0} /\ MaxSpi \in Nat \ {0} /\ MaxI2c \in Nat
  /\ IvecMax > 6
  /\ 5 + PeriphMax + MaxUart <= IvecMax

VARIABLES
  periph,      \* the configuration word, as the kinds of its entries
  ctr, vnr,    \* locals of setup_devices
  uarts, spis, i2cs,   \* s_DEVUNIT_UART, s_DEVUNIT_SPI, s_DEVUNIT_I2C
  dispatch,    \* s_INTR_DISPATCH
  ready        \* setup_devices has returned

unitVars == <<uarts, spis, i2cs>>
vars == <<periph, ctr, vnr, unitVars, dispatch, ready>>

Vectors == 0 .. IvecMax - 1
Entries == 0 .. PeriphMax - 1

(***************************************************************************)
(* The kinds that have a driver; every other number of the configuration   *)
(* word, PERIPH_NONE with them, takes no vector.                           *)
(***************************************************************************)
Kinds == {"none", "uart", "spi", "i2c"}

Unrecognized == <<"h_unrecognized_intr", 0>>

-----------------------------------------------------------------------------
(***************************************************************************)
(* The drivers: the table d with the handlers of a unit, if it exists.     *)
(***************************************************************************)
AllocUart(d, unit, tx, rx) ==
  IF unit < MaxUart
  THEN [d EXCEPT ![tx] = <<"uart_tx", unit>>, ![rx] = <<"uart_rx", unit>>]
  ELSE d

AllocSpi(d, unit, v) == IF unit < MaxSpi THEN [d EXCEPT ![v] = <<"spi", unit>>] ELSE d

AllocI2c(d, unit, v) == IF unit < MaxI2c THEN [d EXCEPT ![v] = <<"i2c", unit>>] ELSE d

AllocTimer(d, v) == [d EXCEPT ![v] = <<"timer", 0>>]

AllocGpio(d, v) == [d EXCEPT ![v] = <<"gpio", 0>>]

-----------------------------------------------------------------------------
(***************************************************************************)
(* setup_devices up to its loop, which the processor is in reset before:   *)
(* the boot vector has no handler, and the next four are fixed.            *)
(***************************************************************************)
FixedDispatch ==
  AllocSpi(AllocUart(AllocTimer([v \in Vectors |-> Unrecognized], 1), 0, 2, 3), 0, 4)

Init ==
  /\ periph \in [Entries -> Kinds]
  /\ ctr = 0 /\ vnr = 5
  /\ uarts = 1 /\ spis = 1 /\ i2cs = 0
  /\ dispatch = FixedDispatch
  /\ ready = FALSE

(***************************************************************************)
(* A fault variant, for testing the properties: the last vector is handed  *)
(* out as well.                                                            *)
(***************************************************************************)
MoreToLast == ctr < PeriphMax /\ vnr < IvecMax

(***************************************************************************)
(* The condition of the loop.                                              *)
(***************************************************************************)
More == ctr < PeriphMax /\ vnr < IvecMax - 1

Entry(kind) ==
  /\ ~ready
  /\ More
  /\ periph[ctr] = kind
  /\ ctr' = ctr + 1
  /\ UNCHANGED <<periph, ready>>

EntryNone ==
  /\ Entry("none")
  /\ UNCHANGED <<vnr, unitVars, dispatch>>

EntrySpi ==
  /\ Entry("spi")
  /\ dispatch' = AllocSpi(dispatch, spis, vnr)
  /\ spis' = spis + 1
  /\ vnr' = vnr + 1
  /\ UNCHANGED <<uarts, i2cs>>

EntryI2c ==
  /\ Entry("i2c")
  /\ dispatch' = AllocI2c(dispatch, i2cs, vnr)
  /\ i2cs' = i2cs + 1
  /\ vnr' = vnr + 1
  /\ UNCHANGED <<uarts, spis>>

(***************************************************************************)
(* A fault variant, for testing the properties: a UART counts as one       *)
(* vector.                                                                 *)
(***************************************************************************)
EntryUartOne ==
  /\ Entry("uart")
  /\ dispatch' = AllocUart(dispatch, uarts, vnr, vnr + 1)
  /\ uarts' = uarts + 1
  /\ vnr' = vnr + 1
  /\ UNCHANGED <<spis, i2cs>>

EntryUart ==
  /\ Entry("uart")
  /\ dispatch' = AllocUart(dispatch, uarts, vnr, vnr + 1)
  /\ uarts' = uarts + 1
  /\ vnr' = vnr + 2
  /\ UNCHANGED <<spis, i2cs>>

(***************************************************************************)
(* After the loop the last vector goes to the GPIO.                        *)
(***************************************************************************)
SetupGpio ==
  /\ ~ready
  /\ ~More
  /\ dispatch' = AllocGpio(dispatch, IvecMax - 1)
  /\ ready' = TRUE
  /\ UNCHANGED <<periph, ctr, vnr, unitVars>>

Next == EntryNone \/ EntrySpi \/ EntryI2c \/ EntryUart \/ SetupGpio

Spec == Init /\ [][Next]_vars

(***************************************************************************)
(* os_handle_interrupt: the handler called for an interrupt.               *)
(***************************************************************************)
Handler(id) == dispatch[id]

-----------------------------------------------------------------------------
Handlers ==
  {Unrecognized, <<"timer", 0>>, <<"gpio", 0>>} \cup
    {<<"uart_tx", u>> : u \in 0 .. MaxUart - 1} \cup
    {<<"uart_rx", u>> : u \in 0 .. MaxUart - 1} \cup
    {<<"spi", u>> : u \in 0 .. MaxSpi - 1} \cup
    {<<"i2c", u>> : u \in 0 .. MaxI2c - 1}

TypeOK ==
  /\ periph \in [Entries -> Kinds]
  /\ ctr \in 0 .. PeriphMax
  /\ vnr \in 5 .. IvecMax
  /\ uarts \in Nat \ {0} /\ spis \in Nat \ {0} /\ i2cs \in Nat
  /\ dispatch \in [Vectors -> Handlers]
  /\ ready \in BOOLEAN

(***************************************************************************)
(* A vector that was given to a driver stays with it: not even the GPIO's, *)
(* which is given out last without a look at what is there, was given to   *)
(* the second half of a UART before (the loop's condition in               *)
(* setup_devices, MAX_UART_DEVICES in uart.c).                             *)
(***************************************************************************)
VectorsStay ==
  [][\A v \in Vectors : dispatch[v] # Unrecognized => dispatch'[v] = dispatch[v]]_vars

(***************************************************************************)
(* The inductive invariant.                                                *)
(*                                                                         *)
(* The vectors handed out are those of the units counted, and no more than *)
(* one unit was counted for an entry.  The vectors that are left, the last *)
(* one among them, belong to nobody.                                       *)
(***************************************************************************)
CountInv ==
  /\ vnr = 5 + (spis - 1) + i2cs + 2 * (uarts - 1)
  /\ (spis - 1) + i2cs + (uarts - 1) <= ctr

FreeInv ==
  ~ready => \A v \in Vectors : v >= vnr \/ v = IvecMax - 1 => dispatch[v] = Unrecognized

DevicesInv == TypeOK /\ CountInv /\ FreeInv

(***************************************************************************)
(* What the processor raises for entry k: the number of its unit and of    *)
(* its first vector, counted from the entries before it.                   *)
(***************************************************************************)
Before(k, kind) == Cardinality({j \in Entries : j < k /\ periph[j] = kind})

FirstVector(k) ==
  5 + Before(k, "spi") + Before(k, "i2c") + 2 * Before(k, "uart")

(***************************************************************************)
(* Once the devices are set up, every interrupt of a peripheral that has a *)
(* driver calls the handler of that very unit (setup_devices,              *)
(* os_handle_interrupt).                                                   *)
(***************************************************************************)
EntryServed(k) ==
  LET v == FirstVector(k)
  IN  CASE periph[k] = "uart" /\ v + 1 < IvecMax - 1 /\ 1 + Before(k, "uart") < MaxUart ->
             /\ Handler(v) = <<"uart_tx", 1 + Before(k, "uart")>>
             /\ Handler(v + 1) = <<"uart_rx", 1 + Before(k, "uart")>>
        [] periph[k] = "spi" /\ v < IvecMax - 1 /\ 1 + Before(k, "spi") < MaxSpi ->
             Handler(v) = <<"spi", 1 + Before(k, "spi")>>
        [] periph[k] = "i2c" /\ v < IvecMax - 1 /\ Before(k, "i2c") < MaxI2c ->
             Handler(v) = <<"i2c", Before(k, "i2c")>>
        [] OTHER -> TRUE

InterruptsServed ==
  ready => /\ \A k \in Entries : EntryServed(k)
           /\ Handler(1) = <<"timer", 0>>
           /\ Handler(2) = <<"uart_tx", 0>> /\ Handler(3) = <<"uart_rx", 0>>
           /\ Handler(4) = <<"spi", 0>>
           /\ Handler(IvecMax - 1) = <<"gpio", 0>>
=============================================================================
