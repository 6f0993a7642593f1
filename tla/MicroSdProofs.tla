--------------------------- MODULE MicroSdProofs ---------------------------
(***************************************************************************)
(* The proofs about MicroSd: for a card of any size, calls of any length   *)
(* and any numbers of retries, microsd_init accepts no other card than it  *)
(* says, and the results of the driver's functions are true.               *)
(***************************************************************************)
EXTENDS MicroSd, TLAPS

(***************************************************************************)
(* The card changes by a field or two at a time.                           *)
(***************************************************************************)
LEMMA CardType ==
  ASSUME NEW c \in Cards, NEW b \in BOOLEAN
  PROVE  /\ \A s \in {"off", "idle", "ready", "busy"} :
              [c EXCEPT !.state = s] \in Cards
         /\ [c EXCEPT !.reading = b] \in Cards
         /\ [c EXCEPT !.receiving = b] \in Cards
         /\ c.warmup # 0 => [c EXCEPT !.warmup = @ - 1] \in Cards
<1>1. c.warmup \in 0 .. InitRetries /\ InitRetries \in Nat
  BY SdAssumption DEF Cards
<1>2. c.warmup # 0 => c.warmup - 1 \in 0 .. InitRetries
  BY <1>1
<1>3. \A s \in {"off", "idle", "ready", "busy"} : [c EXCEPT !.state = s] \in Cards
  BY DEF Cards
<1>4. [c EXCEPT !.reading = b] \in Cards /\ [c EXCEPT !.receiving = b] \in Cards
  BY DEF Cards
<1>5. c.warmup # 0 => [c EXCEPT !.warmup = @ - 1] \in Cards
  BY <1>2 DEF Cards
<1> QED
  BY <1>3, <1>4, <1>5

(***************************************************************************)
(* What a return from a sector comes to.                                   *)
(***************************************************************************)
LEMMA ReturnsStep ==
  ASSUME TypeOK, CallInv, pc \in ReadPlaces \cup WritePlaces,
         NEW code \in -7 .. 0, Returns(code)
  PROVE  /\ pc' \in {call.op, "idle"} /\ call.op \in {"read", "write"}
         /\ i' \in 0 .. call.count
         /\ i' = i \/ (code = 0 /\ i' = i + 1)
         /\ pc' # "idle" => i' < call.count
         /\ result' \in -7 .. 1
         /\ pc' = "idle" /\ call.multi /\ result' = 1 => i' = call.count
         /\ ~call.multi => call.count = 1 /\ i = 0 /\ i' = 0 /\ result' = code
<1>1. call.multi \in BOOLEAN /\ call.count \in Nat /\ i \in Nat /\ i < call.count /\ result \in -7 .. 1
  BY DEF TypeOK, CallInv
<1>2. call.op \in {"read", "write"}
  BY DEF CallInv
<1>3. ~call.multi => call.count = 1 /\ i = 0
  BY <1>2 DEF CallInv
<1>4. CASE call.multi /\ code = 0 /\ i + 1 < call.count
  BY <1>1, <1>2, <1>4 DEF Returns
<1>5. CASE call.multi /\ code # 0
  BY <1>1, <1>2, <1>5 DEF Returns
<1>6. CASE call.multi /\ code = 0 /\ ~(i + 1 < call.count)
  BY <1>1, <1>2, <1>6 DEF Returns
<1>7. CASE ~call.multi
  BY <1>1, <1>2, <1>3, <1>7 DEF Returns
<1> QED
  BY <1>1, <1>4, <1>5, <1>6, <1>7

LEMMA InitInv == Init => SdInv
<1> SUFFICES ASSUME Init PROVE SdInv
  OBVIOUS
<1>1. card.state = "off" /\ card.reading = FALSE /\ card.receiving = FALSE
  BY DEF Init
<1>2. call = [op |-> "none", multi |-> FALSE, sector |-> 0, count |-> 0]
      /\ pc = "reset" /\ i = 0 /\ retries = 0 /\ result = 0
  BY DEF Init
<1>3. TypeOK
  <2>1. card \in Cards
    <3> DEFINE job0 == [sector |-> 0, value |-> Blank]
    <3>1. job0 \in [sector : Nat, value : Values \cup {Blank}]
      OBVIOUS
    <3> HIDE DEF job0
    <3>2. card \in [state : {"off"}, version2 : BOOLEAN, highCap : BOOLEAN,
                    warmup : 0 .. InitRetries, reading : {FALSE}, receiving : {FALSE},
                    job : {job0}]
      BY DEF Init, job0
    <3> QED
      BY <3>1, <3>2 DEF Cards
  <2>2. call \in [op : {"none", "read", "write"}, multi : BOOLEAN, sector : Nat, count : Nat]
    BY <1>2
  <2>3. call.count = 0
    BY <1>2
  <2>4. data \in [0 .. call.count - 1 -> Values \cup {Blank}]
    <3>1. 0 .. call.count - 1 = {}
      BY <2>3
    <3>2. data = [k \in {} |-> Blank]
      BY DEF Init
    <3> QED
      BY <3>1, <3>2
  <2>5. i \in 0 .. call.count
    BY <1>2, <2>3
  <2>6. store \in [Sectors -> Values]
    BY DEF Init
  <2> QED
    BY <1>2, <2>1, <2>2, <2>4, <2>5, <2>6 DEF TypeOK, InitPlaces
<1>4. call.op = "none"
  BY <1>2
<1> QED
  BY <1>1, <1>2, <1>3, <1>4
     DEF SdInv, InitTrue, StartInv, CallInv, CardInv, WaitInv, PrefixInv, SuccessInv,
         Returned, InitPlaces, ReadPlaces, WritePlaces

(***************************************************************************)
(* microsd_init: no call was made yet, so that only the card's type and    *)
(* what is known of it change.                                             *)
(***************************************************************************)
LEMMA StartStep ==
  ASSUME SdInv, pc \in InitPlaces, pc' \in InitPlaces \cup {"idle"}, card' \in Cards,
         UNCHANGED <<store, call, data, i>>, retries' \in Int, result' \in -7 .. 1,
         card'.state # "busy", card'.reading = card.reading,
         card'.receiving = card.receiving,
         pc' \in {"init", "ocr"} => card'.version2,
         pc' = "idle" => card'.state = "ready" /\ card'.version2 /\ card'.highCap
  PROVE  SdInv'
<1>1. TypeOK'
  BY DEF SdInv, TypeOK
<1>2. ~card.reading /\ ~card.receiving
  BY DEF SdInv, CardInv, TypeOK, Cards, InitPlaces
<1>3. call.op = "none"
  BY DEF SdInv, StartInv
<1>4. pc' \notin ReadPlaces \cup WritePlaces /\ pc' # "readBlock" /\ pc' # "writePoll"
  BY DEF InitPlaces, ReadPlaces, WritePlaces
<1>5. InitTrue' /\ StartInv'
  BY <1>3 DEF InitTrue, StartInv, InitPlaces
<1>6. CallInv' /\ CardInv' /\ WaitInv'
  BY <1>2, <1>3, <1>4 DEF SdInv, CallInv, CardInv, WaitInv
<1>7. PrefixInv'
  BY DEF SdInv, PrefixInv, SectorDone
<1>8. SuccessInv'
  BY <1>3 DEF SuccessInv, Returned
<1> QED
  BY <1>1, <1>5, <1>6, <1>7, <1>8 DEF SdInv

LEMMA InitResetStep == ASSUME SdInv, InitReset PROVE SdInv'
<1>1. card \in Cards /\ retries \in Int /\ result \in -7 .. 1
  BY DEF SdInv, TypeOK
<1>2. pc \in InitPlaces /\ card.state # "busy" /\ pc' \in {"failed", "voltage"}
  BY DEF SdInv, StartInv, InitPlaces, InitReset, InitFails
<1>3. result' \in -7 .. 1
  BY <1>1 DEF InitReset, InitFails
<1>4. card' \in {card, [card EXCEPT !.state = "idle"]}
  BY DEF InitReset
<1>5. card' \in Cards /\ card'.state # "busy"
      /\ card'.reading = card.reading /\ card'.receiving = card.receiving
  BY <1>1, <1>2, <1>4, CardType DEF Cards
<1>6. UNCHANGED <<store, call, data, i, retries>>
  BY DEF InitReset
<1> QED
  BY <1>1, <1>2, <1>3, <1>5, <1>6, StartStep DEF InitPlaces

LEMMA InitVoltageStep == ASSUME SdInv, InitVoltage PROVE SdInv'
<1>1. card \in Cards /\ retries \in Int /\ result \in -7 .. 1
  BY DEF SdInv, TypeOK
<1>2. pc \in InitPlaces /\ card.state # "busy" /\ pc' \in {"failed", "init"}
  BY DEF SdInv, StartInv, InitPlaces, InitVoltage, InitFails
<1>3. pc' = "init" => card.version2
  BY DEF InitVoltage, InitFails
<1>4. result' \in -7 .. 1
  BY <1>1 DEF InitVoltage, InitFails
<1>5. retries' \in Int
  BY <1>1, SdAssumption DEF InitVoltage
<1>6. UNCHANGED <<card, store, call, data, i>>
  BY DEF InitVoltage
<1> QED
  BY <1>1, <1>2, <1>3, <1>4, <1>5, <1>6, StartStep DEF InitPlaces

LEMMA InitPollStep == ASSUME SdInv, InitPoll PROVE SdInv'
<1>1. card \in Cards /\ retries \in Int /\ result \in -7 .. 1
  BY DEF SdInv, TypeOK
<1>2. pc \in InitPlaces /\ card.state # "busy" /\ card.version2
  BY DEF SdInv, StartInv, InitPlaces, InitPoll
<1>3. pc' \in {"failed", "init", "ocr"}
  BY DEF InitPoll, InitFails
<1>4. result' \in -7 .. 1
  BY <1>1 DEF InitPoll, InitFails
<1>5. retries' \in Int
  BY <1>1 DEF InitPoll
<1>6. \/ card' = card
      \/ card' = [card EXCEPT !.state = "ready"]
      \/ card.warmup # 0 /\ card' = [card EXCEPT !.warmup = @ - 1]
  BY DEF InitPoll
<1>7. card' \in Cards
  BY <1>1, <1>6, CardType
<1>8. card'.state # "busy" /\ card'.version2
      /\ card'.reading = card.reading /\ card'.receiving = card.receiving
  BY <1>1, <1>2, <1>6 DEF Cards
<1>9. UNCHANGED <<store, call, data, i>>
  BY DEF InitPoll
<1> QED
  BY <1>2, <1>3, <1>4, <1>5, <1>7, <1>8, <1>9, StartStep DEF InitPlaces

LEMMA InitOcrStep == ASSUME SdInv, InitOcr PROVE SdInv'
<1>1. card \in Cards /\ retries \in Int /\ result \in -7 .. 1
  BY DEF SdInv, TypeOK
<1>2. pc \in InitPlaces /\ card.state # "busy" /\ card.version2
  BY DEF SdInv, StartInv, InitPlaces, InitOcr
<1>3. pc' \in {"failed", "idle"} /\ result' \in -7 .. 1
  BY DEF InitOcr, InitFails
<1>4. pc' = "idle" => card.state = "ready" /\ card.highCap
  BY DEF InitOcr, InitFails, OcrGood
<1>5. UNCHANGED <<card, store, call, data, i, retries>>
  BY DEF InitOcr
<1> QED
  BY <1>1, <1>2, <1>3, <1>4, <1>5, StartStep DEF InitPlaces

-----------------------------------------------------------------------------
LEMMA CallStep ==
  ASSUME SdInv, NEW op \in {"read", "write"}, NEW multi \in BOOLEAN, NEW s \in Nat,
         NEW n \in Nat \ {0}, ~multi => n = 1, Call(op, multi, s, n)
  PROVE  SdInv'
<1>1. pc = "idle" /\ pc' = op /\ i' = 0
      /\ call' = [op |-> op, multi |-> multi, sector |-> s, count |-> n]
      /\ data' \in [0 .. n - 1 -> IF op = "read" THEN {Blank} ELSE Values]
      /\ UNCHANGED <<card, store, retries, result>>
  BY DEF Call
<1>2. call'.op = op /\ call'.multi = multi /\ call'.sector = s /\ call'.count = n
  BY <1>1
<1>3. call' \in [op : {"none", "read", "write"}, multi : BOOLEAN, sector : Nat, count : Nat]
  BY <1>1
<1>4. data' \in [0 .. n - 1 -> Values \cup {Blank}]
  BY <1>1
<1>5. TypeOK'
  <2>1. data' \in [0 .. call'.count - 1 -> Values \cup {Blank}]
    BY <1>2, <1>4
  <2>2. i' \in 0 .. call'.count
    BY <1>1, <1>2
  <2>3. pc' \in {"read", "write"}
    BY <1>1
  <2>4. card' \in Cards /\ store' \in [Sectors -> Values] /\ retries' \in Int /\ result' \in -7 .. 1
    BY <1>1 DEF SdInv, TypeOK
  <2> QED
    BY <1>3, <2>1, <2>2, <2>3, <2>4 DEF TypeOK, ReadPlaces, WritePlaces
<1>6. InitTrue' /\ StartInv'
  BY <1>1 DEF SdInv, InitTrue, StartInv, InitPlaces
<1>7. CallInv'
  <2>1. (call.op = "write" => \A k \in 0 .. call.count - 1 : data[k] \in Values)'
    BY <1>1, <1>2
  <2> QED
    BY <1>1, <1>2, <2>1 DEF CallInv, ReadPlaces, WritePlaces
<1>8. CardInv'
  BY <1>1 DEF SdInv, TypeOK, Cards, CardInv
<1>9. WaitInv' /\ SuccessInv'
  BY <1>1 DEF WaitInv, SuccessInv, Returned
<1>10. PrefixInv'
  BY <1>1 DEF PrefixInv
<1> QED
  BY <1>5, <1>6, <1>7, <1>8, <1>9, <1>10 DEF SdInv

LEMMA CardFinishesStep == ASSUME SdInv, CardFinishes PROVE SdInv'
<1>1. card \in Cards /\ store \in [Sectors -> Values]
  BY DEF SdInv, TypeOK
<1>2. card.state = "busy" /\ card' = [card EXCEPT !.state = "ready"]
      /\ store' = [store EXCEPT ![card.job.sector] = card.job.value]
      /\ UNCHANGED <<pc, call, data, i, retries, result>>
  BY DEF CardFinishes
<1>3. card.job.sector \in Sectors /\ card.job.value \in Values
  BY <1>2 DEF SdInv, CardInv
<1>4. card' \in Cards
  BY <1>1, <1>2, CardType
<1>5. card'.state = "ready" /\ card'.version2 = card.version2 /\ card'.highCap = card.highCap
      /\ card'.reading = card.reading /\ card'.receiving = card.receiving
  BY <1>1, <1>2 DEF Cards
<1>6. store' \in [Sectors -> Values] /\ store'[card.job.sector] = card.job.value
      /\ \A s \in Sectors : s # card.job.sector => store'[s] = store[s]
  BY <1>1, <1>2, <1>3
<1>7. TypeOK'
  BY <1>2, <1>4, <1>6 DEF SdInv, TypeOK
<1>8. InitTrue' /\ StartInv'
  BY <1>2, <1>5 DEF SdInv, InitTrue, StartInv
<1>9. CallInv'
  BY <1>2 DEF SdInv, CallInv
<1>10. ~card.reading /\ ~card.receiving
  BY <1>1, <1>2 DEF SdInv, CardInv, Cards
<1>11. CardInv'
  BY <1>2, <1>5, <1>10 DEF SdInv, CardInv
<1>12. WaitInv'
  <2> SUFFICES ASSUME pc = "writePoll"
               PROVE  call.sector + i \in Sectors /\ data[i] = store'[call.sector + i]
    BY <1>2, <1>5 DEF WaitInv
  <2>1. call.sector + i \in Sectors
        /\ card.job = [sector |-> call.sector + i, value |-> data[i]]
    BY <1>2 DEF SdInv, WaitInv
  <2>2. card.job.sector = call.sector + i /\ card.job.value = data[i]
    BY <2>1
  <2> QED
    BY <1>6, <2>1, <2>2
<1>13. \A k : (SectorDone(k) /\ card.job.sector # call.sector + k) => SectorDone(k)'
  BY <1>2, <1>6 DEF SectorDone
<1>14. PrefixInv'
  BY <1>2, <1>5, <1>13 DEF SdInv, PrefixInv
<1>15. SuccessInv'
  BY <1>2 DEF SdInv, SuccessInv, Returned
<1> QED
  BY <1>7, <1>8, <1>9, <1>11, <1>12, <1>14, <1>15 DEF SdInv

-----------------------------------------------------------------------------
(***************************************************************************)
(* The driver goes from one place of a sector to the next, or returns from *)
(* it: what follows for the invariant is the same in all the steps, of     *)
(* which only the contents of the buffer and the state of the card remain. *)
(***************************************************************************)
LEMMA PlaceStep ==
  ASSUME SdInv, pc \in ReadPlaces \cup WritePlaces,
         UNCHANGED <<store, call>>, retries' \in Int, result' \in -7 .. 1,
         card' \in Cards, card'.state \in {"ready", "busy"},
         card'.version2 = card.version2, card'.highCap = card.highCap,
         data' \in [0 .. call.count - 1 -> Values \cup {Blank}],
         call.op = "write" => data' = data,
         i' \in 0 .. call.count, pc' # "idle" => i' < call.count,
         pc' \in ReadPlaces => call.op = "read",
         pc' \in WritePlaces => call.op = "write",
         pc' \in ReadPlaces \cup WritePlaces \cup {"idle"},
         ~call.multi => i' = 0
  PROVE  TypeOK' /\ InitTrue' /\ StartInv' /\ CallInv'
<1>1. TypeOK'
  BY DEF SdInv, TypeOK
<1>2. pc' \notin InitPlaces /\ pc \notin InitPlaces
  BY DEF InitPlaces, ReadPlaces, WritePlaces
<1>3. InitTrue'
  BY <1>2 DEF SdInv, InitTrue
<1>4. StartInv'
  BY <1>2 DEF StartInv, InitPlaces
<1>5. pc' # "idle" => i' < call'.count
  OBVIOUS
<1>6. (pc \in ReadPlaces \cup WritePlaces => i < call.count)'
  BY <1>5 DEF ReadPlaces, WritePlaces
<1>7. CallInv'
  BY <1>6 DEF SdInv, CallInv
<1> QED
  BY <1>1, <1>3, <1>4, <1>7

(***************************************************************************)
(* A step that changes neither the contents nor the card's job keeps what  *)
(* is done, when no sector was passed.                                     *)
(***************************************************************************)
LEMMA PrefixKept ==
  ASSUME SdInv, i' = i, UNCHANGED <<store, call>>,
         \A k \in 0 .. i - 1 : data'[k] = data[k],
         card'.state = "busy" => card.state = "busy" /\ card'.job = card.job
  PROVE  PrefixInv'
<1>1. \A k \in 0 .. i - 1 : SectorDone(k) => SectorDone(k)'
  BY DEF SectorDone
<1> QED
  BY <1>1 DEF SdInv, PrefixInv

(***************************************************************************)
(* A failed return: nothing is claimed.                                    *)
(***************************************************************************)
LEMMA FailStep ==
  ASSUME SdInv, pc \in ReadPlaces \cup WritePlaces, NEW code \in -7 .. -1, Returns(code),
         UNCHANGED <<store, call>>, retries' \in Int,
         data' = data, card' \in Cards,
         card'.state = card.state, card'.job = card.job,
         card'.version2 = card.version2, card'.highCap = card.highCap,
         ~card'.reading, ~card'.receiving
  PROVE  SdInv'
<1>1. pc' = "idle" /\ i' = i /\ result' = IF call.multi THEN 0 ELSE code
  BY DEF Returns
<1>2. call.multi \in BOOLEAN /\ call.count \in Nat /\ i \in 0 .. call.count /\ i < call.count
      /\ result \in -7 .. 1 /\ call.op \in {"read", "write"}
  BY DEF SdInv, TypeOK, CallInv
<1>3. ~call.multi => i = 0
  BY <1>2 DEF SdInv, CallInv
<1>4. card.state \in {"ready", "busy"}
  BY DEF SdInv, InitTrue, InitPlaces, ReadPlaces, WritePlaces
<1>5. result' \in -7 .. 1
  BY <1>1, <1>2
<1>6. data' \in [0 .. call.count - 1 -> Values \cup {Blank}]
  BY DEF SdInv, TypeOK
<1>7. pc' \notin ReadPlaces /\ pc' \notin WritePlaces
  BY <1>1 DEF ReadPlaces, WritePlaces
<1>8. TypeOK' /\ InitTrue' /\ StartInv' /\ CallInv'
  BY <1>1, <1>2, <1>3, <1>4, <1>5, <1>6, <1>7, PlaceStep
<1>9. CardInv'
  BY <1>1 DEF SdInv, CardInv
<1>10. WaitInv'
  BY <1>1 DEF WaitInv
<1>11. PrefixInv'
  BY <1>1, PrefixKept
<1>12. SuccessInv'
  BY <1>1, <1>2 DEF SuccessInv, Returned
<1> QED
  BY <1>8, <1>9, <1>10, <1>11, <1>12 DEF SdInv

(***************************************************************************)
(* A return from a sector that is done, of a card at rest.                 *)
(***************************************************************************)
LEMMA SuccessStep ==
  ASSUME SdInv, pc \in ReadPlaces \cup WritePlaces, Returns(0),
         UNCHANGED <<store, call>>, retries' \in Int,
         card' \in Cards, card'.state = "ready",
         card'.version2 = card.version2, card'.highCap = card.highCap,
         ~card'.reading, ~card'.receiving,
         data' \in [0 .. call.count - 1 -> Values \cup {Blank}],
         call.op = "write" => data' = data,
         \A k \in 0 .. i - 1 : data'[k] = data[k],
         call.sector + i \in Sectors, data'[i] = store[call.sector + i]
  PROVE  SdInv'
<1>1. call.multi \in BOOLEAN /\ call.count \in Nat /\ i \in 0 .. call.count /\ i < call.count
      /\ result \in -7 .. 1 /\ call.op \in {"read", "write"} /\ call.sector \in Nat
  BY DEF SdInv, TypeOK, CallInv
<1>2. /\ pc' \in {call.op, "idle"}
      /\ i' \in 0 .. call.count
      /\ i' = i \/ i' = i + 1
      /\ pc' # "idle" => i' < call.count
      /\ result' \in -7 .. 1
      /\ pc' = "idle" /\ call.multi /\ result' = 1 => i' = call.count
      /\ ~call.multi => call.count = 1 /\ i = 0 /\ i' = 0 /\ result' = 0
  BY ReturnsStep DEF SdInv
<1>3. pc' \in ReadPlaces => call.op = "read"
  BY <1>1, <1>2 DEF ReadPlaces
<1>4. pc' \in WritePlaces => call.op = "write"
  BY <1>1, <1>2 DEF WritePlaces
<1>5. pc' \in {"read", "write", "idle"}
  BY <1>1, <1>2
<1>6. pc' \in ReadPlaces \cup WritePlaces \cup {"idle"}
  BY <1>5 DEF ReadPlaces, WritePlaces
<1>7. TypeOK' /\ InitTrue' /\ StartInv' /\ CallInv'
  BY <1>2, <1>3, <1>4, <1>6, PlaceStep
<1>8. CardInv'
  BY <1>5 DEF CardInv
<1>9. WaitInv'
  BY <1>5 DEF WaitInv
<1>10. \A k \in 0 .. i : SectorDone(k)'
  <2> SUFFICES ASSUME NEW k \in 0 .. i PROVE SectorDone(k)'
    OBVIOUS
  <2>1. CASE k = i
    BY <2>1 DEF SectorDone
  <2>2. CASE k # i
    <3>1. k \in 0 .. i - 1
      BY <1>1, <2>2
    <3>2. SectorDone(k)
      BY <3>1 DEF SdInv, PrefixInv
    <3> QED
      BY <3>1, <3>2 DEF SectorDone
  <2> QED
    BY <2>1, <2>2
<1>11. PrefixInv'
  <2>1. \A k \in 0 .. i' - 1 : k \in 0 .. i
    BY <1>1, <1>2
  <2> QED
    BY <1>10, <2>1 DEF PrefixInv
<1>12. SectorDone(0)' \/ call.multi
  BY <1>1, <1>2, <1>10
<1>13. SuccessInv'
  BY <1>2, <1>12 DEF SuccessInv, Returned
<1> QED
  BY <1>7, <1>8, <1>9, <1>11, <1>13 DEF SdInv

(***************************************************************************)
(* The steps of microsd_read and microsd_write.                            *)
(***************************************************************************)
LEMMA ReadCommandStep == ASSUME SdInv, ReadCommand PROVE SdInv'
<1>1. card \in Cards /\ retries \in Int /\ result \in -7 .. 1 /\ call.multi \in BOOLEAN
      /\ call.count \in Nat /\ i \in 0 .. call.count /\ call.sector \in Nat
      /\ data \in [0 .. call.count - 1 -> Values \cup {Blank}]
  BY DEF SdInv, TypeOK
<1>2. pc = "read" /\ data' = [data EXCEPT ![i] = Blank] /\ UNCHANGED <<store, call>>
  BY DEF ReadCommand
<1>3. pc \in ReadPlaces /\ call.op = "read" /\ i < call.count
      /\ card.state \in {"ready", "busy"}
  BY <1>2 DEF SdInv, CallInv, InitTrue, ReadPlaces, InitPlaces
<1>4. ~call.multi => i = 0
  BY <1>3 DEF SdInv, CallInv
<1>5. ~card.reading /\ ~card.receiving
  BY <1>2 DEF SdInv, CardInv
<1>6. data' \in [0 .. call.count - 1 -> Values \cup {Blank}]
      /\ \A k \in 0 .. i - 1 : data'[k] = data[k]
  BY <1>1, <1>2, <1>3
<1>7. CASE /\ AnswersZero(call.sector + i)
           /\ card' = [card EXCEPT !.reading = card.state = "ready"]
           /\ retries' = ReadRetries
           /\ Goes("readPoll")
  <2>1. pc' = "readPoll" /\ i' = i /\ result' = result
    BY <1>7 DEF Goes
  <2>2. card' \in Cards
    <3>1. (card.state = "ready") \in BOOLEAN
      OBVIOUS
    <3> QED
      BY <1>1, <1>7, <3>1, CardType
  <2>3. card'.state = card.state /\ card'.version2 = card.version2 /\ card'.job = card.job
        /\ card'.highCap = card.highCap /\ card'.receiving = card.receiving
    BY <1>1, <1>7 DEF Cards
  <2>4. card'.reading => card.state = "ready"
    BY <1>1, <1>7 DEF Cards
  <2>5. retries' \in Int
    BY <1>7, SdAssumption
  <2>6. pc' \in ReadPlaces /\ pc' \notin WritePlaces /\ pc' # "idle"
    BY <2>1 DEF ReadPlaces, WritePlaces
  <2>7. TypeOK' /\ InitTrue' /\ StartInv' /\ CallInv'
    BY <1>1, <1>2, <1>3, <1>4, <1>6, <2>1, <2>2, <2>3, <2>5, <2>6, PlaceStep
  <2>8. card'.reading => call.sector + i \in Sectors
    BY <1>7, <2>4 DEF AnswersZero
  <2>9. CardInv'
    BY <1>2, <1>5, <2>1, <2>3, <2>4, <2>8 DEF SdInv, CardInv
  <2>10. WaitInv' /\ SuccessInv'
    BY <2>1 DEF WaitInv, SuccessInv, Returned
  <2>11. PrefixInv'
    BY <1>2, <1>6, <2>1, <2>3, PrefixKept
  <2> QED
    BY <2>7, <2>9, <2>10, <2>11 DEF SdInv
<1>8. CASE card.state = "ready" /\ UNCHANGED <<card, retries>> /\ Returns(-1)
  <2>1. -1 \in -7 .. 0 /\ -1 # 0
    OBVIOUS
  <2>2. /\ pc' \in {call.op, "idle"}
        /\ i' \in 0 .. call.count
        /\ i' = i
        /\ result' \in -7 .. 1
        /\ ~call.multi => i' = 0 /\ result' = -1
    BY <1>3, <1>8, <2>1, ReturnsStep DEF SdInv
  <2>3. pc' = "idle" /\ (call.multi => result' = 0)
    BY <1>3, <1>8 DEF Returns
  <2>4. pc' \notin ReadPlaces /\ pc' \notin WritePlaces
    BY <2>3 DEF ReadPlaces, WritePlaces
  <2>5. TypeOK' /\ InitTrue' /\ StartInv' /\ CallInv'
    BY <1>1, <1>2, <1>3, <1>6, <1>8, <2>2, <2>3, <2>4, PlaceStep
  <2>6. CardInv'
    BY <1>5, <1>8, <2>3 DEF SdInv, CardInv
  <2>7. WaitInv' /\ SuccessInv'
    BY <1>1, <1>2, <2>2, <2>3 DEF WaitInv, SuccessInv, Returned
  <2>8. PrefixInv'
    BY <1>2, <1>6, <1>8, <2>2, PrefixKept
  <2> QED
    BY <2>5, <2>6, <2>7, <2>8 DEF SdInv
<1> QED
  BY <1>7, <1>8 DEF ReadCommand

LEMMA ReadPollStep == ASSUME SdInv, ReadPoll PROVE SdInv'
<1>1. card \in Cards /\ retries \in Int /\ result \in -7 .. 1 /\ call.multi \in BOOLEAN
      /\ i \in 0 .. call.count /\ data \in [0 .. call.count - 1 -> Values \cup {Blank}]
  BY DEF SdInv, TypeOK
<1>2. pc = "readPoll" /\ UNCHANGED <<store, call, data>>
  BY DEF ReadPoll
<1>3. pc \in ReadPlaces /\ call.op = "read" /\ i < call.count
      /\ card.state \in {"ready", "busy"}
  BY <1>2 DEF SdInv, CallInv, InitTrue, ReadPlaces, InitPlaces
<1>4. ~call.multi => i = 0
  BY <1>3 DEF SdInv, CallInv
<1>5. ~card.receiving
  BY <1>2 DEF SdInv, CardInv
<1>6. ASSUME Goes("readPoll") \/ Goes("readBlock"),
             card' \in {card, [card EXCEPT !.reading = card.reading /\ TriesLeft]},
             pc' = "readBlock" => card' = card /\ card.reading,
             retries' \in Int
      PROVE  SdInv'
  <2>1. pc' \in {"readPoll", "readBlock"} /\ i' = i /\ result' = result
    BY <1>6 DEF Goes
  <2>2. card' \in Cards
    <3>1. (card.reading /\ TriesLeft) \in BOOLEAN
      OBVIOUS
    <3> QED
      BY <1>1, <1>6, <3>1, CardType
  <2>3. card'.state = card.state /\ card'.version2 = card.version2 /\ card'.job = card.job
        /\ card'.highCap = card.highCap /\ card'.receiving = card.receiving
    BY <1>1, <1>6 DEF Cards
  <2>4. card'.reading => card.reading
    BY <1>1, <1>6 DEF Cards
  <2>5. pc' \in ReadPlaces /\ pc' \notin WritePlaces /\ pc' # "idle"
    BY <2>1 DEF ReadPlaces, WritePlaces
  <2>6. TypeOK' /\ InitTrue' /\ StartInv' /\ CallInv'
    BY <1>1, <1>2, <1>3, <1>4, <1>6, <2>1, <2>2, <2>3, <2>5, PlaceStep
  <2>7. CardInv'
    BY <1>2, <1>5, <1>6, <2>1, <2>3, <2>4 DEF SdInv, CardInv
  <2>8. WaitInv' /\ SuccessInv'
    BY <2>1 DEF WaitInv, SuccessInv, Returned
  <2>9. PrefixInv'
    BY <1>2, <2>1, <2>3, PrefixKept
  <2> QED
    BY <2>6, <2>7, <2>8, <2>9 DEF SdInv
<1>7. CASE card.reading /\ UNCHANGED <<card, retries>> /\ Goes("readBlock")
  BY <1>1, <1>6, <1>7
<1>8. CASE /\ retries' = retries - 1
           /\ card' = [card EXCEPT !.reading = @ /\ TriesLeft]
           /\ TriesLeft /\ Goes("readPoll")
  BY <1>1, <1>6, <1>8 DEF Goes
<1>9. CASE /\ retries' = retries - 1
           /\ card' = [card EXCEPT !.reading = @ /\ TriesLeft]
           /\ ~TriesLeft /\ Returns(-2)
  <2>1. card' = [card EXCEPT !.reading = FALSE]
    BY <1>9
  <2>2. card' \in Cards
    BY <1>1, <2>1, CardType
  <2>3. card'.state = card.state /\ card'.version2 = card.version2 /\ card'.job = card.job
        /\ card'.highCap = card.highCap /\ ~card'.receiving /\ ~card'.reading
    BY <1>1, <1>5, <2>1 DEF Cards
  <2>4. Returns(-2) /\ -2 \in -7 .. -1 /\ retries' \in Int
    BY <1>1, <1>9
  <2> QED
    BY <1>2, <1>3, <2>2, <2>3, <2>4, FailStep
<1> QED
  BY <1>7, <1>8, <1>9 DEF ReadPoll

LEMMA ReadBlockStep == ASSUME SdInv, ReadBlock PROVE SdInv'
<1>1. card \in Cards /\ retries \in Int /\ i \in Nat /\ store \in [Sectors -> Values]
      /\ call.count \in Nat /\ data \in [0 .. call.count - 1 -> Values \cup {Blank}]
  BY DEF SdInv, TypeOK
<1>2. pc = "readBlock" /\ data' = [data EXCEPT ![i] = store[call.sector + i]]
      /\ card' = [card EXCEPT !.reading = FALSE] /\ Returns(0)
      /\ UNCHANGED <<store, call, retries>>
  BY DEF ReadBlock
<1>3. pc \in ReadPlaces /\ call.op = "read" /\ i < call.count
  BY <1>2 DEF SdInv, CallInv, ReadPlaces
<1>4. card.reading /\ card.state = "ready" /\ call.sector + i \in Sectors /\ ~card.receiving
  BY <1>2 DEF SdInv, CardInv
<1>5. store[call.sector + i] \in Values
  BY <1>1, <1>4
<1>6. data' \in [0 .. call.count - 1 -> Values \cup {Blank}]
      /\ data'[i] = store[call.sector + i]
      /\ \A k \in 0 .. i - 1 : data'[k] = data[k]
  BY <1>1, <1>2, <1>3, <1>5
<1>7. card' \in Cards
  BY <1>1, <1>2, CardType
<1>8. card'.state = "ready" /\ card'.version2 = card.version2
      /\ card'.highCap = card.highCap /\ ~card'.receiving /\ ~card'.reading
  BY <1>1, <1>2, <1>4 DEF Cards
<1>9. call.op # "write"
  BY <1>3
<1> QED
  BY <1>1, <1>2, <1>3, <1>4, <1>6, <1>7, <1>8, <1>9, SuccessStep

LEMMA WriteCommandStep == ASSUME SdInv, WriteCommand PROVE SdInv'
<1>1. card \in Cards /\ retries \in Int /\ result \in -7 .. 1 /\ call.multi \in BOOLEAN
      /\ i \in 0 .. call.count /\ data \in [0 .. call.count - 1 -> Values \cup {Blank}]
  BY DEF SdInv, TypeOK
<1>2. pc = "write" /\ UNCHANGED <<store, call, data, retries>>
  BY DEF WriteCommand
<1>3. pc \in WritePlaces /\ call.op = "write" /\ i < call.count
      /\ card.state \in {"ready", "busy"}
  BY <1>2 DEF SdInv, CallInv, InitTrue, WritePlaces, InitPlaces
<1>4. ~call.multi => i = 0
  BY <1>3 DEF SdInv, CallInv
<1>5. ~card.reading /\ ~card.receiving
  BY <1>2 DEF SdInv, CardInv
<1>6. CASE /\ AnswersZero(call.sector + i)
           /\ card' = [card EXCEPT !.receiving = card.state = "ready"]
           /\ Goes("writeBlock")
  <2>1. pc' = "writeBlock" /\ i' = i /\ result' = result
    BY <1>6 DEF Goes
  <2>2. card' \in Cards
    <3>1. (card.state = "ready") \in BOOLEAN
      OBVIOUS
    <3> QED
      BY <1>1, <1>6, <3>1, CardType
  <2>3. card'.state = card.state /\ card'.version2 = card.version2 /\ card'.job = card.job
        /\ card'.highCap = card.highCap /\ card'.reading = card.reading
    BY <1>1, <1>6 DEF Cards
  <2>4. card'.receiving => card.state = "ready"
    BY <1>1, <1>6 DEF Cards
  <2>5. pc' \in WritePlaces /\ pc' \notin ReadPlaces /\ pc' # "idle"
    BY <2>1 DEF ReadPlaces, WritePlaces
  <2>6. TypeOK' /\ InitTrue' /\ StartInv' /\ CallInv'
    BY <1>1, <1>2, <1>3, <1>4, <2>1, <2>2, <2>3, <2>5, PlaceStep
  <2>7. card'.receiving => call.sector + i \in Sectors
    BY <1>6, <2>4 DEF AnswersZero
  <2>8. CardInv'
    BY <1>2, <1>5, <2>1, <2>3, <2>4, <2>7 DEF SdInv, CardInv
  <2>9. WaitInv' /\ SuccessInv'
    BY <2>1 DEF WaitInv, SuccessInv, Returned
  <2>10. PrefixInv'
    BY <1>2, <2>1, <2>3, PrefixKept
  <2> QED
    BY <2>6, <2>8, <2>9, <2>10 DEF SdInv
<1>7. CASE card.state = "ready" /\ card' = card /\ Returns(-1)
  <2>1. -1 \in -7 .. -1
    OBVIOUS
  <2> QED
    BY <1>1, <1>2, <1>3, <1>5, <1>7, <2>1, FailStep
<1> QED
  BY <1>6, <1>7 DEF WriteCommand

LEMMA WriteBlockStep == ASSUME SdInv, WriteBlock PROVE SdInv'
<1>1. card \in Cards /\ retries \in Int /\ result \in -7 .. 1 /\ call.multi \in BOOLEAN
      /\ call.sector \in Nat /\ call.count \in Nat /\ i \in 0 .. call.count
      /\ data \in [0 .. call.count - 1 -> Values \cup {Blank}]
  BY DEF SdInv, TypeOK
<1>2. pc = "writeBlock" /\ UNCHANGED <<store, call, data>>
  BY DEF WriteBlock
<1>3. pc \in WritePlaces /\ call.op = "write" /\ i < call.count
      /\ card.state \in {"ready", "busy"}
  BY <1>2 DEF SdInv, CallInv, InitTrue, WritePlaces, InitPlaces
<1>4. ~call.multi => i = 0
  BY <1>3 DEF SdInv, CallInv
<1>5. ~card.reading
  BY <1>2 DEF SdInv, CardInv
<1>6. CASE TakesBlock /\ retries' = WriteRetries /\ Goes("writePoll")
  <2> DEFINE job == [sector |-> call.sector + i, value |-> data[i]]
  <2>1. pc' = "writePoll" /\ i' = i /\ result' = result
    BY <1>6 DEF Goes
  <2>2. card.receiving /\ card' = [card EXCEPT !.state = "busy", !.receiving = FALSE, !.job = job]
    BY <1>6 DEF TakesBlock
  <2>3. call.sector + i \in Sectors /\ data[i] \in Values
    <3>1. call.sector + i \in Sectors
      BY <2>2 DEF SdInv, CardInv
    <3>2. i \in 0 .. call.count - 1
      BY <1>1, <1>3
    <3> QED
      BY <1>3, <3>1, <3>2 DEF SdInv, CallInv
  <2>4. job \in [sector : Nat, value : Values \cup {Blank}]
    BY <1>1, <2>3
  <2>5. job.sector = call.sector + i /\ job.value = data[i]
    OBVIOUS
  <2>6. job = [sector |-> call.sector + i, value |-> data[i]]
    OBVIOUS
  <2> HIDE DEF job
  <2>7. card' \in Cards /\ card'.job = job
    BY <1>1, <2>2, <2>4 DEF Cards
  <2>8. card'.state = "busy" /\ card'.version2 = card.version2
        /\ card'.highCap = card.highCap /\ ~card'.receiving /\ card'.reading = card.reading
    BY <1>1, <2>2 DEF Cards
  <2>9. retries' \in Int
    BY <1>6, SdAssumption
  <2>10. pc' \in WritePlaces /\ pc' \notin ReadPlaces /\ pc' # "idle"
    BY <2>1 DEF ReadPlaces, WritePlaces
  <2>11. TypeOK' /\ InitTrue' /\ StartInv' /\ CallInv'
    BY <1>1, <1>2, <1>3, <1>4, <2>1, <2>7, <2>8, <2>9, <2>10, PlaceStep
  <2>12. CardInv'
    BY <1>5, <2>1, <2>3, <2>5, <2>7, <2>8 DEF CardInv
  <2>13. WaitInv'
    BY <1>2, <2>1, <2>3, <2>6, <2>7, <2>8 DEF WaitInv
  <2>14. PrefixInv'
    <3>1. \A k \in 0 .. i - 1 : SectorDone(k) => SectorDone(k)'
      BY <1>2 DEF SectorDone
    <3>2. \A k \in 0 .. i - 1 : call.sector + i # call.sector + k
      BY <1>1
    <3> QED
      BY <1>2, <2>1, <2>5, <2>7, <3>1, <3>2 DEF SdInv, PrefixInv
  <2>15. SuccessInv'
    BY <2>1 DEF SuccessInv, Returned
  <2> QED
    BY <2>11, <2>12, <2>13, <2>14, <2>15 DEF SdInv
<1>7. CASE IgnoresBlock /\ retries' = retries /\ Returns(-2)
  <2>1. card' = [card EXCEPT !.receiving = FALSE]
    BY <1>7 DEF IgnoresBlock
  <2>2. card' \in Cards
    BY <1>1, <2>1, CardType
  <2>3. card'.state = card.state /\ card'.version2 = card.version2 /\ card'.job = card.job
        /\ card'.highCap = card.highCap /\ ~card'.receiving /\ ~card'.reading
    BY <1>1, <1>5, <2>1 DEF Cards
  <2>4. Returns(-2) /\ -2 \in -7 .. -1 /\ retries' \in Int
    BY <1>1, <1>7
  <2> QED
    BY <1>2, <1>3, <2>2, <2>3, <2>4, FailStep
<1> QED
  BY <1>6, <1>7 DEF WriteBlock

LEMMA WritePollStep == ASSUME SdInv, WritePoll PROVE SdInv'
<1>1. card \in Cards /\ retries \in Int /\ result \in -7 .. 1 /\ call.multi \in BOOLEAN
      /\ i \in 0 .. call.count /\ data \in [0 .. call.count - 1 -> Values \cup {Blank}]
  BY DEF SdInv, TypeOK
<1>2. pc = "writePoll" /\ retries' = retries - 1 /\ UNCHANGED <<card, store, call, data>>
  BY DEF WritePoll
<1>3. pc \in WritePlaces /\ call.op = "write" /\ i < call.count
      /\ card.state \in {"ready", "busy"}
  BY <1>2 DEF SdInv, CallInv, InitTrue, WritePlaces, InitPlaces
<1>4. ~call.multi => i = 0
  BY <1>3 DEF SdInv, CallInv
<1>5. ~card.reading /\ ~card.receiving
  BY <1>2 DEF SdInv, CardInv
<1>6. call.sector + i \in Sectors /\ (card.state = "ready" => data[i] = store[call.sector + i])
  BY <1>2 DEF SdInv, WaitInv
<1>7. retries' \in Int
  BY <1>1, <1>2
<1>8. CASE card.state # "busy" /\ Returns(0)
  <2>1. card'.state = "ready"
    BY <1>2, <1>3, <1>8
  <2> QED
    BY <1>1, <1>2, <1>3, <1>5, <1>6, <1>7, <1>8, <2>1, SuccessStep
<1>9. CASE card.state = "busy" /\ TriesLeft /\ Goes("writePoll")
  <2>1. pc' = "writePoll" /\ i' = i /\ result' = result
    BY <1>9 DEF Goes
  <2>2. pc' \in WritePlaces /\ pc' \notin ReadPlaces /\ pc' # "idle"
    BY <2>1 DEF ReadPlaces, WritePlaces
  <2>3. TypeOK' /\ InitTrue' /\ StartInv' /\ CallInv'
    BY <1>1, <1>2, <1>3, <1>4, <1>7, <2>1, <2>2, PlaceStep
  <2>4. CardInv'
    BY <1>2, <2>1 DEF SdInv, CardInv
  <2>5. WaitInv'
    BY <1>2, <2>1 DEF SdInv, WaitInv
  <2>6. PrefixInv'
    BY <1>2, <2>1, PrefixKept
  <2>7. SuccessInv'
    BY <2>1 DEF SuccessInv, Returned
  <2> QED
    BY <2>3, <2>4, <2>5, <2>6, <2>7 DEF SdInv
<1>10. CASE card.state = "busy" /\ Returns(-3)
  <2>1. -3 \in -7 .. -1
    OBVIOUS
  <2> QED
    BY <1>1, <1>2, <1>3, <1>5, <1>7, <1>10, <2>1, FailStep
<1> QED
  BY <1>8, <1>9, <1>10 DEF WritePoll

-----------------------------------------------------------------------------
LEMMA NextStep == SdInv /\ [Next]_vars => SdInv'
<1> SUFFICES ASSUME SdInv, [Next]_vars PROVE SdInv'
  OBVIOUS
<1>1. CASE Driver
  BY <1>1, InitResetStep, InitVoltageStep, InitPollStep, InitOcrStep,
     ReadCommandStep, ReadPollStep, ReadBlockStep,
     WriteCommandStep, WriteBlockStep, WritePollStep DEF Driver
<1>2. CASE CardFinishes
  BY <1>2, CardFinishesStep
<1>3. ASSUME NEW op \in {"read", "write"}, NEW s \in 0 .. LastSector + 1,
             Call(op, FALSE, s, 1) \/ \E n \in 1 .. MaxCount : Call(op, TRUE, s, n)
      PROVE  SdInv'
  <2>1. s \in Nat
    BY SdAssumption
  <2>2. CASE Call(op, FALSE, s, 1)
    <3>1. 1 \in Nat \ {0} /\ FALSE \in BOOLEAN
      OBVIOUS
    <3> DEFINE one == 1
    <3>2. one \in Nat \ {0} /\ one = 1 /\ Call(op, FALSE, s, one)
      BY <2>2, <3>1
    <3> HIDE DEF one
    <3> QED
      BY <2>1, <3>1, <3>2, CallStep
  <2>3. ASSUME NEW n \in 1 .. MaxCount, Call(op, TRUE, s, n) PROVE SdInv'
    <3>1. n \in Nat \ {0}
      BY SdAssumption
    <3> QED
      BY <2>1, <2>3, <3>1, CallStep
  <2> QED
    BY <1>3, <2>2, <2>3
<1>4. CASE UNCHANGED vars
  BY <1>4 DEF vars, SdInv, TypeOK, InitTrue, StartInv, CallInv, CardInv, WaitInv,
              PrefixInv, SuccessInv, SectorDone, Returned
<1> QED
  BY <1>1, <1>2, <1>3, <1>4 DEF Next

(***************************************************************************)
(* What a card is in the middle of is what the driver asked of it: every   *)
(* block that a call waits for, and every sector that it is past, is the   *)
(* one it says (spi_microsd.c, all of it).                                 *)
(***************************************************************************)
THEOREM SdInvariant == Spec => []SdInv
<1>1. Init => SdInv
  BY InitInv
<1>2. SdInv /\ [Next]_vars => SdInv'
  BY NextStep
<1> QED
  BY <1>1, <1>2, PTL DEF Spec

(***************************************************************************)
(* microsd_init accepts only a card that is ready, of version 2, and       *)
(* addressed by sectors (spi_microsd.c, microsd_init).                     *)
(***************************************************************************)
THEOREM InitIsTrue == Spec => []InitTrue
<1>1. SdInv => InitTrue
  BY DEF SdInv
<1> QED
  BY <1>1, SdInvariant, PTL

(***************************************************************************)
(* The result of a call is true, also behind a call that gave up a card    *)
(* that was still busy, and of a call that fails the sectors before the    *)
(* failure are done (microsd_read, microsd_write, microsd_read_multiple,   *)
(* microsd_write_multiple).                                                *)
(***************************************************************************)
THEOREM ResultIsTrue == Spec => []ResultTrue
<1>1. SdInv => ResultTrue
  <2> SUFFICES ASSUME SdInv, Returned,
                      result = (IF call.multi THEN 1 ELSE 0)
               PROVE  Done
    BY DEF SdInv, PrefixInv, ResultTrue
  <2>1. call.multi \in BOOLEAN
    BY DEF SdInv, TypeOK
  <2>2. CASE call.multi
    <3>1. i = call.count
      BY <2>2 DEF SdInv, SuccessInv
    <3> QED
      BY <3>1 DEF SdInv, PrefixInv, Done
  <2>3. CASE ~call.multi
    <3>1. SectorDone(0)
      BY <2>3 DEF SdInv, SuccessInv
    <3>2. call.count = 1
      BY <2>3 DEF SdInv, CallInv, Returned
    <3>3. \A k \in 0 .. call.count - 1 : k = 0
      BY <3>2
    <3> QED
      BY <3>1, <3>3 DEF Done
  <2> QED
    BY <2>1, <2>2, <2>3
<1> QED
  BY <1>1, SdInvariant, PTL

-----------------------------------------------------------------------------
(***************************************************************************)
(* MicroSd implements BlockDevice, step by step.                           *)
(*                                                                         *)
(* Where the driver is tells how far the device is with its call.          *)
(***************************************************************************)
LEMMA PlaceShows ==
  /\ pc \in InitPlaces \cup {"idle"} => ~InCall /\ SectorsPassed = 0
  /\ pc \in {"read", "readPoll", "readBlock", "write", "writeBlock"} =>
       InCall /\ SectorsPassed = i
  /\ pc = "writePoll" => InCall /\ SectorsPassed = i + 1
  /\ InCall => Status = "pending"
  /\ ~InCall /\ call.op = "none" => Status = "none"
  /\ ~InCall /\ call.op # "none" => Status \in {"success", "failure"}
BY DEF InCall, SectorsPassed, Status, InitPlaces, ReadPlaces, WritePlaces

LEMMA PlaceShowsNext ==
  /\ pc' \in InitPlaces \cup {"idle"} => ~InCall' /\ SectorsPassed' = 0
  /\ pc' \in {"read", "readPoll", "readBlock", "write", "writeBlock"} =>
       InCall' /\ SectorsPassed' = i'
  /\ pc' = "writePoll" => InCall' /\ SectorsPassed' = i' + 1
  /\ InCall' => Status' = "pending"
  /\ ~InCall' /\ call'.op = "none" => Status' = "none"
BY DEF InCall, SectorsPassed, Status, InitPlaces, ReadPlaces, WritePlaces

(***************************************************************************)
(* A card that stays out of a job, or in the same one, keeps what it shows.*)
(***************************************************************************)
LEMMA ContentsKept ==
  ASSUME store' = store, card'.state = "busy" <=> card.state = "busy",
         card'.job = card.job
  PROVE  Contents' = Contents
BY DEF Contents

(***************************************************************************)
(* What a return from a sector is for the device: a failed call, one that  *)
(* succeeded because this was its last sector, or one that goes on.        *)
(***************************************************************************)
LEMMA ReturnsFailure ==
  ASSUME SdInv, InCall, NEW code \in -7 .. -1, Returns(code), call' = call
  PROVE  SectorsPassed' = 0 /\ Status' = "failure"
<1>1. call.multi \in BOOLEAN /\ call.op \in {"read", "write"}
  BY DEF SdInv, TypeOK, CallInv, InCall
<1>2. pc' = "idle" /\ result' = IF call.multi THEN 0 ELSE code
  BY DEF Returns
<1> QED
  BY <1>1, <1>2, PlaceShowsNext DEF Status

LEMMA ReturnsSuccess ==
  ASSUME SdInv, InCall, Returns(0), call' = call
  PROVE  \/ /\ i + 1 < call.count
            /\ SectorsPassed' = i + 1 /\ Status' = "pending"
         \/ /\ i + 1 = call.count
            /\ SectorsPassed' = 0 /\ Status' = "success"
<1>1. /\ call.multi \in BOOLEAN /\ call.op \in {"read", "write"}
      /\ i \in Nat /\ call.count \in Nat /\ i < call.count
      /\ ~call.multi => call.count = 1 /\ i = 0
  BY DEF SdInv, TypeOK, CallInv, InCall
<1>2. CASE call.multi /\ i + 1 < call.count
  <2>1. pc' \in {"read", "write"} /\ i' = i + 1
    BY <1>1, <1>2 DEF Returns
  <2> QED
    BY <1>2, <2>1, PlaceShowsNext
<1>3. CASE ~(call.multi /\ i + 1 < call.count)
  <2>1. pc' = "idle" /\ result' = (IF call.multi THEN 1 ELSE 0)
    BY <1>1, <1>3 DEF Returns
  <2>2. i + 1 = call.count
    BY <1>1, <1>3
  <2> QED
    BY <1>1, <2>1, <2>2, PlaceShowsNext DEF Status
<1> QED
  BY <1>2, <1>3

(***************************************************************************)
(* Two kinds of steps: those the device does not notice, and failures that *)
(* leave its buffer, or clear a sector of it.                              *)
(***************************************************************************)
LEMMA Unnoticed ==
  ASSUME Contents' = Contents, call' = call, data' = data,
         SectorsPassed' = SectorsPassed, Status' = Status
  PROVE  UNCHANGED Device!deviceVars
BY DEF Device!deviceVars

LEMMA DeviceFails ==
  ASSUME SdInv, InCall, NEW code \in -7 .. -1, Returns(code), call' = call,
         Contents' = Contents,
         \/ data' = data
         \/ call.op = "read" /\ data' = [data EXCEPT ![SectorsPassed] = Blank]
  PROVE  Device!Next
BY ReturnsFailure, PlaceShows DEF Device!Next, Device!Fail, Device!Return, Device!Fills

LEMMA DeviceInit == Init => Device!Init
<1> SUFFICES ASSUME Init PROVE Device!Init
  OBVIOUS
<1>1. /\ pc = "reset" /\ card.state = "off"
      /\ call = [op |-> "none", multi |-> FALSE, sector |-> 0, count |-> 0]
  BY DEF Init
<1>2. Contents = store /\ SectorsPassed = 0 /\ Status = "none"
  BY <1>1, PlaceShows DEF Contents, InitPlaces
<1> QED
  BY <1>1, <1>2 DEF Device!Init, Init

LEMMA DeviceStart ==
  ASSUME SdInv, InitReset \/ InitVoltage \/ InitPoll \/ InitOcr
  PROVE  UNCHANGED Device!deviceVars
<1>1. pc \in InitPlaces /\ UNCHANGED <<store, call, data, i>>
  BY DEF InitReset, InitVoltage, InitPoll, InitOcr, InitPlaces
<1>2. pc' \in InitPlaces \cup {"idle"}
  BY DEF InitReset, InitVoltage, InitPoll, InitOcr, InitFails, InitPlaces
<1>3. call.op = "none" /\ card.state # "busy"
  BY <1>1 DEF SdInv, StartInv
<1>4. card'.state # "busy"
  <2>1. card \in Cards
    BY DEF SdInv, TypeOK
  <2> QED
    BY <1>3, <2>1 DEF InitReset, InitVoltage, InitPoll, InitOcr, Cards
<1>5. Contents' = Contents
  BY <1>1, <1>3, <1>4 DEF Contents
<1> QED
  BY <1>1, <1>2, <1>3, <1>5, PlaceShows, PlaceShowsNext, Unnoticed

LEMMA DeviceCall ==
  ASSUME SdInv, NEW op \in {"read", "write"}, NEW multi \in BOOLEAN, NEW s \in Nat,
         NEW n \in Nat \ {0}, Call(op, multi, s, n)
  PROVE  Device!Begin
<1>1. /\ pc = "idle" /\ pc' = op /\ i' = 0 /\ UNCHANGED <<card, store>>
      /\ call' = [op |-> op, multi |-> multi, sector |-> s, count |-> n]
      /\ data' \in [0 .. n - 1 -> IF op = "read" THEN {Blank} ELSE Values]
  BY DEF Call
<1>2. call'.op = op /\ call'.sector = s /\ call'.count = n
  BY <1>1
<1>3. Status # "pending" /\ Status' = "pending" /\ SectorsPassed' = 0
  BY <1>1, PlaceShows, PlaceShowsNext
<1>4. Contents' = Contents
  BY <1>1 DEF Contents
<1> QED
  BY <1>1, <1>2, <1>3, <1>4 DEF Device!Begin

LEMMA DeviceCardFinishes ==
  ASSUME SdInv, CardFinishes
  PROVE  UNCHANGED Device!deviceVars
<1>1. card \in Cards
  BY DEF SdInv, TypeOK
<1>2. card'.state = "ready"
  BY <1>1 DEF CardFinishes, Cards
<1>3. Contents' = Contents
  BY <1>2 DEF CardFinishes, Contents
<1>4. UNCHANGED <<pc, call, data, i, result>>
  BY DEF CardFinishes
<1>5. SectorsPassed' = SectorsPassed /\ Status' = Status
  BY <1>4 DEF SectorsPassed, Status, InCall
<1> QED
  BY <1>3, <1>4, <1>5, Unnoticed

LEMMA DeviceReadCommand == ASSUME SdInv, ReadCommand PROVE Device!Next
<1>1. card \in Cards
  BY DEF SdInv, TypeOK
<1>2. /\ pc = "read" /\ data' = [data EXCEPT ![i] = Blank]
      /\ store' = store /\ call' = call
  BY DEF ReadCommand
<1>3. InCall /\ SectorsPassed = i /\ Status = "pending" /\ call.op = "read"
  BY <1>2, PlaceShows DEF SdInv, CallInv, ReadPlaces
<1>4. Contents' = Contents
  BY <1>1, <1>2, ContentsKept DEF ReadCommand, Cards
<1>5. CASE Goes("readPoll")
  <2>1. SectorsPassed' = i /\ Status' = "pending"
    BY <1>5, PlaceShowsNext DEF Goes
  <2> QED
    BY <1>2, <1>3, <1>4, <2>1
       DEF Device!Next, Device!Clear, Device!Pending, Device!Fills
<1>6. CASE Returns(-1)
  <2>1. -1 \in -7 .. -1
    OBVIOUS
  <2> QED
    BY <1>2, <1>3, <1>4, <1>6, <2>1, DeviceFails
<1> QED
  BY <1>5, <1>6 DEF ReadCommand

LEMMA DeviceReadPoll ==
  ASSUME SdInv, ReadPoll PROVE Device!Next \/ UNCHANGED Device!deviceVars
<1>1. card \in Cards
  BY DEF SdInv, TypeOK
<1>2. pc = "readPoll" /\ UNCHANGED <<store, call, data>>
  BY DEF ReadPoll
<1>3. InCall /\ SectorsPassed = i /\ Status = "pending"
  BY <1>2, PlaceShows
<1>4. Contents' = Contents
  BY <1>1, <1>2, ContentsKept DEF ReadPoll, Cards
<1>5. CASE Goes("readPoll") \/ Goes("readBlock")
  <2>1. SectorsPassed' = i /\ Status' = "pending"
    BY <1>5, PlaceShowsNext DEF Goes
  <2> QED
    BY <1>2, <1>3, <1>4, <2>1, Unnoticed
<1>6. CASE Returns(-2)
  <2>1. -2 \in -7 .. -1
    OBVIOUS
  <2> QED
    BY <1>2, <1>3, <1>4, <1>6, <2>1, DeviceFails
<1> QED
  BY <1>5, <1>6 DEF ReadPoll

LEMMA DeviceReadBlock == ASSUME SdInv, ReadBlock PROVE Device!Next
<1>1. /\ pc = "readBlock" /\ data' = [data EXCEPT ![i] = store[call.sector + i]]
      /\ card' = [card EXCEPT !.reading = FALSE] /\ Returns(0)
      /\ store' = store /\ call' = call
  BY DEF ReadBlock
<1>2. card \in Cards /\ card.state = "ready" /\ call.sector + i \in Sectors
  BY <1>1 DEF SdInv, TypeOK, CardInv
<1>3. Contents = store /\ Contents' = store
  BY <1>1, <1>2 DEF Contents, Cards
<1>4. InCall /\ SectorsPassed = i /\ Status = "pending" /\ call.op = "read"
  BY <1>1, PlaceShows DEF SdInv, CallInv, ReadPlaces
<1>5. \/ i + 1 < call.count /\ SectorsPassed' = i + 1 /\ Status' = "pending"
      \/ i + 1 = call.count /\ SectorsPassed' = 0 /\ Status' = "success"
  BY <1>1, <1>4, ReturnsSuccess
<1> QED
  BY <1>1, <1>2, <1>3, <1>4, <1>5
     DEF Device!Next, Device!Read, Device!Pending, Device!Here, Device!Fills,
         Device!Return

LEMMA DeviceWriteCommand ==
  ASSUME SdInv, WriteCommand PROVE Device!Next \/ UNCHANGED Device!deviceVars
<1>1. card \in Cards
  BY DEF SdInv, TypeOK
<1>2. pc = "write" /\ UNCHANGED <<store, call, data>>
  BY DEF WriteCommand
<1>3. InCall /\ SectorsPassed = i /\ Status = "pending"
  BY <1>2, PlaceShows
<1>4. Contents' = Contents
  BY <1>1, <1>2, ContentsKept DEF WriteCommand, Cards
<1>5. CASE Goes("writeBlock")
  <2>1. SectorsPassed' = i /\ Status' = "pending"
    BY <1>5, PlaceShowsNext DEF Goes
  <2> QED
    BY <1>2, <1>3, <1>4, <2>1, Unnoticed
<1>6. CASE Returns(-1)
  <2>1. -1 \in -7 .. -1
    OBVIOUS
  <2> QED
    BY <1>2, <1>3, <1>4, <1>6, <2>1, DeviceFails
<1> QED
  BY <1>5, <1>6 DEF WriteCommand

LEMMA DeviceWriteBlock == ASSUME SdInv, WriteBlock PROVE Device!Next
<1>1. card \in Cards /\ call.count \in Nat /\ i \in Nat
  BY DEF SdInv, TypeOK
<1>2. pc = "writeBlock" /\ UNCHANGED <<store, call, data>>
  BY DEF WriteBlock
<1>3. /\ InCall /\ SectorsPassed = i /\ Status = "pending"
      /\ call.op = "write" /\ i < call.count
  BY <1>2, PlaceShows DEF SdInv, CallInv, WritePlaces
<1>4. CASE TakesBlock /\ Goes("writePoll")
  <2>1. card.state = "ready" /\ call.sector + i \in Sectors
    BY <1>4 DEF SdInv, CardInv, TakesBlock
  <2>2. card'.state = "busy" /\ card'.job = [sector |-> call.sector + i, value |-> data[i]]
    BY <1>1, <1>4 DEF TakesBlock, Cards
  <2>3. card'.job.sector = call.sector + i /\ card'.job.value = data[i]
    BY <2>2
  <2>4. Contents = store /\ Contents' = [store EXCEPT ![call.sector + i] = data[i]]
    BY <1>2, <2>1, <2>2, <2>3 DEF Contents
  <2>5. SectorsPassed' = i + 1 /\ Status' = "pending"
    BY <1>4, PlaceShowsNext DEF Goes
  <2> QED
    BY <1>2, <1>3, <2>1, <2>4, <2>5
       DEF Device!Next, Device!Write, Device!Pending, Device!Here
<1>5. CASE IgnoresBlock /\ Returns(-2)
  <2>1. Contents' = Contents
    BY <1>1, <1>2, <1>5, ContentsKept DEF IgnoresBlock, Cards
  <2>2. -2 \in -7 .. -1
    OBVIOUS
  <2> QED
    BY <1>2, <1>3, <1>5, <2>1, <2>2, DeviceFails
<1> QED
  BY <1>4, <1>5 DEF WriteBlock

LEMMA DeviceWritePoll ==
  ASSUME SdInv, WritePoll PROVE Device!Next \/ UNCHANGED Device!deviceVars
<1>1. pc = "writePoll" /\ UNCHANGED <<card, store, call, data>>
  BY DEF WritePoll
<1>2. InCall /\ SectorsPassed = i + 1 /\ Status = "pending" /\ call.op = "write"
  BY <1>1, PlaceShows DEF SdInv, CallInv, WritePlaces
<1>3. Contents' = Contents
  BY <1>1 DEF Contents
<1>4. CASE Returns(0)
  <2>1. CASE SectorsPassed' = i + 1 /\ Status' = "pending"
    BY <1>1, <1>2, <1>3, <2>1, Unnoticed
  <2>2. CASE i + 1 = call.count /\ SectorsPassed' = 0 /\ Status' = "success"
    BY <1>1, <1>2, <1>3, <2>2
       DEF Device!Next, Device!Written, Device!Pending, Device!Return
  <2> QED
    BY <1>1, <1>2, <1>4, <2>1, <2>2, ReturnsSuccess
<1>5. CASE Goes("writePoll")
  <2>1. SectorsPassed' = i + 1 /\ Status' = "pending"
    BY <1>5, PlaceShowsNext DEF Goes
  <2> QED
    BY <1>1, <1>2, <1>3, <2>1, Unnoticed
<1>6. CASE Returns(-3)
  <2>1. -3 \in -7 .. -1
    OBVIOUS
  <2> QED
    BY <1>1, <1>2, <1>3, <1>6, <2>1, DeviceFails
<1> QED
  BY <1>4, <1>5, <1>6 DEF WritePoll

LEMMA DeviceStep ==
  SdInv /\ [Next]_vars => [Device!Next]_(Device!deviceVars)
<1> SUFFICES ASSUME SdInv, [Next]_vars
             PROVE  Device!Next \/ UNCHANGED Device!deviceVars
  OBVIOUS
<1>1. CASE Driver
  BY <1>1, DeviceStart, DeviceReadCommand, DeviceReadPoll, DeviceReadBlock,
     DeviceWriteCommand, DeviceWriteBlock, DeviceWritePoll DEF Driver
<1>2. CASE CardFinishes
  BY <1>2, DeviceCardFinishes
<1>3. ASSUME NEW op \in {"read", "write"}, NEW s \in 0 .. LastSector + 1,
             NEW multi \in BOOLEAN, NEW n \in 1 .. MaxCount \cup {1},
             Call(op, multi, s, n)
      PROVE  Device!Next
  <2>1. s \in Nat /\ n \in Nat \ {0}
    BY SdAssumption
  <2> QED
    BY <1>3, <2>1, DeviceCall DEF Device!Next
<1>4. ASSUME NEW op \in {"read", "write"}, NEW s \in 0 .. LastSector + 1,
             Call(op, FALSE, s, 1) \/ \E n \in 1 .. MaxCount : Call(op, TRUE, s, n)
      PROVE  Device!Next
  <2>1. CASE Call(op, FALSE, s, 1)
    <3> DEFINE one == 1
    <3>1. one \in 1 .. MaxCount \cup {1} /\ Call(op, FALSE, s, one)
      BY <2>1
    <3> HIDE DEF one
    <3> QED
      BY <1>3, <3>1
  <2> QED
    BY <1>3, <1>4, <2>1
<1>5. CASE UNCHANGED vars
  <2>1. Contents' = Contents /\ SectorsPassed' = SectorsPassed /\ Status' = Status
    BY <1>5 DEF vars, Contents, SectorsPassed, Status, InCall
  <2> QED
    BY <1>5, <2>1, Unnoticed DEF vars
<1> QED
  BY <1>1, <1>2, <1>4, <1>5 DEF Next

(***************************************************************************)
(* The SD card driver is a block device: each sector is read or written at *)
(* one moment between the beginning and the end of its call, in order,     *)
(* whatever the card refuses, delays or is busy with, and no block of a    *)
(* call that was given up reaches the card behind it (spi_microsd.c 117 to *)
(* 214).                                                                   *)
(***************************************************************************)
THEOREM SdImplementsBlockDevice == Spec => SdIsBlockDevice
BY DeviceInit, DeviceStep, SdInvariant, PTL DEF Spec, SdIsBlockDevice, Device!Spec

=============================================================================
