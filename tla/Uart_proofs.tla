----------------------------- MODULE Uart_proofs -----------------------------
(***************************************************************************)
(* A write is offered to the UART for one cycle, and always in a cycle in  *)
(* which the UART takes it; and what the line carries is what was written: *)
(* for every bit time, number of bits and character.                       *)
(***************************************************************************)
EXTENDS Uart, SequenceTheorems, TLAPS

LEMMA InitInv == Init => OfferInv
BY DEF Init, BridgeInit, OfferInv, BridgeInv, MiniInv, Awaited, BridgeState

(* What an edge does to the bridge.                                        *)
LEMMA BridgeStep ==
  ASSUME BridgeInv, BridgeTick(r_tx_ready /\ dphase.dev = Dev, 0)
  PROVE  /\ BridgeInv'
         /\ apb_state = "WR1" => apb_state' = "WR2" /\ dphase' = dphase
         /\ apb_state = "WR2" /\ dphase.dev = Dev /\ ~r_tx_ready
              => apb_state' = "WR2" /\ dphase' = dphase
         /\ Awaited /\ r_tx_ready => apb_state' # "WR2"
         /\ apb_state \notin {"WR1", "WR2"} => apb_state' # "WR2"
         /\ apb_state = "WR2" /\ dphase.dev # Dev => dphase' = dphase \/ apb_state' # "WR2"
<1>1. CASE ahbls_hready_resp
  <2>1. PICK t \in Transfer \cup {NoTransfer} :
          /\ dphase' = t
          /\ apb_state' = IF t = NoTransfer THEN "IDLE"
                          ELSE IF t.write THEN "WR0" ELSE "RD0"
    BY <1>1 DEF BridgeTick, setup
  <2>. QED
    BY <1>1, <2>1 DEF BridgeInv, BridgeState, Awaited, ahbls_hready_resp
<1>2. CASE ~ahbls_hready_resp
  <2>1. apb_state' = AfterCycle(r_tx_ready /\ dphase.dev = Dev) /\ dphase' = dphase
    BY <1>2 DEF BridgeTick
  <2>2. apb_state \in {"WR0", "WR1", "WR2", "RD0", "RD1", "ERR0"}
    BY <1>2 DEF BridgeInv, BridgeState, ahbls_hready_resp
  <2>3. CASE apb_state \in {"WR0", "WR1", "RD0", "ERR0"}
    BY <2>1, <2>3 DEF BridgeInv, BridgeState, AfterCycle, Awaited
  <2>4. CASE apb_state = "RD1"
    BY <2>1, <2>4 DEF BridgeInv, BridgeState, Awaited, AfterCycle, Answered, apbs_pready
  <2>5. CASE apb_state = "WR2"
    <3>1. apb_state' = IF dphase.dev = NoDevice THEN "ERR0"
                       ELSE IF r_tx_ready /\ dphase.dev = Dev THEN "WR3" ELSE "WR2"
      BY <2>1, <2>5 DEF AfterCycle, Answered, apbs_pready
    <3>. QED
      BY <2>1, <2>5, <3>1, DevAssumption DEF BridgeInv, BridgeState, Awaited
  <2>. QED BY <2>2, <2>3, <2>4, <2>5
<1>. QED BY <1>1, <1>2

(* A write is at the UART in the state WR1 of the bridge only.             *)
LEMMA WhenOffered ==
  ASSUME BridgeInv
  PROVE  /\ wr_cmd => apb_state = "WR1" /\ dphase.dev = Dev
         /\ apb_state = "WR1" /\ dphase.dev = Dev => wr_cmd
BY DEF BridgeInv, wr_cmd, bus_write, Offered

LEMMA OfferedReady == OfferInv => OfferedWhenReady
BY WhenOffered DEF OfferInv, MiniInv, Awaited, OfferedWhenReady, w_tx_ready

(* The UART, by its state.                                                 *)
LEMMA MiniStep ==
  ASSUME OfferInv, Tick
  PROVE  MiniInv'
<1>. USE DEF OfferInv
<1>1. /\ BridgeInv /\ MiniInv /\ MiniTick /\ TxTick
      /\ BridgeTick(r_tx_ready /\ dphase.dev = Dev, 0)
  BY DEF Tick
<1>2. state \in 0 .. 2
  BY <1>1 DEF MiniInv
<1>3. CASE state = 0 /\ wr_cmd
  <2>1. Taken /\ ~Given /\ ~Sent /\ ~r_uart_we /\ ~r_tx_ready
    BY <1>1, <1>3, WhenOffered DEF Taken, Given, Sent, MiniInv, Awaited, w_tx_ready
  <2>2. state' = 1
    BY <1>1, <2>1 DEF MiniTick
  <2>3. ~r_tx_ready'
    BY <1>1, <2>1 DEF MiniTick
  <2>4. Awaited'
    BY <1>1, <1>3, WhenOffered, BridgeStep DEF Awaited
  <2>. QED BY <2>2, <2>3, <2>4 DEF MiniInv
<1>4. CASE state = 0 /\ ~wr_cmd
  <2>1. ~Taken /\ ~Given /\ ~Sent /\ READY /\ ~r_uart_we
    BY <1>1, <1>4 DEF Taken, Given, Sent, MiniInv
  <2>2. state' = 0
    BY <1>1, <1>4, <2>1 DEF MiniTick
  <2>3. ~r_tx_ready' /\ ~r_uart_we'
    BY <1>1, <1>4, <2>1 DEF MiniTick
  <2>4. READY'
    BY <1>1, <2>1 DEF TxTick
  <2>5. ~Awaited'
    <3>1. Awaited => r_tx_ready
      BY <1>1, <1>4 DEF MiniInv
    <3>2. ~(apb_state = "WR1" /\ dphase.dev = Dev)
      BY <1>1, <1>4, WhenOffered
    <3>. QED BY <1>1, <3>1, <3>2, BridgeStep DEF Awaited
  <2>. QED BY <2>2, <2>3, <2>4, <2>5 DEF MiniInv
<1>5. CASE state # 0
  <2>1. Awaited /\ ~r_tx_ready /\ ~wr_cmd /\ ~Taken
    BY <1>1, <1>5, WhenOffered DEF MiniInv, Awaited, Taken
  <2>2. Awaited'
    BY <1>1, <2>1, BridgeStep DEF Awaited
  <2>3. CASE Sent
    <3>1. READY /\ ~r_uart_we /\ ~Given
      BY <1>1, <2>3 DEF Sent, MiniInv, w_tx_ready, Given
    <3>2. state' = 0
      BY <1>1, <2>1, <2>3, <3>1 DEF MiniTick
    <3>3. r_tx_ready'
      BY <1>1, <2>3 DEF MiniTick
    <3>4. ~r_uart_we'
      BY <1>1, <2>1, <3>1 DEF MiniTick
    <3>5. READY'
      BY <1>1, <3>1 DEF TxTick
    <3>. QED BY <2>2, <3>2, <3>3, <3>4, <3>5 DEF MiniInv
  <2>4. CASE ~Sent
    <3>1. ~r_tx_ready'
      BY <1>1, <2>1, <2>4 DEF MiniTick
    <3>2. state' \in {1, 2}
      BY <1>1, <1>2, <1>5, <2>1, <2>4 DEF MiniTick
    <3>3. state' = 2 => Given \/ state = 2
      BY <1>1, <2>1, <2>4 DEF MiniTick
    <3>4. Given => ~r_uart_we'
      BY <1>1, <2>1 DEF MiniTick
    <3>5. state = 2 => ~r_uart_we'
      BY <1>1, <2>1 DEF MiniTick, MiniInv
    <3>. QED BY <2>2, <3>1, <3>2, <3>3, <3>4, <3>5 DEF MiniInv
  <2>. QED BY <2>3, <2>4
<1>. QED BY <1>3, <1>4, <1>5

LEMMA NextInv == OfferInv /\ [Tick]_vars => OfferInv'
<1>1. ASSUME OfferInv, Tick PROVE OfferInv'
  BY <1>1, MiniStep, BridgeStep DEF OfferInv, Tick
<1>2. ASSUME OfferInv, UNCHANGED vars PROVE OfferInv'
  BY <1>2 DEF OfferInv, BridgeInv, MiniInv, Awaited, vars, bridgeVars, miniVars, txVars
<1>. QED BY <1>1, <1>2

(* uart_mini.v:55, ahbl_to_apb.v:94: no write of a character is ever       *)
(* offered to a UART that does not take it, however the harts write.       *)
THEOREM WritesTaken == Spec => []OfferedWhenReady
BY InitInv, NextInv, OfferedReady, PTL DEF Spec
-----------------------------------------------------------------------------
(* The times of the line.                                                  *)
W == SERIAL_WCNT
h == SERIAL_WCNT \div 2

LEMMA HalfBit == W \in Nat /\ h \in Nat /\ W > 1 /\ h > 0 /\ h < W
BY UartAssumption DEF W, h

LEMMA Edges ==
  ASSUME NEW n \in Nat
  PROVE  n * W \in Nat /\ (n + 1) * W = n * W + W /\ 0 * W = 0 /\ 1 * W = W
BY HalfBit

LEMMA LaterEdge ==
  ASSUME NEW m \in Nat, NEW n \in Nat, m < n
  PROVE  m * W + W <= n * W
<1>1. PICK d \in Nat : n = m + 1 + d
  <2>1. n - (m + 1) \in Nat /\ n = m + 1 + (n - (m + 1)) OBVIOUS
  <2>. QED BY <2>1
<1>2. n * W = m * W + W + d * W
  BY <1>1, HalfBit
<1>3. m * W \in Nat /\ n * W \in Nat /\ d * W \in Nat
  BY Edges
<1>. HIDE DEF W
<1>. QED BY <1>2, <1>3, HalfBit

(* In the cycle o of the bit n the receiver samples iff o is the middle.   *)
LEMMA Sampling ==
  ASSUME NEW n \in 0 .. NBITS, NEW o \in 0 .. W - 1, rxage = n * W + o
  PROVE  /\ rxage \in Nat /\ rxage < StopEdge /\ ~Framed
         /\ (\E k \in 1 .. NBITS : Middle(k)) <=> n # 0 /\ o = h
         /\ rxage = 0 <=> n = 0 /\ o = 0
<1>. USE UartAssumption
<1>1. StopEdge \in Nat /\ StopEdge = (NBITS + 1) * W /\ n * W + W <= StopEdge
  BY LaterEdge, Edges, NBITS + 1 \in Nat, n < NBITS + 1, n \in Nat DEF StopEdge, W
<1>2. n * W \in Nat /\ W \in Nat /\ h \in Nat /\ h < W /\ h > 0
  BY HalfBit, Edges
<1>3. rxage \in Nat /\ rxage < StopEdge
  BY <1>1, <1>2
<1>4. ~Framed
  BY <1>1, <1>2, <1>3 DEF Framed, Middle, W, h
<1>5. ASSUME NEW k \in 1 .. NBITS PROVE Middle(k) <=> k = n /\ o = h
  <2>1. k * W \in Nat /\ (Middle(k) <=> rxage = k * W + h)
    BY Edges DEF Middle, W, h
  <2>2. CASE k < n
    <3>1. k * W + W <= n * W BY <2>2, LaterEdge
    <3>. QED BY <1>2, <2>1, <2>2, <3>1
  <2>3. CASE n < k
    <3>1. n * W + W <= k * W BY <2>3, LaterEdge
    <3>. QED BY <1>2, <2>1, <2>3, <3>1
  <2>4. CASE k = n
    BY <1>2, <2>1, <2>4
  <2>. QED BY <2>2, <2>3, <2>4
<1>6. (\E k \in 1 .. NBITS : Middle(k)) <=> n # 0 /\ o = h
  <2>1. n # 0 => n \in 1 .. NBITS OBVIOUS
  <2>. QED BY <1>5, <2>1
<1>7. rxage = 0 <=> n = 0 /\ o = 0
  <2>1. n = 0 => n * W = 0 BY Edges
  <2>2. n # 0 => n * W >= W
    <3>1. n # 0 => 0 * W + W <= n * W BY LaterEdge, 0 \in Nat, n \in Nat
    <3>. QED BY <3>1, Edges, <1>2
  <2>. QED BY <1>2, <2>1, <2>2
<1>. QED BY <1>3, <1>4, <1>6, <1>7

(* In the stop bit nothing is sampled but the stop bit.                    *)
LEMMA AtTheStop ==
  ASSUME rxage \in StopEdge .. StopEdge + h
  PROVE  /\ rxage \in Nat /\ rxage # 0
         /\ ~\E k \in 1 .. NBITS : Middle(k)
         /\ Framed <=> rxage = StopEdge + h
<1>. USE UartAssumption
<1>1. StopEdge \in Nat /\ StopEdge = (NBITS + 1) * W
  BY Edges, NBITS + 1 \in Nat DEF StopEdge, W
<1>2. W \in Nat /\ h \in Nat /\ h < W /\ W > 1
  BY HalfBit
<1>3. StopEdge >= W
  <2>1. 0 * W + W <= StopEdge
    BY <1>1, LaterEdge, 0 \in Nat, NBITS + 1 \in Nat, 0 < NBITS + 1
  <2>. QED BY <2>1, Edges, <1>1, <1>2
<1>4. ASSUME NEW k \in 1 .. NBITS PROVE ~Middle(k)
  <2>1. k * W \in Nat /\ (Middle(k) <=> rxage = k * W + h)
    BY Edges DEF Middle, W, h
  <2>2. k * W + W <= StopEdge
    BY <1>1, LaterEdge, k \in Nat, NBITS + 1 \in Nat, k < NBITS + 1
  <2>. QED BY <1>1, <1>2, <2>1, <2>2
<1>5. Framed <=> rxage = StopEdge + h
  BY <1>1 DEF Framed, Middle, W, h
<1>. QED BY <1>1, <1>2, <1>3, <1>4, <1>5

(* Nor while the receiver waits for a start bit.                           *)
LEMMA AtRest ==
  ASSUME rxage = 0
  PROVE  ~Framed /\ rxage < StopEdge /\ ~\E k \in 1 .. NBITS : Middle(k)
<1>1. 0 * W + 0 = 0 /\ 0 \in 0 .. W - 1 /\ 0 \in 0 .. NBITS /\ 0 # h
  BY Edges, HalfBit, UartAssumption
<1>. QED BY <1>1, Sampling
-----------------------------------------------------------------------------
(* The sequences: the frame of a character, and the bits of one.           *)
LEMMA CharIsSeq ==
  ASSUME NEW c \in Char
  PROVE  c \in Seq({0, 1}) /\ Len(c) = NBITS /\ DOMAIN c = 1 .. NBITS
<1>1. c \in Seq({0, 1})
  BY SeqDef, UartAssumption DEF Char
<1>. QED BY <1>1, LenProperties, UartAssumption DEF Char

LEMMA FrameIs ==
  ASSUME r_uart_data \in Char
  PROVE  /\ Frame \in [1 .. NBITS + 1 -> {0, 1}]
         /\ Frame[1] = 0
         /\ \A i \in 1 .. NBITS : Frame[i + 1] = r_uart_data[i]
<1>1. /\ r_uart_data \in Seq({0, 1}) /\ Len(r_uart_data) = NBITS
      /\ DOMAIN r_uart_data = 1 .. NBITS
  BY CharIsSeq
<1>2. <<0>> \in Seq({0, 1}) /\ Len(<<0>>) = 1 /\ <<0>>[1] = 0
  OBVIOUS
<1>3. /\ Frame \in Seq({0, 1}) /\ Len(Frame) = 1 + NBITS
      /\ \A i \in 1 .. 1 + NBITS : Frame[i] = IF i <= 1 THEN <<0>>[i] ELSE r_uart_data[i - 1]
  BY <1>1, <1>2, ConcatProperties, UartAssumption DEF Frame
<1>4. Frame \in [1 .. NBITS + 1 -> {0, 1}]
  BY <1>3, LenProperties, UartAssumption
<1>. QED BY <1>2, <1>3, <1>4, UartAssumption

(* The first m bits of a character, and one more.                          *)
LEMMA OneBitMore ==
  ASSUME NEW c \in Char, NEW m \in 0 .. NBITS - 1, NEW s, s = [i \in 1 .. m |-> c[i]]
  PROVE  Append(s, c[m + 1]) = [i \in 1 .. m + 1 |-> c[i]]
<1>1. s \in [1 .. m -> {0, 1}] /\ c[m + 1] \in {0, 1}
  BY UartAssumption DEF Char
<1>2. s \in Seq({0, 1})
  BY <1>1, SeqDef, UartAssumption
<1>3. Len(s) = m
  BY <1>1, <1>2, LenProperties, UartAssumption
<1>4. /\ Append(s, c[m + 1]) \in Seq({0, 1}) /\ Len(Append(s, c[m + 1])) = m + 1
      /\ \A i \in 1 .. m : Append(s, c[m + 1])[i] = s[i]
      /\ Append(s, c[m + 1])[m + 1] = c[m + 1]
  BY <1>1, <1>2, <1>3, AppendProperties
<1>5. Append(s, c[m + 1]) \in [1 .. m + 1 -> {0, 1}]
  BY <1>4, LenProperties
<1>. QED BY <1>4, <1>5, UartAssumption

LEMMA AllBits ==
  ASSUME NEW c \in Char
  PROVE  [i \in 1 .. NBITS |-> c[i]] = c
BY DEF Char

LEMMA LengthOfBits ==
  ASSUME NEW c \in Char, NEW m \in 0 .. NBITS
  PROVE  Len([i \in 1 .. m |-> c[i]]) = m
<1>1. [i \in 1 .. m |-> c[i]] \in [1 .. m -> {0, 1}]
  BY UartAssumption DEF Char
<1>2. [i \in 1 .. m |-> c[i]] \in Seq({0, 1})
  BY <1>1, SeqDef, UartAssumption
<1>. QED BY <1>1, <1>2, LenProperties, UartAssumption

(* The register shifted by one.                                            *)
LEMMA OnShift ==
  ASSUME NEW n \in Nat \ {0}, NEW q \in [1 .. n -> {0, 1}]
  PROVE  /\ Append(Tail(q), 1) \in [1 .. n -> {0, 1}]
         /\ \A i \in 1 .. n - 1 : Append(Tail(q), 1)[i] = q[i + 1]
         /\ Append(Tail(q), 1)[n] = 1
<1>1. q \in Seq({0, 1})
  BY SeqDef
<1>2. Len(q) = n /\ q # <<>>
  BY <1>1, LenProperties, EmptySeq
<1>3. Tail(q) \in Seq({0, 1}) /\ Len(Tail(q)) = Len(q) - 1
  BY <1>1, <1>2, HeadTailProperties
<1>4. \A i \in 1 .. Len(Tail(q)) : Tail(q)[i] = q[i + 1]
  BY <1>1, <1>2, HeadTailProperties
<1>5. Len(Tail(q)) = n - 1 /\ 1 \in {0, 1}
  BY <1>2, <1>3
<1>6. /\ Append(Tail(q), 1) \in Seq({0, 1})
      /\ Len(Append(Tail(q), 1)) = Len(Tail(q)) + 1
      /\ \A i \in 1 .. Len(Tail(q)) : Append(Tail(q), 1)[i] = Tail(q)[i]
      /\ Append(Tail(q), 1)[Len(Tail(q)) + 1] = 1
  BY <1>3, <1>5, AppendProperties
<1>7. Append(Tail(q), 1) \in [1 .. n -> {0, 1}]
  <2>1. Len(Append(Tail(q), 1)) = n
    BY <1>5, <1>6
  <2>. QED BY <1>6, <2>1, LenProperties
<1>. QED BY <1>4, <1>5, <1>6, <1>7

LEMMA OnShiftOfCmd ==
  cmd \in [1 .. NBITS + 1 -> {0, 1}] =>
    /\ Append(Tail(cmd), 1) \in [1 .. NBITS + 1 -> {0, 1}]
    /\ \A i \in 1 .. NBITS : Append(Tail(cmd), 1)[i] = cmd[i + 1]
    /\ Append(Tail(cmd), 1)[NBITS + 1] = 1
<1>1. NBITS + 1 \in Nat \ {0} /\ (NBITS + 1) - 1 = NBITS
  BY UartAssumption
<1>. QED BY <1>1, OnShift

LEMMA Shifted ==
  ASSUME NEW s \in [1 .. NBITS + 1 -> {0, 1}], NEW k \in 0 .. NBITS + 1,
         cmd = [i \in 1 .. NBITS + 1 |-> IF i + k <= NBITS + 1 THEN s[i + k] ELSE 1]
  PROVE  /\ cmd[1] = IF k <= NBITS THEN s[k + 1] ELSE 1
         /\ Append(Tail(cmd), 1) =
              [i \in 1 .. NBITS + 1 |->
                 IF i + (k + 1) <= NBITS + 1 THEN s[i + (k + 1)] ELSE 1]
<1>. USE UartAssumption
<1>. DEFINE t == Append(Tail(cmd), 1)
<1>1. cmd[1] = IF k <= NBITS THEN s[k + 1] ELSE 1
  OBVIOUS
<1>2. cmd \in [1 .. NBITS + 1 -> {0, 1}] /\ NBITS + 1 \in Nat \ {0}
  OBVIOUS
<1>3. /\ t \in [1 .. NBITS + 1 -> {0, 1}] /\ t[NBITS + 1] = 1
      /\ \A i \in 1 .. NBITS : t[i] = cmd[i + 1]
  BY <1>2, OnShiftOfCmd
<1>. HIDE DEF t
<1>4. ASSUME NEW i \in 1 .. NBITS + 1
      PROVE  t[i] = IF i + (k + 1) <= NBITS + 1 THEN s[i + (k + 1)] ELSE 1
  <2>1. CASE i \in 1 .. NBITS
    <3>1. t[i] = cmd[i + 1] /\ i + 1 \in 1 .. NBITS + 1
      BY <1>3, <2>1
    <3>2. cmd[i + 1] = IF (i + 1) + k <= NBITS + 1 THEN s[(i + 1) + k] ELSE 1
      BY <3>1
    <3>3. (i + 1) + k = i + (k + 1) OBVIOUS
    <3>. QED BY <3>1, <3>2, <3>3
  <2>2. CASE i = NBITS + 1
    BY <1>3, <2>2
  <2>. QED BY <2>1, <2>2
<1>5. t = [i \in 1 .. NBITS + 1 |->
             IF i + (k + 1) <= NBITS + 1 THEN s[i + (k + 1)] ELSE 1]
  BY <1>3, <1>4
<1>. QED BY <1>1, <1>5 DEF t
-----------------------------------------------------------------------------
(* The queue of the characters on their way has two places.                *)
LEMMA Queue ==
  ASSUME NEW a, NEW b
  PROVE  /\ <<a>> \o <<b>> = <<a, b>> /\ <<a>> \o <<>> = <<a>>
         /\ <<>> \o <<b>> = <<b>> /\ <<>> \o <<>> = <<>>
         /\ Tail(<<a, b>>) = <<b>> /\ Tail(<<a>>) = <<>>
         /\ Append(<<a>>, b) = <<a, b>> /\ Append(<<>>, b) = <<b>>
         /\ Head(<<a, b>>) = a /\ Head(<<a>>) = a
         /\ <<a, b>> # <<>> /\ <<a>> # <<>>
         /\ Len(<<a, b>>) = 2 /\ Len(<<a>>) = 1 /\ Len(<<>>) = 0
<1>1. <<a>> \o <<b>> = <<a, b>>
  <2>1. <<a>> \in Seq({a, b}) /\ <<b>> \in Seq({a, b}) /\ <<a, b>> \in Seq({a, b})
    OBVIOUS
  <2>2. /\ Len(<<a>>) = 1 /\ Len(<<b>>) = 1 /\ Len(<<a, b>>) = 2
        /\ <<a>>[1] = a /\ <<b>>[1] = b /\ <<a, b>>[1] = a /\ <<a, b>>[2] = b
    OBVIOUS
  <2>3. /\ <<a>> \o <<b>> \in Seq({a, b}) /\ Len(<<a>> \o <<b>>) = Len(<<a>>) + Len(<<b>>)
        /\ \A i \in 1 .. Len(<<a>>) + Len(<<b>>) :
             (<<a>> \o <<b>>)[i] = IF i <= Len(<<a>>) THEN <<a>>[i] ELSE <<b>>[i - Len(<<a>>)]
    BY <2>1, ConcatProperties
  <2>. DEFINE s == <<a>> \o <<b>>  t == <<a, b>>
  <2>4. Len(s) = 2 /\ \A i \in 1 .. 2 : s[i] = t[i]
    <3>1. Len(s) = 2 BY <2>2, <2>3
    <3>2. s[1] = a BY <2>2, <2>3, 1 \in 1 .. 1 + 1
    <3>3. s[2] = b BY <2>2, <2>3, 2 \in 1 .. 1 + 1, 2 - 1 = 1, ~(2 <= 1)
    <3>4. \A i \in 1 .. 2 : i = 1 \/ i = 2 OBVIOUS
    <3>. QED BY <2>2, <3>1, <3>2, <3>3, <3>4
  <2>5. s \in Seq({a, b}) /\ t \in Seq({a, b}) /\ Len(s) = Len(t)
    BY <2>1, <2>2, <2>3, <2>4
  <2>. HIDE DEF s, t
  <2>6. s = t
    BY <2>4, <2>5, SeqEqual
  <2>. QED BY <2>6 DEF s, t
<1>2. <<a>> \o <<>> = <<a>> OBVIOUS
<1>3. <<>> \o <<b>> = <<b>> OBVIOUS
<1>4. <<>> \o <<>> = <<>> OBVIOUS
<1>5. Tail(<<a, b>>) = <<b>> OBVIOUS
<1>6. Tail(<<a>>) = <<>> OBVIOUS
<1>7. Append(<<a>>, b) = <<a, b>>
  <2>1. <<a>> \in Seq({a, b}) /\ b \in {a, b} OBVIOUS
  <2>. QED BY <1>1, <2>1, AppendIsConcat
<1>8. Append(<<>>, b) = <<b>> OBVIOUS
<1>9. Head(<<a, b>>) = a /\ Head(<<a>>) = a OBVIOUS
<1>10. <<a, b>> # <<>> /\ <<a>> # <<>> OBVIOUS
<1>11. Len(<<a, b>>) = 2 /\ Len(<<a>>) = 1 /\ Len(<<>>) = 0 OBVIOUS
<1>. QED BY <1>1, <1>2, <1>3, <1>4, <1>5, <1>6, <1>7, <1>8, <1>9, <1>10, <1>11

(* What uart_mini does in a cycle, seen from the line.                     *)
LEMMA ControlStep ==
  ASSUME OfferInv, DataInv, Tick
  PROVE  /\ wr_cmd => state = 0 /\ READY /\ state' = 1 /\ r_uart_data' = apbm_pwdata
         /\ ~wr_cmd => r_uart_data' = r_uart_data
         /\ ~wr_cmd /\ state = 1 /\ READY => state' = 1
         /\ ~wr_cmd /\ state' = 1 => state = 1 /\ READY
         /\ r_uart_we => state = 1
         /\ state = 1 => r_uart_we
         /\ state' = 1 => r_uart_we'
<1>1. MiniTick /\ OfferedWhenReady /\ state \in 0 .. 2
  BY OfferedReady DEF Tick, OfferInv, MiniInv
<1>2. (r_uart_we => state = 1) /\ (state = 1 => r_uart_we)
  <2>1. state = 0 \/ state = 1 \/ state = 2 BY <1>1
  <2>. QED BY <2>1 DEF OfferInv, MiniInv, DataInv
<1>3. CASE wr_cmd
  <2>1. state = 0 /\ READY /\ Taken
    BY <1>1, <1>3 DEF OfferedWhenReady, Taken, w_tx_ready
  <2>2. state' = 1 /\ r_uart_data' = apbm_pwdata
    BY <1>1, <2>1 DEF MiniTick
  <2>3. r_uart_we'
    BY <1>1, <2>1 DEF MiniTick
  <2>. QED BY <1>2, <1>3, <2>1, <2>2, <2>3
<1>4. CASE ~wr_cmd
  <2>1. ~Taken
    BY <1>4 DEF Taken
  <2>2. r_uart_data' = r_uart_data
    BY <1>1, <2>1 DEF MiniTick
  <2>3. state = 1 /\ READY => state' = 1
    BY <1>1, <2>1 DEF MiniTick, Given, Sent, w_tx_ready
  <2>4. state' = 1 => state = 1 /\ READY
    BY <1>1, <2>1 DEF MiniTick, Given, Sent, w_tx_ready
  <2>5. state = 1 /\ READY => r_uart_we'
    BY <1>1, <1>2 DEF MiniTick, Given, w_tx_ready
  <2>. QED BY <1>2, <1>4, <2>2, <2>3, <2>4, <2>5
<1>. QED BY <1>3, <1>4

(* The receiver in a cycle without a bit to read.                          *)
LEMMA WaitRx ==
  ASSUME LineInv, OfferInv, Tick, Waiting
  PROVE  /\ rxage \in Nat
         /\ rxage = 0 \/ rxage = StopEdge + h => rxage' = 0 /\ ~Stopping'
         /\ rxage # 0 /\ rxage # StopEdge + h
              => /\ rxage' = rxage + 1 /\ rxage' \in StopEdge .. StopEdge + h
                 /\ Stopping /\ Stopping'
         /\ rxage # 0 => rxbits' = rxbits /\ Stopping
         /\ Len(rxbits') <= NBITS
         /\ pending' = IF wr_cmd
              THEN Append((IF Stopping' THEN <<rxbits'>> ELSE <<>>)
                     \o (IF InWork THEN <<r_uart_data>> ELSE <<>>), apbm_pwdata)
              ELSE (IF Stopping' THEN <<rxbits'>> ELSE <<>>)
                     \o (IF InWork THEN <<r_uart_data>> ELSE <<>>)
<1>1. /\ TypeOK /\ RxTick /\ ReadInv /\ TXD = 1
      /\ rxage = 0 \/ rxage \in StopEdge .. StopEdge + h
  BY DEF LineInv, Tick, WaitInv, h
<1>2. StopEdge \in Nat /\ StopEdge > 0 /\ h \in Nat /\ h > 0
  <2>1. StopEdge = (NBITS + 1) * W
    BY DEF StopEdge, W
  <2>2. 0 * W + W <= (NBITS + 1) * W
    BY LaterEdge, UartAssumption, 0 \in Nat, NBITS + 1 \in Nat, 0 < NBITS + 1
  <2>3. (NBITS + 1) * W \in Nat /\ 0 * W = 0
    BY Edges, UartAssumption, NBITS + 1 \in Nat
  <2>. QED BY <2>1, <2>2, <2>3, HalfBit
<1>3. /\ Stopping <=> rxage >= StopEdge
      /\ Stopping' <=> rxage' >= StopEdge
  BY DEF Stopping, StopEdge
<1>4. Len(rxbits) <= NBITS
  BY <1>1 DEF TypeOK
<1>. DEFINE new == IF InWork THEN <<r_uart_data>> ELSE <<>>
            left == IF Framed /\ pending # <<>> THEN Tail(pending) ELSE pending
<1>5. /\ pending = (IF Stopping THEN <<rxbits>> ELSE <<>>) \o new
      /\ pending' = IF wr_cmd THEN Append(left, apbm_pwdata) ELSE left
  BY <1>1 DEF ReadInv, RxTick
<1>6. CASE rxage = 0
  <2>1. ~Framed /\ ~Stopping
    BY <1>2, <1>3, <1>6, AtRest
  <2>2. rxage' = 0 /\ rxbits' = <<>>
    BY <1>1, <1>6 DEF RxTick
  <2>3. ~Stopping'
    BY <1>2, <1>3, <2>2
  <2>4. left = <<>> \o new
    BY <1>5, <2>1
  <2>5. Len(rxbits') <= NBITS
    BY <2>2, Queue, UartAssumption
  <2>. QED BY <1>2, <1>5, <1>6, <2>2, <2>3, <2>4, <2>5
<1>7. CASE rxage = StopEdge + h
  <2>1. Framed /\ Stopping /\ ~(\E k \in 1 .. NBITS : Middle(k)) /\ rxage # 0 /\ rxage \in Nat
    BY <1>2, <1>3, <1>7, AtTheStop
  <2>2. rxage' = 0 /\ rxbits' = rxbits
    BY <1>1, <2>1 DEF RxTick
  <2>3. ~Stopping'
    BY <1>2, <1>3, <2>2
  <2>4. left = <<>> \o new
    <3>1. pending = <<rxbits>> \o new BY <1>5, <2>1
    <3>2. CASE InWork
      <4>1. pending = <<rxbits, r_uart_data>> BY <3>1, <3>2, Queue
      <4>2. left = <<r_uart_data>> BY <2>1, <4>1, Queue
      <4>3. new = <<r_uart_data>> BY <3>2
      <4>. QED BY <4>2, <4>3, Queue
    <3>3. CASE ~InWork
      <4>1. pending = <<rxbits>> BY <3>1, <3>3, Queue
      <4>2. left = <<>> BY <2>1, <4>1, Queue
      <4>3. new = <<>> BY <3>3
      <4>. QED BY <4>2, <4>3, Queue
    <3>. QED BY <3>2, <3>3
  <2>. HIDE DEF left
  <2>5. pending' = IF wr_cmd
          THEN Append((IF Stopping' THEN <<rxbits'>> ELSE <<>>) \o new, apbm_pwdata)
          ELSE (IF Stopping' THEN <<rxbits'>> ELSE <<>>) \o new
    BY <1>5, <2>3, <2>4
  <2>. QED BY <1>4, <1>7, <2>1, <2>2, <2>3, <2>5
<1>8. CASE rxage # 0 /\ rxage # StopEdge + h
  <2>1. /\ ~Framed /\ Stopping /\ ~(\E k \in 1 .. NBITS : Middle(k))
        /\ rxage \in Nat /\ rxage < StopEdge + h
    BY <1>1, <1>2, <1>3, <1>8, AtTheStop
  <2>2. rxage' = rxage + 1 /\ rxbits' = rxbits
    BY <1>1, <1>8, <2>1 DEF RxTick
  <2>3. rxage' \in StopEdge .. StopEdge + h /\ Stopping'
    BY <1>1, <1>2, <1>3, <1>8, <2>1, <2>2
  <2>4. left = <<rxbits'>> \o new
    BY <1>5, <2>1, <2>2
  <2>. QED BY <1>4, <1>5, <1>8, <2>1, <2>2, <2>3, <2>4
<1>. QED BY <1>6, <1>7, <1>8

(* ReadInv over a cycle that begins without a start bit on the line.       *)
LEMMA WaitRead ==
  ASSUME LineInv, OfferInv, Tick, Waiting
  PROVE  ReadInv' /\ Len(pending') <= 2
<1>1. TxTick /\ ReadInv
  BY DEF Tick, LineInv
<1>2. READY' <=> READY /\ ~r_uart_we
  <2>1. CASE READY BY <1>1, <2>1 DEF TxTick
  <2>2. CASE ~READY
    <3>1. cnt # 1 BY <2>2, UartAssumption DEF Waiting
    <3>. QED BY <1>1, <2>2, <3>1 DEF TxTick
  <2>. QED BY <2>1, <2>2
<1>3. /\ wr_cmd => ~InWork /\ InWork' /\ r_uart_data' = apbm_pwdata
      /\ ~wr_cmd => r_uart_data' = r_uart_data /\ (InWork' <=> InWork)
  BY <1>2, ControlStep DEF InWork, LineInv
<1>4. Stopping' => rxbits' \in Char
  <2>1. Stopping' => Stopping /\ rxbits' = rxbits
    BY WaitRx
  <2>. QED BY <1>1, <2>1 DEF ReadInv
<1>. DEFINE old == IF Stopping' THEN <<rxbits'>> ELSE <<>>
<1>5. pending' = IF wr_cmd
        THEN Append(old \o (IF InWork THEN <<r_uart_data>> ELSE <<>>), apbm_pwdata)
        ELSE old \o (IF InWork THEN <<r_uart_data>> ELSE <<>>)
  BY WaitRx
<1>. HIDE DEF old
<1>6. old = <<rxbits'>> \/ old = <<>>
  BY DEF old
<1>7. pending' = old \o (IF InWork' THEN <<r_uart_data'>> ELSE <<>>)
  <2>1. CASE wr_cmd
    <3>1. pending' = Append(old \o <<>>, apbm_pwdata)
      BY <1>3, <1>5, <2>1
    <3>2. Append(old \o <<>>, apbm_pwdata) = old \o <<apbm_pwdata>>
      <4>1. CASE old = <<>> BY <4>1, Queue
      <4>2. CASE old = <<rxbits'>>
        <5>1. <<rxbits'>> \o <<>> = <<rxbits'>>
          BY Queue
        <5>2. Append(<<rxbits'>>, apbm_pwdata) = <<rxbits', apbm_pwdata>>
          BY Queue
        <5>3. <<rxbits'>> \o <<apbm_pwdata>> = <<rxbits', apbm_pwdata>>
          BY Queue
        <5>. QED BY <4>2, <5>1, <5>2, <5>3
      <4>. QED BY <1>6, <4>1, <4>2
    <3>3. InWork' /\ r_uart_data' = apbm_pwdata
      BY <1>3, <2>1
    <3>. QED BY <3>1, <3>2, <3>3
  <2>2. CASE ~wr_cmd
    BY <1>3, <1>5, <2>2
  <2>. QED BY <2>1, <2>2
<1>8. Len(pending') <= 2
  <2>1. CASE InWork'
    <3>1. Len(<<>> \o <<r_uart_data'>>) = 1
      BY Queue
    <3>2. Len(<<rxbits'>> \o <<r_uart_data'>>) = 2
      BY Queue
    <3>. QED BY <1>6, <1>7, <2>1, <3>1, <3>2
  <2>2. CASE ~InWork'
    <3>1. Len(<<>> \o <<>>) = 0
      BY Queue
    <3>2. Len(<<rxbits'>> \o <<>>) = 1
      BY Queue
    <3>. QED BY <1>6, <1>7, <2>2, <3>1, <3>2
  <2>. QED BY <2>1, <2>2
<1>. QED BY <1>4, <1>7, <1>8 DEF ReadInv, old

LineKinds ==
  /\ TXD \in {0, 1} /\ READY \in BOOLEAN /\ cmd \in [1 .. NBITS + 1 -> {0, 1}]
  /\ waitnum \in 0 .. SERIAL_WCNT /\ cnt \in 0 .. NBITS + 2
  /\ Len(rxbits) <= NBITS /\ Len(pending) <= 2
LineStep == ShiftInv' /\ WaitInv' /\ SendInv' /\ ReadInv' /\ LineKinds'

LEMMA ReadyKind == Tick => READY' \in BOOLEAN
<1>. SUFFICES ASSUME Tick PROVE READY' \in BOOLEAN
  OBVIOUS
<1>. DEFINE done == (~READY /\ waitnum >= SERIAL_WCNT) /\ cnt = 1
<1>1. READY' = IF READY THEN ~r_uart_we ELSE done
  BY DEF Tick, TxTick
<1>. HIDE DEF done
<1>2. done \in BOOLEAN /\ (~r_uart_we) \in BOOLEAN
  BY Zenon DEF done
<1>. QED BY <1>1, <1>2, Zenon

(* The cycles, by what the transmitter does.                               *)
LEMMA Idle ==
  ASSUME LineInv, OfferInv, Tick, READY, ~r_uart_we
  PROVE  LineStep
<1>1. /\ TXD' = 1 /\ cmd' = cmd /\ waitnum' = 0 /\ cnt' = cnt
      /\ Waiting /\ TypeOK
  BY DEF Tick, TxTick, Waiting, LineInv
<1>2. READY'
  BY DEF Tick, TxTick
<1>3. Waiting'
  BY <1>2 DEF Waiting
<1>4. ShiftInv' /\ SendInv'
  BY <1>2, <1>3 DEF ShiftInv, SendInv
<1>5. WaitInv'
  <2>1. rxage' = 0 \/ rxage' \in StopEdge .. StopEdge + h
    BY <1>1, WaitRx
  <2>2. rxage' = 0 \/ rxage' \in StopEdge' .. StopEdge' + SERIAL_WCNT \div 2
    BY <2>1 DEF StopEdge, h
  <2>. QED BY <1>1, <1>2, <2>2 DEF WaitInv
<1>6. LineKinds'
  <2>1. Len(rxbits') <= NBITS /\ Len(pending') <= 2
    BY <1>1, WaitRx, WaitRead
  <2>2. waitnum' \in 0 .. SERIAL_WCNT /\ cnt' \in 0 .. NBITS + 2
    BY <1>1, UartAssumption DEF TypeOK
  <2>3. READY' \in BOOLEAN
    BY ReadyKind
  <2>4. TXD' \in {0, 1} /\ cmd' \in [1 .. NBITS + 1 -> {0, 1}]
    BY <1>1 DEF TypeOK
  <2>. QED BY <2>1, <2>2, <2>3, <2>4 DEF LineKinds
<1>. QED BY <1>1, <1>4, <1>5, <1>6, WaitRead DEF LineStep

LEMMA Load ==
  ASSUME LineInv, OfferInv, Tick, READY, r_uart_we
  PROVE  LineStep
<1>1. /\ TXD' = 1 /\ cmd' = <<0>> \o r_uart_data /\ waitnum' = 0 /\ cnt' = NBITS + 2
      /\ Waiting /\ TypeOK
  BY DEF Tick, TxTick, Waiting, LineInv, FrameBits
<1>2. ~READY'
  BY DEF Tick, TxTick
<1>3. Waiting'
  BY <1>1, UartAssumption DEF Waiting
<1>4. r_uart_data' = r_uart_data /\ r_uart_data \in Char
  BY <1>1, ControlStep DEF OfferInv, MiniInv, LineInv, TypeOK
<1>5. Frame' = Frame /\ cmd' = Frame /\ Frame \in [1 .. NBITS + 1 -> {0, 1}]
  BY <1>1, <1>4, FrameIs DEF Frame
<1>6. ShiftInv'
  <2>1. \A i \in 1 .. NBITS + 1 :
          i + (NBITS + 2 - (NBITS + 2)) = i /\ i <= NBITS + 1
    BY UartAssumption
  <2>2. Frame = [i \in 1 .. NBITS + 1 |->
                   IF i + (NBITS + 2 - (NBITS + 2)) <= NBITS + 1
                   THEN Frame[i + (NBITS + 2 - (NBITS + 2))] ELSE 1]
    BY <1>5, <2>1
  <2>3. cnt' \in 1 .. NBITS + 2
    BY <1>1, UartAssumption
  <2>. QED BY <1>1, <1>5, <2>2, <2>3 DEF ShiftInv
<1>7. SendInv'
  BY <1>3 DEF SendInv
<1>8. WaitInv'
  <2>1. rxage' = 0 \/ (rxage' \in StopEdge .. StopEdge + h /\ rxage' > StopEdge)
    <3>1. rxage = 0 \/ rxage \in StopEdge .. StopEdge + h
      BY <1>1 DEF LineInv, WaitInv, h
    <3>2. rxage # 0 /\ rxage # StopEdge + h
            => rxage' = rxage + 1 /\ rxage' \in StopEdge .. StopEdge + h
      BY <1>1, WaitRx
    <3>3. StopEdge \in Nat
      BY Edges, UartAssumption, NBITS + 1 \in Nat DEF StopEdge, W
    <3>4. rxage = 0 \/ rxage = StopEdge + h => rxage' = 0
      BY <1>1, WaitRx
    <3>. QED BY <3>1, <3>2, <3>3, <3>4
  <2>2. StopEdge' = StopEdge /\ h = SERIAL_WCNT \div 2 /\ StopEdge + 0 = StopEdge
    BY Edges, UartAssumption, NBITS + 1 \in Nat DEF StopEdge, h, W
  <2>. QED BY <1>1, <2>1, <2>2 DEF WaitInv
<1>9. LineKinds'
  <2>1. Len(rxbits') <= NBITS /\ Len(pending') <= 2
    BY <1>1, WaitRx, WaitRead
  <2>2. waitnum' \in 0 .. SERIAL_WCNT /\ cnt' \in 0 .. NBITS + 2
    BY <1>1, UartAssumption
  <2>3. READY' \in BOOLEAN
    BY ReadyKind
  <2>4. TXD' \in {0, 1} /\ cmd' \in [1 .. NBITS + 1 -> {0, 1}]
    BY <1>1, <1>5
  <2>. QED BY <2>1, <2>2, <2>3, <2>4 DEF LineKinds
<1>. QED BY <1>1, <1>6, <1>7, <1>8, <1>9, WaitRead DEF LineStep

(* The bit time before the start bit.                                      *)
LEMMA WaitOn ==
  ASSUME LineInv, OfferInv, Tick, ~READY, cnt = NBITS + 2, waitnum < SERIAL_WCNT
  PROVE  LineStep
<1>1. /\ TXD' = TXD /\ cmd' = cmd /\ waitnum' = waitnum + 1 /\ cnt' = cnt
      /\ Waiting /\ TypeOK /\ ~READY'
  <2>1. ~(waitnum >= SERIAL_WCNT) /\ TypeOK
    BY UartAssumption DEF LineInv, TypeOK
  <2>. QED BY <2>1 DEF Tick, TxTick, Waiting
<1>2. Waiting'
  BY <1>1 DEF Waiting
<1>3. r_uart_data' = r_uart_data
  <2>1. ~wr_cmd BY ControlStep DEF LineInv
  <2>. QED BY <2>1, ControlStep DEF LineInv
<1>4. Frame' = Frame
  BY <1>3 DEF Frame
<1>5. ShiftInv'
  <2>1. /\ cnt \in 1 .. NBITS + 2
        /\ cmd = [i \in 1 .. NBITS + 1 |->
                   IF i + (NBITS + 2 - cnt) <= NBITS + 1
                   THEN Frame[i + (NBITS + 2 - cnt)] ELSE 1]
    BY DEF LineInv, ShiftInv
  <2>. QED BY <1>1, <1>4, <2>1 DEF ShiftInv
<1>6. SendInv'
  BY <1>2 DEF SendInv
<1>7. waitnum \in Nat /\ StopEdge \in Nat /\ h \in Nat /\ W \in Nat
  BY <1>1, HalfBit, Edges, UartAssumption, NBITS + 1 \in Nat DEF StopEdge, TypeOK, W
<1>8. WaitInv'
  <2>1. rxage' = 0 \/ (rxage' \in StopEdge .. StopEdge + h /\ rxage' > StopEdge + (waitnum + 1))
    <3>1. rxage = 0 \/ (rxage \in StopEdge .. StopEdge + h /\ rxage > StopEdge + waitnum)
      BY <1>1 DEF LineInv, WaitInv, h
    <3>2. rxage # 0 /\ rxage # StopEdge + h
            => rxage' = rxage + 1 /\ rxage' \in StopEdge .. StopEdge + h
      BY <1>1, WaitRx
    <3>3. rxage = 0 \/ rxage = StopEdge + h => rxage' = 0
      BY <1>1, WaitRx
    <3>. QED BY <1>7, <3>1, <3>2, <3>3
  <2>2. StopEdge' = StopEdge /\ h = SERIAL_WCNT \div 2
    BY DEF StopEdge, h
  <2>3. TXD' = 1
    BY <1>1 DEF LineInv, WaitInv
  <2>. QED BY <1>1, <2>1, <2>2, <2>3 DEF WaitInv
<1>9. LineKinds'
  <2>1. Len(rxbits') <= NBITS /\ Len(pending') <= 2
    BY <1>1, WaitRx, WaitRead
  <2>2. waitnum' \in 0 .. SERIAL_WCNT /\ cnt' \in 0 .. NBITS + 2
    BY <1>1, <1>7, UartAssumption DEF TypeOK
  <2>3. READY' \in BOOLEAN
    BY ReadyKind
  <2>4. TXD' \in {0, 1} /\ cmd' \in [1 .. NBITS + 1 -> {0, 1}]
    BY <1>1 DEF TypeOK
  <2>. QED BY <2>1, <2>2, <2>3, <2>4 DEF LineKinds
<1>. QED BY <1>1, <1>5, <1>6, <1>8, <1>9, WaitRead DEF LineStep

(* What a shift makes of the register.                                     *)
LEMMA ShiftStep ==
  ASSUME LineInv, OfferInv, Tick, ~READY, waitnum >= SERIAL_WCNT
  PROVE  /\ cnt \in 1 .. NBITS + 2 /\ cnt' = cnt - 1 /\ waitnum' = 1
         /\ READY' <=> cnt = 1
         /\ r_uart_data' = r_uart_data /\ Frame' = Frame
         /\ TXD' = IF cnt = 1 THEN 1 ELSE Frame[NBITS + 3 - cnt]
         /\ cmd' \in [1 .. NBITS + 1 -> {0, 1}] /\ TXD' \in {0, 1}
         /\ ShiftInv'
<1>1. /\ cnt' = cnt - 1 /\ waitnum' = 1 /\ cmd' = Append(Tail(cmd), 1) /\ TXD' = cmd[1]
      /\ READY' <=> cnt = 1
  BY DEF Tick, TxTick
<1>2. /\ cnt \in 1 .. NBITS + 2
      /\ cmd = [i \in 1 .. NBITS + 1 |->
                 IF i + (NBITS + 2 - cnt) <= NBITS + 1
                 THEN Frame[i + (NBITS + 2 - cnt)] ELSE 1]
  BY DEF LineInv, ShiftInv
<1>3. r_uart_data' = r_uart_data /\ r_uart_data \in Char
  <2>1. ~wr_cmd BY ControlStep DEF LineInv
  <2>. QED BY <2>1, ControlStep DEF LineInv, TypeOK
<1>4. Frame' = Frame /\ Frame \in [1 .. NBITS + 1 -> {0, 1}]
  BY <1>3, FrameIs DEF Frame
<1>. DEFINE k == NBITS + 2 - cnt
<1>5. k \in 0 .. NBITS + 1 /\ (k <= NBITS <=> cnt # 1) /\ k + 1 = NBITS + 3 - cnt
  BY <1>2, UartAssumption
<1>6. /\ cmd[1] = IF k <= NBITS THEN Frame[k + 1] ELSE 1
      /\ cmd' = [i \in 1 .. NBITS + 1 |->
                   IF i + (k + 1) <= NBITS + 1 THEN Frame[i + (k + 1)] ELSE 1]
  <2>1. cmd = [i \in 1 .. NBITS + 1 |-> IF i + k <= NBITS + 1 THEN Frame[i + k] ELSE 1]
    BY <1>2
  <2>. HIDE DEF k
  <2>. QED BY <1>1, <1>4, <1>5, <2>1, Shifted
<1>7. cmd' \in [1 .. NBITS + 1 -> {0, 1}]
  <2>. HIDE DEF k
  <2>1. \A i \in 1 .. NBITS + 1 : i + (k + 1) <= NBITS + 1 => i + (k + 1) \in 1 .. NBITS + 1
    BY <1>5, UartAssumption
  <2>. QED BY <1>4, <1>6, <2>1
<1>8. TXD' = IF cnt = 1 THEN 1 ELSE Frame[NBITS + 3 - cnt]
  BY <1>1, <1>5, <1>6
<1>9. TXD' \in {0, 1}
  <2>1. cnt # 1 => NBITS + 3 - cnt \in 1 .. NBITS + 1
    BY <1>2, UartAssumption
  <2>. QED BY <1>4, <1>8, <2>1
<1>10. ShiftInv'
  <2>1. CASE cnt = 1
    BY <1>1, <2>1 DEF ShiftInv
  <2>2. CASE cnt # 1
    <3>1. k + 1 = NBITS + 2 - cnt' /\ cnt' \in 1 .. NBITS + 2
      BY <1>1, <1>2, <2>2, UartAssumption
    <3>. HIDE DEF k
    <3>2. cmd' = [i \in 1 .. NBITS + 1 |->
                   IF i + (NBITS + 2 - cnt') <= NBITS + 1
                   THEN Frame'[i + (NBITS + 2 - cnt')] ELSE 1]
      BY <1>4, <1>6, <3>1
    <3>. QED BY <3>1, <3>2 DEF ShiftInv
  <2>. QED BY <2>1, <2>2
<1>. QED BY <1>1, <1>2, <1>3, <1>4, <1>7, <1>8, <1>9, <1>10

(* The start bit goes on the line: the stop bit before it is over by then. *)
LEMMA StartBit ==
  ASSUME LineInv, OfferInv, Tick, ~READY, cnt = NBITS + 2, waitnum >= SERIAL_WCNT
  PROVE  LineStep
<1>1. Waiting /\ TypeOK
  BY DEF Waiting, LineInv
<1>2. cnt' = NBITS + 1 /\ waitnum' = 1 /\ ~READY' /\ Frame' = Frame /\ TXD' = Frame[1]
  <2>1. cnt # 1 /\ NBITS + 3 - cnt = 1 /\ cnt - 1 = NBITS + 1
    BY UartAssumption
  <2>. QED BY <2>1, ShiftStep
<1>3. rxage = 0
  <2>1. rxage = 0 \/ (rxage \in StopEdge .. StopEdge + h /\ rxage > StopEdge + waitnum)
    BY <1>1 DEF LineInv, WaitInv, h
  <2>2. waitnum = W
    BY <1>1, UartAssumption DEF TypeOK, W
  <2>3. StopEdge \in Nat
    BY Edges, UartAssumption, NBITS + 1 \in Nat DEF StopEdge, W
  <2>. QED BY <2>1, <2>2, <2>3, HalfBit
<1>4. rxage' = 0
  BY <1>1, <1>3, WaitRx
<1>5. ~Waiting'
  BY <1>2, UartAssumption DEF Waiting
<1>6. WaitInv'
  BY <1>5 DEF WaitInv
<1>7. Bit' = 0
  BY <1>2, UartAssumption DEF Bit
<1>8. SendInv'
  <2>1. rxage' = Bit' * SERIAL_WCNT + (waitnum' - 1)
    BY <1>2, <1>4, <1>7, UartAssumption
  <2>2. waitnum' \in 1 .. SERIAL_WCNT
    BY <1>2, UartAssumption
  <2>3. TXD' = Frame'[Bit' + 1]
    BY <1>2, <1>7
  <2>. QED BY <1>4, <2>1, <2>2, <2>3 DEF SendInv
<1>9. LineKinds'
  <2>1. Len(rxbits') <= NBITS /\ Len(pending') <= 2
    BY <1>1, WaitRx, WaitRead
  <2>2. waitnum' \in 0 .. SERIAL_WCNT /\ cnt' \in 0 .. NBITS + 2
    BY <1>2, UartAssumption
  <2>3. READY' \in BOOLEAN
    BY ReadyKind
  <2>4. TXD' \in {0, 1} /\ cmd' \in [1 .. NBITS + 1 -> {0, 1}]
    BY ShiftStep
  <2>. QED BY <2>1, <2>2, <2>3, <2>4 DEF LineKinds
<1>. QED BY <1>1, <1>6, <1>8, <1>9, WaitRead, ShiftStep DEF LineStep

LEMMA NoBits ==
  ASSUME NEW c
  PROVE  <<>> = [i \in 1 .. 0 |-> c[i]]
<1>1. 1 .. 0 = {} OBVIOUS
<1>. QED BY <1>1

(* The receiver while a character is on the line.                          *)
LEMMA SendRx ==
  ASSUME LineInv, OfferInv, Tick, ~Waiting
  PROVE  /\ Bit \in 0 .. NBITS /\ waitnum \in 1 .. W /\ ~READY
         /\ rxage = Bit * W + (waitnum - 1) /\ rxage \in Nat
         /\ rxage' = rxage + 1 /\ ~Stopping /\ rxage < StopEdge
         /\ r_uart_data \in Char /\ r_uart_data' = r_uart_data /\ state' # 1
         /\ pending' = <<r_uart_data>>
         /\ rxbits' = [i \in 1 .. (IF Bit = 0 THEN 0 ELSE IF waitnum - 1 >= h THEN Bit ELSE Bit - 1)
                         |-> r_uart_data[i]]
<1>. DEFINE o == waitnum - 1
            m == IF Bit = 0 THEN 0 ELSE IF waitnum - 1 >= h THEN Bit ELSE Bit - 1
<1>1. TypeOK /\ RxTick /\ SendInv /\ ReadInv /\ DataInv /\ ShiftInv
  BY DEF LineInv, Tick
<1>2. /\ ~READY /\ cnt \in 1 .. NBITS + 2 /\ cnt # NBITS + 2
      /\ Bit \in 0 .. NBITS /\ waitnum \in 1 .. W /\ o \in 0 .. W - 1
      /\ rxage = Bit * W + o
      /\ TXD = Frame[Bit + 1]
      /\ rxage # 0 => rxbits = [i \in 1 .. BitsRead |-> r_uart_data[i]]
  <2>1. ~READY /\ cnt # NBITS + 2
    BY DEF Waiting
  <2>2. cnt \in 1 .. NBITS + 2
    BY <1>1, <2>1 DEF ShiftInv
  <2>3. Bit \in 0 .. NBITS
    BY <2>1, <2>2, UartAssumption DEF Bit
  <2>4. waitnum \in 1 .. W
    BY <1>1 DEF SendInv, W
  <2>5. o \in 0 .. W - 1
    BY <2>4, HalfBit
  <2>. QED BY <1>1, <2>1, <2>2, <2>3, <2>4, <2>5 DEF SendInv, W
<1>3. /\ rxage \in Nat /\ rxage < StopEdge /\ ~Framed
      /\ (\E k \in 1 .. NBITS : Middle(k)) <=> Bit # 0 /\ o = h
      /\ rxage = 0 <=> Bit = 0 /\ o = 0
  <2>. HIDE DEF o
  <2>. QED BY <1>2, Sampling
<1>4. ~Stopping
  <2>1. StopEdge \in Nat
    BY Edges, UartAssumption, NBITS + 1 \in Nat DEF StopEdge, W
  <2>. QED BY <1>3, <2>1 DEF Stopping
<1>5. /\ r_uart_data \in Char /\ ~wr_cmd /\ r_uart_data' = r_uart_data /\ state' # 1
  <2>1. ~wr_cmd
    BY <1>1, <1>2, ControlStep
  <2>. QED BY <1>1, <1>2, <2>1, ControlStep DEF TypeOK
<1>6. pending' = <<r_uart_data>>
  <2>1. pending = <<>> \o <<r_uart_data>>
    BY <1>1, <1>2, <1>4 DEF ReadInv, InWork
  <2>2. pending' = pending
    BY <1>1, <1>3, <1>5 DEF RxTick
  <2>. QED BY <2>1, <2>2, Queue
<1>7. rxage' = rxage + 1
  <2>1. rxage = 0 => TXD = 0
    BY <1>2, <1>3, <1>5, FrameIs
  <2>. QED BY <1>1, <1>3, <2>1 DEF RxTick
<1>8. rxbits' = [i \in 1 .. m |-> r_uart_data[i]]
  <2>1. CASE rxage = 0
    <3>1. rxbits' = <<>> /\ m = 0
      BY <1>1, <1>3, <2>1 DEF RxTick
    <3>. QED BY <3>1, NoBits
  <2>2. CASE rxage # 0 /\ Bit # 0 /\ o = h
    <3>1. rxbits' = Append(rxbits, TXD)
      BY <1>1, <1>3, <2>2 DEF RxTick
    <3>2. /\ BitsRead = Bit - 1 /\ m = Bit /\ Bit - 1 \in 0 .. NBITS - 1
          /\ (Bit - 1) + 1 = Bit
      BY <1>2, <2>2, HalfBit, UartAssumption DEF BitsRead, h
    <3>3. TXD = r_uart_data[(Bit - 1) + 1]
      <4>1. Bit \in 1 .. NBITS
        BY <1>2, <2>2
      <4>. QED BY <1>2, <1>5, <3>2, <4>1, FrameIs
    <3>4. rxbits = [i \in 1 .. Bit - 1 |-> r_uart_data[i]]
      BY <1>2, <2>2, <3>2
    <3>5. Append(rxbits, TXD) = [i \in 1 .. (Bit - 1) + 1 |-> r_uart_data[i]]
      <4>. HIDE DEF o, m
      <4>. DEFINE b == Bit - 1
      <4>1. b \in 0 .. NBITS - 1
        BY <3>2
      <4>2. rxbits = [i \in 1 .. b |-> r_uart_data[i]] /\ TXD = r_uart_data[b + 1]
        BY <3>3, <3>4
      <4>. HIDE DEF b
      <4>3. Append(rxbits, TXD) = [i \in 1 .. b + 1 |-> r_uart_data[i]]
        BY <1>5, <4>1, <4>2, OneBitMore
      <4>. QED BY <4>3 DEF b
    <3>. QED BY <3>1, <3>2, <3>5
  <2>3. CASE rxage # 0 /\ ~(Bit # 0 /\ o = h)
    <3>1. rxbits' = rxbits
      BY <1>1, <1>3, <2>3 DEF RxTick
    <3>2. BitsRead = m
      BY <1>2, <2>3, HalfBit DEF BitsRead, h
    <3>. QED BY <1>2, <2>3, <3>1, <3>2
  <2>. QED BY <2>1, <2>2, <2>3
<1>. QED BY <1>2, <1>3, <1>4, <1>5, <1>6, <1>7, <1>8

(* The line keeps its bit.                                                 *)
LEMMA HoldBit ==
  ASSUME LineInv, OfferInv, Tick, ~Waiting, waitnum < SERIAL_WCNT
  PROVE  LineStep
<1>1. ~READY /\ TypeOK /\ waitnum \in 1 .. W /\ Bit \in 0 .. NBITS
  BY SendRx DEF LineInv
<1>2. TXD' = TXD /\ cmd' = cmd /\ waitnum' = waitnum + 1 /\ cnt' = cnt /\ ~READY'
  <2>1. ~(waitnum >= SERIAL_WCNT)
    BY <1>1, HalfBit DEF W
  <2>. QED BY <1>1, <2>1 DEF Tick, TxTick
<1>3. ~Waiting' /\ Bit' = Bit
  BY <1>2 DEF Waiting, Bit
<1>4. r_uart_data' = r_uart_data /\ Frame' = Frame
  BY SendRx DEF Frame
<1>5. ShiftInv'
  <2>1. /\ cnt \in 1 .. NBITS + 2
        /\ cmd = [i \in 1 .. NBITS + 1 |->
                   IF i + (NBITS + 2 - cnt) <= NBITS + 1
                   THEN Frame[i + (NBITS + 2 - cnt)] ELSE 1]
    BY <1>1 DEF LineInv, ShiftInv
  <2>. QED BY <1>2, <1>4, <2>1 DEF ShiftInv
<1>6. WaitInv'
  BY <1>3 DEF WaitInv
<1>7. rxage' = Bit' * SERIAL_WCNT + (waitnum' - 1) /\ rxage' \in Nat /\ rxage' < StopEdge
  <2>. DEFINE e == Bit * W
  <2>1. e \in Nat /\ rxage = e + (waitnum - 1) /\ rxage' = rxage + 1
    BY <1>1, SendRx, Edges
  <2>2. e + W <= StopEdge /\ StopEdge \in Nat
    <3>1. Bit \in Nat /\ NBITS + 1 \in Nat /\ Bit < NBITS + 1
      BY <1>1, UartAssumption
    <3>2. Bit * W + W <= (NBITS + 1) * W
      BY <3>1, LaterEdge
    <3>. QED BY <3>1, <3>2, Edges DEF StopEdge, W
  <2>. HIDE DEF e
  <2>3. rxage' = e + (waitnum' - 1) /\ rxage' \in Nat /\ rxage' < StopEdge
    <3>1. waitnum < W BY DEF W
    <3>. QED BY <1>1, <1>2, <2>1, <2>2, <3>1, HalfBit
  <2>. QED BY <1>3, <2>3 DEF e, W
<1>8. SendInv'
  <2>1. waitnum' \in 1 .. SERIAL_WCNT
    BY <1>1, <1>2, UartAssumption DEF W
  <2>2. BitsRead' = IF Bit = 0 THEN 0 ELSE IF waitnum - 1 >= h THEN Bit ELSE Bit - 1
    <3>1. waitnum' > h + 1 <=> waitnum - 1 >= h
      BY <1>1, <1>2, HalfBit
    <3>2. BitsRead' = IF Bit' = 0 THEN 0 ELSE IF waitnum' > h + 1 THEN Bit' ELSE Bit' - 1
      BY DEF BitsRead, Bit, h
    <3>. QED BY <1>3, <3>1, <3>2
  <2>3. rxbits' = [i \in 1 .. BitsRead' |-> r_uart_data'[i]]
    BY <1>4, <2>2, SendRx
  <2>4. TXD' = Frame'[Bit' + 1]
    BY <1>2, <1>3, <1>4 DEF LineInv, SendInv
  <2>. QED BY <1>7, <2>1, <2>3, <2>4 DEF SendInv
<1>9. ~Stopping' /\ InWork'
  <2>1. StopEdge \in Nat
    BY Edges, UartAssumption, NBITS + 1 \in Nat DEF StopEdge, W
  <2>2. Stopping' <=> rxage' >= StopEdge
    BY DEF Stopping, StopEdge
  <2>. QED BY <1>2, <1>7, <2>1, <2>2 DEF InWork
<1>10. ReadInv' /\ Len(pending') <= 2
  <2>1. pending' = <<>> \o <<r_uart_data'>> /\ Len(pending') <= 2
    <3>1. pending' = <<r_uart_data'>>
      BY <1>4, SendRx
    <3>2. <<>> \o <<r_uart_data'>> = <<r_uart_data'>> /\ Len(<<r_uart_data'>>) = 1
      BY Queue
    <3>. QED BY <3>1, <3>2
  <2>. QED BY <1>9, <2>1 DEF ReadInv
<1>11. LineKinds'
  <2>1. Len(rxbits') <= NBITS
    <3>1. (IF Bit = 0 THEN 0 ELSE IF waitnum - 1 >= h THEN Bit ELSE Bit - 1) \in 0 .. NBITS
      BY <1>1, HalfBit, UartAssumption
    <3>2. r_uart_data \in Char
      BY SendRx
    <3>. QED BY <3>1, <3>2, SendRx, LengthOfBits
  <2>2. waitnum' \in 0 .. SERIAL_WCNT /\ cnt' \in 0 .. NBITS + 2
    BY <1>1, <1>2, UartAssumption DEF TypeOK, W
  <2>3. READY' \in BOOLEAN
    BY ReadyKind
  <2>4. TXD' \in {0, 1} /\ cmd' \in [1 .. NBITS + 1 -> {0, 1}]
    BY <1>1, <1>2 DEF TypeOK
  <2>. QED BY <1>10, <2>1, <2>2, <2>3, <2>4 DEF LineKinds
<1>. QED BY <1>5, <1>6, <1>8, <1>10, <1>11 DEF LineStep

(* The next bit goes on the line.                                          *)
LEMMA NextBit ==
  ASSUME LineInv, OfferInv, Tick, ~Waiting, waitnum >= SERIAL_WCNT, cnt # 1
  PROVE  LineStep
<1>1. /\ ~READY /\ TypeOK /\ waitnum = W /\ Bit \in 0 .. NBITS - 1
      /\ cnt \in 2 .. NBITS + 1
  <2>1. ~READY /\ TypeOK /\ waitnum \in 1 .. W /\ Bit \in 0 .. NBITS
    BY SendRx DEF LineInv
  <2>2. waitnum = W
    BY <2>1, HalfBit DEF W
  <2>3. cnt \in 1 .. NBITS + 2 /\ cnt # NBITS + 2
    BY <2>1 DEF LineInv, ShiftInv, Waiting
  <2>4. cnt \in 2 .. NBITS + 1
    BY <2>3, UartAssumption
  <2>5. Bit \in 0 .. NBITS - 1
    BY <2>4, UartAssumption DEF Bit
  <2>. QED BY <2>1, <2>2, <2>4, <2>5
<1>2. cnt' = cnt - 1 /\ waitnum' = 1 /\ ~READY' /\ TXD' = Frame[NBITS + 3 - cnt]
  BY <1>1, ShiftStep
<1>3. ~Waiting' /\ Bit' = Bit + 1
  <2>1. cnt - 1 # NBITS + 2 /\ NBITS + 1 - (cnt - 1) = (NBITS + 1 - cnt) + 1
    BY <1>1, UartAssumption
  <2>. QED BY <1>2, <2>1 DEF Waiting, Bit
<1>4. r_uart_data' = r_uart_data /\ Frame' = Frame
  BY SendRx DEF Frame
<1>5. ShiftInv'
  BY <1>1, ShiftStep
<1>6. WaitInv'
  BY <1>3 DEF WaitInv
<1>7. rxage' = Bit' * SERIAL_WCNT + (waitnum' - 1) /\ rxage' \in Nat /\ rxage' < StopEdge
  <2>. DEFINE e == Bit * W
  <2>1. e \in Nat /\ rxage = e + (waitnum - 1) /\ rxage' = rxage + 1
    BY <1>1, SendRx, Edges
  <2>2. (Bit + 1) * W = e + W
    BY <1>1, Edges
  <2>3. e + W + W <= StopEdge /\ StopEdge \in Nat
    <3>1. Bit + 1 \in Nat /\ NBITS + 1 \in Nat /\ Bit + 1 < NBITS + 1
      BY <1>1, UartAssumption
    <3>2. (Bit + 1) * W + W <= (NBITS + 1) * W
      BY <3>1, LaterEdge
    <3>. QED BY <2>2, <3>1, <3>2, Edges DEF StopEdge, W
  <2>. HIDE DEF e
  <2>4. rxage' = e + W /\ rxage' \in Nat /\ rxage' < StopEdge
    BY <1>1, <2>1, <2>3, HalfBit
  <2>5. e + W + (1 - 1) = e + W
    BY <2>1, HalfBit
  <2>6. rxage' = Bit' * W + (waitnum' - 1)
    BY <1>2, <1>3, <2>2, <2>4, <2>5
  <2>. QED BY <2>4, <2>6 DEF W
<1>8. SendInv'
  <2>1. waitnum' \in 1 .. SERIAL_WCNT
    BY <1>2, UartAssumption
  <2>2. BitsRead' = Bit
    <3>1. ~(waitnum' > h + 1) /\ Bit' # 0 /\ Bit' - 1 = Bit
      BY <1>1, <1>2, <1>3, HalfBit, UartAssumption
    <3>2. BitsRead' = IF Bit' = 0 THEN 0 ELSE IF waitnum' > h + 1 THEN Bit' ELSE Bit' - 1
      BY DEF BitsRead, Bit, h
    <3>. QED BY <3>1, <3>2
  <2>3. Bit = IF Bit = 0 THEN 0 ELSE IF waitnum - 1 >= h THEN Bit ELSE Bit - 1
    BY <1>1, HalfBit
  <2>4. rxbits' = [i \in 1 .. BitsRead' |-> r_uart_data'[i]]
    BY <1>4, <2>2, <2>3, SendRx
  <2>5. TXD' = Frame'[Bit' + 1]
    <3>1. NBITS + 3 - cnt = (NBITS + 1 - cnt) + 1 + 1
      BY <1>1, UartAssumption
    <3>. QED BY <1>2, <1>3, <1>4, <3>1 DEF Bit
  <2>. QED BY <1>7, <2>1, <2>4, <2>5 DEF SendInv
<1>9. ~Stopping' /\ InWork'
  <2>1. StopEdge \in Nat
    BY Edges, UartAssumption, NBITS + 1 \in Nat DEF StopEdge, W
  <2>2. Stopping' <=> rxage' >= StopEdge
    BY DEF Stopping, StopEdge
  <2>. QED BY <1>2, <1>7, <2>1, <2>2 DEF InWork
<1>10. ReadInv' /\ Len(pending') <= 2
  <2>1. pending' = <<>> \o <<r_uart_data'>> /\ Len(pending') <= 2
    <3>1. pending' = <<r_uart_data'>>
      BY <1>4, SendRx
    <3>2. <<>> \o <<r_uart_data'>> = <<r_uart_data'>> /\ Len(<<r_uart_data'>>) = 1
      BY Queue
    <3>. QED BY <3>1, <3>2
  <2>. QED BY <1>9, <2>1 DEF ReadInv
<1>11. LineKinds'
  <2>1. Len(rxbits') <= NBITS
    <3>1. (IF Bit = 0 THEN 0 ELSE IF waitnum - 1 >= h THEN Bit ELSE Bit - 1) \in 0 .. NBITS
      BY <1>1, HalfBit, UartAssumption
    <3>2. r_uart_data \in Char
      BY SendRx
    <3>. QED BY <3>1, <3>2, SendRx, LengthOfBits
  <2>2. waitnum' \in 0 .. SERIAL_WCNT /\ cnt' \in 0 .. NBITS + 2
    BY <1>1, <1>2, UartAssumption
  <2>3. READY' \in BOOLEAN
    BY ReadyKind
  <2>4. TXD' \in {0, 1} /\ cmd' \in [1 .. NBITS + 1 -> {0, 1}]
    BY <1>1, ShiftStep
  <2>. QED BY <1>10, <2>1, <2>2, <2>3, <2>4 DEF LineKinds
<1>. QED BY <1>5, <1>6, <1>8, <1>10, <1>11 DEF LineStep

(* The stop bit goes on the line: all bits of the character are read.      *)
LEMMA StopBit ==
  ASSUME LineInv, OfferInv, Tick, ~Waiting, waitnum >= SERIAL_WCNT, cnt = 1
  PROVE  LineStep
<1>1. ~READY /\ TypeOK /\ waitnum = W /\ Bit = NBITS
  <2>1. ~READY /\ TypeOK /\ waitnum \in 1 .. W
    BY SendRx DEF LineInv
  <2>2. waitnum = W
    BY <2>1, HalfBit DEF W
  <2>3. Bit = NBITS
    BY UartAssumption DEF Bit
  <2>. QED BY <2>1, <2>2, <2>3
<1>2. cnt' = 0 /\ waitnum' = 1 /\ READY' /\ TXD' = 1
  <2>1. cnt - 1 = 0 OBVIOUS
  <2>. QED BY <1>1, <2>1, ShiftStep
<1>3. Waiting'
  BY <1>2 DEF Waiting
<1>4. r_uart_data' = r_uart_data /\ r_uart_data \in Char
  BY SendRx
<1>5. ShiftInv' /\ SendInv'
  BY <1>2, <1>3 DEF ShiftInv, SendInv
<1>6. rxage' = StopEdge /\ StopEdge \in Nat
  <2>. DEFINE e == NBITS * W
  <2>1. e \in Nat /\ rxage = e + (waitnum - 1) /\ rxage' = rxage + 1
    BY <1>1, SendRx, Edges, UartAssumption
  <2>2. StopEdge = e + W /\ StopEdge \in Nat
    BY Edges, UartAssumption, HalfBit DEF StopEdge, W
  <2>. HIDE DEF e
  <2>. QED BY <1>1, <2>1, <2>2, HalfBit
<1>7. WaitInv'
  <2>1. rxage' \in StopEdge' .. StopEdge' + SERIAL_WCNT \div 2
    <3>1. rxage' \in StopEdge .. StopEdge + h
      BY <1>6, HalfBit
    <3>. QED BY <3>1 DEF StopEdge, h
  <2>. QED BY <1>2, <2>1 DEF WaitInv
<1>8. rxbits' = r_uart_data
  <2>1. NBITS = IF Bit = 0 THEN 0 ELSE IF waitnum - 1 >= h THEN Bit ELSE Bit - 1
    BY <1>1, HalfBit, UartAssumption
  <2>2. rxbits' = [i \in 1 .. NBITS |-> r_uart_data[i]]
    BY <2>1, SendRx
  <2>. QED BY <1>4, <2>2, AllBits
<1>9. Stopping' /\ ~InWork'
  <2>1. Stopping' <=> rxage' >= StopEdge
    BY DEF Stopping, StopEdge
  <2>2. Stopping'
    BY <1>6, <2>1
  <2>3. state' # 1
    BY SendRx
  <2>. QED BY <1>2, <2>2, <2>3 DEF InWork
<1>10. ReadInv' /\ Len(pending') <= 2
  <2>1. pending' = <<rxbits'>> \o <<>> /\ Len(pending') <= 2
    <3>1. pending' = <<rxbits'>>
      BY <1>8, SendRx
    <3>2. <<rxbits'>> \o <<>> = <<rxbits'>> /\ Len(<<rxbits'>>) = 1
      BY Queue
    <3>. QED BY <3>1, <3>2
  <2>. QED BY <1>4, <1>8, <1>9, <2>1 DEF ReadInv
<1>11. LineKinds'
  <2>1. Len(rxbits') <= NBITS
    BY <1>4, <1>8, CharIsSeq, UartAssumption
  <2>2. waitnum' \in 0 .. SERIAL_WCNT /\ cnt' \in 0 .. NBITS + 2
    BY <1>2, UartAssumption
  <2>3. READY' \in BOOLEAN
    BY ReadyKind
  <2>4. TXD' \in {0, 1} /\ cmd' \in [1 .. NBITS + 1 -> {0, 1}]
    BY <1>1, ShiftStep
  <2>. QED BY <1>10, <2>1, <2>2, <2>3, <2>4 DEF LineKinds
<1>. QED BY <1>5, <1>7, <1>10, <1>11 DEF LineStep

LEMMA LineKept == LineInv /\ OfferInv /\ Tick => LineStep
<1>. SUFFICES ASSUME LineInv, OfferInv, Tick PROVE LineStep
  OBVIOUS
<1>1. waitnum \in Nat /\ SERIAL_WCNT \in Nat
  BY UartAssumption DEF LineInv, TypeOK
<1>2. CASE READY
  BY <1>2, Idle, Load
<1>3. CASE ~READY
  <2>1. CASE waitnum < SERIAL_WCNT
    BY <1>3, <2>1, WaitOn, HoldBit DEF Waiting
  <2>2. CASE waitnum >= SERIAL_WCNT
    BY <1>3, <2>2, StartBit, NextBit, StopBit DEF Waiting
  <2>. QED BY <1>1, <2>1, <2>2
<1>. QED BY <1>2, <1>3

(* The receiver counts no further than the stop bit.                       *)
LEMMA AgeBound ==
  WaitInv /\ SendInv /\ ReadInv /\ ShiftInv /\ LineKinds
    => rxage \in 0 .. (NBITS + 2) * SERIAL_WCNT
<1>. SUFFICES ASSUME WaitInv, SendInv, ReadInv, ShiftInv, LineKinds
              PROVE  rxage \in 0 .. (NBITS + 2) * SERIAL_WCNT
  OBVIOUS
<1>. DEFINE e == (NBITS + 1) * W
            f == (NBITS + 2) * W
<1>1. e \in Nat /\ f \in Nat /\ e + W = f /\ StopEdge = e /\ f = (NBITS + 2) * SERIAL_WCNT
  <2>1. NBITS + 1 \in Nat /\ NBITS + 2 \in Nat /\ (NBITS + 1) + 1 = NBITS + 2
    BY UartAssumption
  <2>2. (NBITS + 1) * W \in Nat /\ ((NBITS + 1) + 1) * W = (NBITS + 1) * W + W
    BY <2>1, Edges
  <2>. QED BY <2>1, <2>2, Edges DEF StopEdge, W
<1>. HIDE DEF e, f
<1>2. CASE Waiting
  <2>1. rxage = 0 \/ rxage \in StopEdge .. StopEdge + h
    BY <1>2 DEF WaitInv, h
  <2>2. rxage \in 0 .. f
    BY <1>1, <2>1, HalfBit
  <2>. QED BY <1>1, <2>2
<1>3. CASE ~Waiting
  <2>1. Bit \in 0 .. NBITS
    BY <1>3, UartAssumption DEF Waiting, ShiftInv, Bit
  <2>2. waitnum \in 1 .. W /\ rxage = Bit * W + (waitnum - 1)
    BY <1>3 DEF SendInv, W
  <2>3. Bit * W \in Nat /\ Bit * W + W <= e
    <3>1. Bit \in Nat /\ NBITS + 1 \in Nat /\ Bit < NBITS + 1
      BY <2>1, UartAssumption
    <3>. QED BY <3>1, LaterEdge, Edges DEF e
  <2>. DEFINE g == Bit * W
  <2>4. g \in Nat /\ g + W <= e /\ rxage = g + (waitnum - 1)
    BY <2>2, <2>3
  <2>. HIDE DEF g
  <2>5. rxage \in 0 .. f
    BY <1>1, <2>2, <2>4, HalfBit
  <2>. QED BY <1>1, <2>5
<1>. QED BY <1>2, <1>3

(* The registers of the bridge and of uart_mini.                           *)
LEMMA OtherKinds ==
  ASSUME LineInv, OfferInv, Tick
  PROVE  /\ apb_state' \in BridgeState /\ dphase' \in Transfer \cup {NoTransfer}
         /\ apb_state' = "WR0" => dphase' \in Transfer
         /\ apbm_pwdata' \in Char /\ ahbls_hrdata' = 0
         /\ state' \in 0 .. 2 /\ r_tx_ready' \in BOOLEAN /\ r_uart_we' \in BOOLEAN
         /\ r_uart_data' \in Char
<1>1. /\ TypeOK /\ DataInv /\ BridgeInv /\ MiniTick
      /\ BridgeTick(r_tx_ready /\ dphase.dev = Dev, 0)
  BY DEF LineInv, OfferInv, Tick
<1>2. Zero \in Char
  BY DEF Zero, Char
<1>3. apbm_pwdata \in Char
  BY <1>1, <1>2 DEF TypeOK
<1>4. BridgeInv' /\ apb_state' \in BridgeState
  BY <1>1, BridgeStep DEF BridgeInv
<1>5. /\ dphase' \in Transfer \cup {NoTransfer}
      /\ apb_state' = "WR0" => dphase' \in Transfer
  <2>1. CASE ahbls_hready_resp
    <3>1. PICK t \in Transfer \cup {NoTransfer} :
            /\ dphase' = t
            /\ apb_state' = IF t = NoTransfer THEN "IDLE"
                            ELSE IF t.write THEN "WR0" ELSE "RD0"
      BY <1>1, <2>1 DEF BridgeTick, setup
    <3>. QED BY <3>1
  <2>2. CASE ~ahbls_hready_resp
    <3>1. apb_state' = AfterCycle(r_tx_ready /\ dphase.dev = Dev) /\ dphase' = dphase
      BY <1>1, <2>2 DEF BridgeTick
    <3>2. apb_state \in {"WR0", "WR1", "WR2", "RD0", "RD1", "ERR0"}
      BY <1>1, <2>2 DEF BridgeInv, BridgeState, ahbls_hready_resp
    <3>3. apb_state' # "WR0"
      BY <3>1, <3>2 DEF AfterCycle, Answered
    <3>. QED BY <1>1, <3>1, <3>3 DEF TypeOK
  <2>. QED BY <2>1, <2>2
<1>6. apbm_pwdata' \in Char
  <2>1. apb_state = "WR0" => dphase.data \in Char
    BY <1>1, TransferAssumption DEF DataInv, BridgeInv
  <2>2. apbm_pwdata' = IF apb_state = "WR0" THEN dphase.data ELSE apbm_pwdata
    BY <1>1 DEF BridgeTick
  <2>. QED BY <1>3, <2>1, <2>2
<1>7. ahbls_hrdata' = 0
  BY <1>1 DEF BridgeTick, TypeOK
<1>8. r_uart_data' \in Char
  BY <1>1, <1>3 DEF MiniTick, TypeOK
<1>9. state' \in 0 .. 2
  BY <1>1 DEF MiniTick, TypeOK
<1>10. r_tx_ready' \in BOOLEAN
  BY <1>1, Zenon DEF MiniTick
<1>11. r_uart_we' \in BOOLEAN
  BY <1>1, Zenon DEF MiniTick
<1>. QED BY <1>4, <1>5, <1>6, <1>7, <1>8, <1>9, <1>10, <1>11

LEMMA LineNext == LineInv /\ OfferInv /\ [Tick]_vars => LineInv'
<1>1. ASSUME LineInv, OfferInv, Tick PROVE LineInv'
  <2>1. LineStep
    BY <1>1, LineKept
  <2>2. rxage' \in 0 .. (NBITS + 2) * SERIAL_WCNT
    <3>1. (WaitInv /\ SendInv /\ ReadInv /\ ShiftInv /\ LineKinds
            => rxage \in 0 .. (NBITS + 2) * SERIAL_WCNT)'
      BY AgeBound, PTL
    <3>. QED BY <2>1, <3>1 DEF LineStep
  <2>3. TypeOK'
    <3>1. LineKinds'
      BY <2>1 DEF LineStep
    <3>. QED BY <1>1, <2>2, <3>1, OtherKinds DEF TypeOK, LineKinds
  <2>4. DataInv'
    <3>1. state' = 1 => r_uart_we'
      BY <1>1, ControlStep DEF LineInv
    <3>. QED BY <1>1, <3>1, OtherKinds DEF DataInv
  <2>. QED BY <2>1, <2>3, <2>4 DEF LineInv, LineStep
<1>2. ASSUME LineInv, UNCHANGED vars PROVE LineInv'
  <2>1. UNCHANGED <<apb_state, dphase, apbm_pwdata, ahbls_hrdata, state, r_tx_ready,
                    r_uart_we, r_uart_data, TXD, READY, cmd, waitnum, cnt, rxage,
                    rxbits, pending>>
    BY <1>2 DEF vars, bridgeVars, miniVars, txVars, rxVars
  <2>2. TypeOK' /\ DataInv'
    BY <1>2, <2>1 DEF LineInv, TypeOK, DataInv
  <2>3. /\ Waiting' = Waiting /\ Bit' = Bit /\ BitsRead' = BitsRead /\ Stopping' = Stopping
        /\ InWork' = InWork /\ Frame' = Frame /\ StopEdge' = StopEdge
    BY <2>1 DEF Waiting, Bit, BitsRead, Stopping, InWork, Frame, StopEdge
  <2>4. ShiftInv'
    BY <1>2, <2>1, <2>3 DEF LineInv, ShiftInv
  <2>5. WaitInv'
    BY <1>2, <2>1, <2>3 DEF LineInv, WaitInv
  <2>6. SendInv'
    BY <1>2, <2>1, <2>3 DEF LineInv, SendInv
  <2>7. ReadInv'
    BY <1>2, <2>1, <2>3 DEF LineInv, ReadInv
  <2>. QED BY <2>2, <2>4, <2>5, <2>6, <2>7 DEF LineInv
<1>. QED BY <1>1, <1>2

LEMMA LineInit == Init => LineInv
<1>. SUFFICES ASSUME Init PROVE LineInv
  OBVIOUS
<1>. USE DEF Init, BridgeInit
<1>1. Zero \in Char /\ Ones \in [1 .. NBITS + 1 -> {0, 1}]
  BY DEF Zero, Char, Ones
<1>2. 0 \in 0 .. (NBITS + 2) * SERIAL_WCNT /\ StopEdge \in Nat /\ StopEdge > 0
  <2>1. NBITS + 2 \in Nat /\ NBITS + 1 \in Nat /\ 0 < NBITS + 1
    BY UartAssumption
  <2>2. (NBITS + 2) * W \in Nat /\ (NBITS + 1) * W \in Nat /\ 0 * W + W <= (NBITS + 1) * W
    BY <2>1, Edges, LaterEdge
  <2>. QED BY <2>2, Edges, HalfBit DEF StopEdge, W
<1>3. TypeOK
  <2>1. Len(<<>>) = 0 OBVIOUS
  <2>2. 0 \in 0 .. NBITS + 2 /\ 0 <= NBITS /\ 0 \in 0 .. SERIAL_WCNT
    BY UartAssumption
  <2>3. READY \in BOOLEAN /\ r_tx_ready \in BOOLEAN /\ r_uart_we \in BOOLEAN
    OBVIOUS
  <2>4. apb_state \in BridgeState /\ dphase \in Transfer \cup {NoTransfer}
    BY DEF BridgeState
  <2>5. /\ apbm_pwdata \in Char /\ ahbls_hrdata = 0 /\ state \in 0 .. 2
        /\ r_uart_data \in Char /\ TXD \in {0, 1} /\ cmd \in [1 .. NBITS + 1 -> {0, 1}]
    BY <1>1
  <2>6. /\ waitnum \in 0 .. SERIAL_WCNT /\ cnt \in 0 .. NBITS + 2
        /\ rxage \in 0 .. (NBITS + 2) * SERIAL_WCNT
    BY <1>2, <2>2
  <2>7. Len(rxbits) <= NBITS /\ Len(pending) <= 2
    BY <2>1, <2>2
  <2>. QED BY <2>3, <2>4, <2>5, <2>6, <2>7 DEF TypeOK
<1>4. DataInv /\ ShiftInv /\ SendInv
  BY DEF DataInv, ShiftInv, SendInv, Waiting
<1>5. WaitInv
  BY DEF WaitInv
<1>6. ReadInv
  <2>1. ~Stopping /\ ~InWork
    BY <1>2 DEF Stopping, InWork
  <2>. QED BY <2>1, Queue DEF ReadInv
<1>. QED BY <1>3, <1>4, <1>5, <1>6 DEF LineInv

(* The stop bit is read where it is, and the character it ends is the one  *)
(* that has waited longest.                                                *)
LEMMA ReadTrue == LineInv => Inv
<1>. SUFFICES ASSUME LineInv, Framed PROVE TXD = 1 /\ pending # <<>> /\ rxbits = Head(pending)
  BY DEF Inv, ReceivedAsWritten, LineInv
<1>1. rxage = StopEdge + h /\ StopEdge \in Nat
  BY Edges, UartAssumption, NBITS + 1 \in Nat DEF Framed, Middle, StopEdge, h, W
<1>2. Stopping
  BY <1>1, HalfBit DEF Stopping
<1>3. Waiting
  <2>. SUFFICES ASSUME ~Waiting PROVE FALSE
    OBVIOUS
  <2>1. /\ SendInv /\ ShiftInv
    BY DEF LineInv
  <2>2. Bit \in 0 .. NBITS
    BY <2>1, UartAssumption DEF Waiting, ShiftInv, Bit
  <2>3. waitnum - 1 \in 0 .. W - 1 /\ rxage = Bit * W + (waitnum - 1)
    BY <2>1, HalfBit DEF SendInv, W
  <2>. QED BY <2>2, <2>3, Sampling
<1>4. TXD = 1
  BY <1>3 DEF LineInv, WaitInv
<1>5. pending = <<rxbits>> \o (IF InWork THEN <<r_uart_data>> ELSE <<>>)
  BY <1>2 DEF LineInv, ReadInv
<1>6. CASE InWork
  <2>1. pending = <<rxbits, r_uart_data>>
    BY <1>5, <1>6, Queue
  <2>. QED BY <1>4, <2>1, Queue
<1>7. CASE ~InWork
  <2>1. pending = <<rxbits>>
    BY <1>5, <1>7, Queue
  <2>. QED BY <1>4, <2>1, Queue
<1>. QED BY <1>6, <1>7

(* uart_mini.v:55, UartTx: whatever the harts write and whenever, the line *)
(* carries the characters in their order, and each is read with its stop   *)
(* bit by a receiver that knows only the bit time: for every bit time from *)
(* two cycles on and every number of bits.                                 *)
THEOREM CharactersArrive == Spec => []Inv
<1>1. Init => LineInv /\ OfferInv
  BY InitInv, LineInit
<1>2. LineInv /\ OfferInv /\ [Tick]_vars => (LineInv /\ OfferInv)'
  BY LineNext, NextInv
<1>3. LineInv => Inv
  BY ReadTrue
<1>. QED BY <1>1, <1>2, <1>3, PTL DEF Spec
=============================================================================
