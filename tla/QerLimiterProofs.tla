--------------------------- MODULE QerLimiterProofs ---------------------------
(* Proofs about QerLimiter. *)
EXTENDS QerLimiter, TLAPS

\* The least time a bit takes at a rate up to r, as TxTime computes it.
PerBit(r) == IF r = 0 THEN Second ELSE Second \div r

\* What the packets let through were charged, at the least.
Passed == bits * PerBit(fastest)

\* No CPU but c has a packet in hand.
Alone(c) == \A d \in Cpu : cpu[d].pc # "idle" => d = c

\* What the limiter keeps of the packet of CPU c: the start it will charge, and the
\* clock all packets let through so far were measured with.
ChargedStart(c) == IF cpu[c].pc = "write" THEN cpu[c].start ELSE start
LastClock(c) == IF cpu[c].pc = "idle" THEN now ELSE cpu[c].clock

\* What races do not disturb: no packet was begun before the measurement, and it is
\* charged for all its bits; the start is never far ahead of the clock.
Measured ==
    /\ rate <= fastest
    /\ since <= now /\ Burst <= credit
    /\ start <= now + Burst - Window
    /\ \A c \in Cpu : cpu[c].pc # "idle" =>
         /\ since <= cpu[c].clock /\ cpu[c].clock <= now
         /\ cpu[c].size * PerBit(fastest) <= cpu[c].tx
         /\ cpu[c].tx <= Burst
         /\ cpu[c].pc = "write" => cpu[c].start + cpu[c].tx <= cpu[c].clock

\* The invariant behind RateIsLimited for a CPU that alone has a packet.  Every packet
\* let through moved the start up by its transmission time, from no less than a
\* window before the measurement.
Charged(c) ==
    /\ start <= LastClock(c) + Burst - Window
    /\ \/ Passed <= credit - Burst + (ChargedStart(c) + Window) - since
       \/ Passed <= credit - Burst + LastClock(c) - since

Inv ==
    /\ TypeOK
    /\ Measured
    /\ ~raced => /\ \E c \in Cpu : Alone(c)
                 /\ \A c \in Cpu : Alone(c) => Charged(c)

-----------------------------------------------------------------------------
(* Products and quotients *)

LEMMA ProductGrows ==
    ASSUME NEW a \in Nat, NEW b \in Nat, NEW n \in Nat, a <= b
    PROVE  n * a \in Nat /\ n * b \in Nat /\ n * a <= n * b
OBVIOUS

LEMMA Quotient ==
    ASSUME NEW n \in Nat, NEW r \in Nat \ {0}
    PROVE  /\ n \div r \in Nat
           /\ n % r \in 0 .. r - 1
           /\ n = r * (n \div r) + (n % r)
OBVIOUS

LEMMA QuotientShrinks ==
    ASSUME NEW n \in Nat, NEW r \in Nat \ {0}, NEW q \in Nat \ {0}, r <= q
    PROVE  n \div q <= n \div r
<1> DEFINE a == n \div r
           b == n \div q
<1>1. a \in Nat /\ n % r \in 0 .. r - 1 /\ n = r * a + (n % r)
  BY Quotient
<1>2. b \in Nat /\ n % q \in 0 .. q - 1 /\ n = q * b + (n % q)
  BY Quotient
<1> HIDE DEF a, b
<1>3. SUFFICES ASSUME b >= a + 1 PROVE FALSE
  BY <1>1, <1>2 DEF a, b
<1>4. r * (a + 1) <= r * b
  BY <1>1, <1>2, <1>3, ProductGrows
<1>5. b * r <= b * q /\ b * r = r * b /\ b * q = q * b
  BY <1>2, ProductGrows
<1>6. r * (a + 1) = r * a + r
  BY <1>1
<1> QED
  BY <1>1, <1>2, <1>4, <1>5, <1>6

LEMMA PerBitType ==
    ASSUME NEW r \in Rate
    PROVE  PerBit(r) \in Nat /\ PerBit(r) <= Second
<1>1. r \in Nat /\ Second \in Nat /\ 1 \in Nat \ {0}
  BY LimiterAssumption DEF Rate
<1>2. CASE r = 0
  BY <1>1, <1>2 DEF PerBit
<1>3. CASE r # 0
  <2>1. Second \div r \in Nat /\ Second \div r <= Second \div 1
    BY <1>1, <1>3, Quotient, QuotientShrinks
  <2>2. Second \div 1 = Second
    BY <1>1
  <2> QED
    BY <1>3, <2>1, <2>2 DEF PerBit
<1> QED
  BY <1>2, <1>3

\* The higher the rate, the less is charged for a bit.
LEMMA PerBitShrinks ==
    ASSUME NEW r \in Rate, NEW q \in Rate, r <= q
    PROVE  PerBit(q) <= PerBit(r)
<1>1. r \in Nat /\ q \in Nat /\ Second \in Nat
  BY LimiterAssumption DEF Rate
<1>2. CASE r = 0
  BY <1>2, PerBitType DEF PerBit
<1>3. CASE r # 0
  <2>1. r \in Nat \ {0} /\ q \in Nat \ {0}
    BY <1>1, <1>3
  <2>2. Second \div q <= Second \div r
    BY <1>1, <2>1, QuotientShrinks
  <2> QED
    BY <2>1, <2>2 DEF PerBit
<1> QED
  BY <1>2, <1>3

LEMMA TxTimeType ==
    ASSUME NEW size \in Size, NEW r \in Rate, r # 0
    PROVE  TxTime(size, r) \in Nat
<1>1. size \in Nat /\ Second \in Nat /\ r \in Nat \ {0}
  BY LimiterAssumption DEF Rate
<1>2. Second \div r \in Nat
  BY <1>1
<1> QED
  BY <1>1, <1>2 DEF TxTime

LEMMA BitrateType ==
    ASSUME NEW m \in Mbr
    PROVE  Bitrate(m) \in Rate
<1>1. m \in Nat /\ Kilo \in Nat /\ RateMod \in Nat \ {0}
  BY LimiterAssumption
<1>2. (m % RateMod) * Kilo \in Nat
  BY <1>1
<1> QED
  BY <1>1, <1>2 DEF Bitrate, Rate

LEMMA InitTypeOK == Init => TypeOK
<1> SUFFICES ASSUME Init PROVE TypeOK
  OBVIOUS
<1>1. 0 \in Rate /\ NoPacket \in Packet /\ Burst \in Nat
  BY LimiterAssumption DEF Rate, NoPacket, Packet
<1> QED
  BY <1>1 DEF Init, TypeOK

LEMMA NextTypeOK == TypeOK /\ [Next]_vars => TypeOK'
<1> SUFFICES ASSUME TypeOK, [Next]_vars
             PROVE  TypeOK'
  OBVIOUS
<1> USE LimiterAssumption
<1>1. ASSUME NEW r \in Rate, SetRow(r)
      PROVE  TypeOK'
  BY <1>1 DEF SetRow, TypeOK
<1>2. CASE \E m \in Mbr : UpdateQer(m)
  BY <1>1, <1>2, BitrateType DEF UpdateQer
<1>3. CASE UpdateQerKeepsRate
  BY <1>1, <1>3 DEF UpdateQerKeepsRate, TypeOK
<1>4. CASE \E r \in Rate : SetQerValue(r)
  BY <1>1, <1>4 DEF SetQerValue
<1>5. ASSUME NEW c \in Cpu, PassUnlimited(c)
      PROVE  TypeOK'
  BY <1>5 DEF PassUnlimited, vars, measurement, TypeOK
<1>6. ASSUME NEW c \in Cpu, NEW size \in Size, ReadClock(c, size)
      PROVE  TypeOK'
  <2>1. TxTime(size, rate) \in Nat
    BY <1>6, TxTimeType DEF ReadClock, TypeOK
  <2> QED
    BY <1>6, <2>1 DEF ReadClock, TypeOK, Packet
<1>7. ASSUME NEW c \in Cpu, ReadStart(c)
      PROVE  TypeOK'
  BY <1>7 DEF ReadStart, measurement, TypeOK, Packet, NoPacket
<1>8. ASSUME NEW c \in Cpu, WriteStart(c)
      PROVE  TypeOK'
  <2>1. cpu[c] \in Packet
    BY DEF TypeOK
  <2>2. NewStart(cpu[c]) \in Nat
    BY <2>1 DEF NewStart, Packet
  <2> QED
    BY <1>8, <2>1, <2>2 DEF WriteStart, TypeOK, Packet, NoPacket
<1>9. CASE Tick
  BY <1>9 DEF Tick, measurement, TypeOK
<1>10. CASE Measure
  BY <1>10 DEF Measure, TypeOK
<1>11. CASE UNCHANGED vars
  BY <1>11 DEF vars, measurement, TypeOK
<1> QED
  BY <1>2, <1>3, <1>4, <1>5, <1>6, <1>7, <1>8, <1>9, <1>10, <1>11 DEF Next

\* Rates stay uint32, and times, windows and volumes natural numbers: no step of the
\* limiter computes a time before the boot of the machine (now - window_size).
THEOREM LimiterTypes == Spec => []TypeOK
<1>1. TypeOK /\ [Next]_vars => TypeOK'
  BY NextTypeOK
<1> QED
  BY InitTypeOK, <1>1, PTL DEF Spec

-----------------------------------------------------------------------------
LEMMA PassedType ==
    ASSUME TypeOK
    PROVE  Passed \in Nat /\ PerBit(fastest) \in Nat
<1>1. bits \in Nat /\ PerBit(fastest) \in Nat
  BY PerBitType DEF TypeOK
<1> QED
  BY <1>1, ProductGrows DEF Passed

LEMMA InitInv == Init => Inv
<1> SUFFICES ASSUME Init PROVE Inv
  OBVIOUS
<1> USE LimiterAssumption
<1>1. TypeOK
  BY InitTypeOK
<1>2. Passed = 0
  BY <1>1, PerBitType DEF Passed, Init, TypeOK
<1>3. \A c \in Cpu : cpu[c].pc = "idle"
  BY DEF Init, NoPacket
<1>4. Measured
  BY <1>3 DEF Init, Measured
<1>5. \A c \in Cpu : Alone(c)
  BY <1>3 DEF Alone
<1>6. ASSUME NEW c \in Cpu
      PROVE  Charged(c)
  <2>1. LastClock(c) = 0
    BY <1>3 DEF LastClock, Init
  <2> QED
    BY <1>2, <2>1 DEF Charged, Init
<1> QED
  BY <1>1, <1>4, <1>5, <1>6 DEF Inv

-----------------------------------------------------------------------------
(* One lemma per step.  What is let through is charged whatever the races. *)

LEMMA SetRowInv ==
    ASSUME Inv, NEW r \in Rate, SetRow(r)
    PROVE  Inv'
<1> USE LimiterAssumption
<1>0. TypeOK /\ TypeOK'
  BY DEF SetRow, TypeOK, Inv
<1>1. /\ cpu' = cpu /\ now' = now /\ since' = since /\ bits' = bits /\ raced' = raced
      /\ start' = 0 /\ credit' = credit + Burst /\ rate' = r
      /\ fastest' \in Rate /\ r <= fastest' /\ fastest <= fastest'
  BY <1>0 DEF SetRow, TypeOK, Rate
<1>2. PerBit(fastest)' <= PerBit(fastest) /\ PerBit(fastest)' \in Nat
  BY <1>0, <1>1, PerBitShrinks, PerBitType DEF TypeOK, PerBit
<1>3. Passed' <= Passed /\ Passed \in Nat /\ Passed' \in Nat
  BY <1>0, <1>1, <1>2, PassedType, ProductGrows DEF Passed, TypeOK
<1>4. Measured'
  <2>1. ASSUME NEW c \in Cpu, cpu[c].pc # "idle"
        PROVE  cpu[c].size * PerBit(fastest)' <= cpu[c].tx
    <3>1. cpu[c] \in Packet
      BY <1>0 DEF TypeOK
    <3>2. cpu[c].size \in Nat /\ cpu[c].tx \in Nat
      BY <3>1 DEF Packet
    <3>3. cpu[c].size * PerBit(fastest)' <= cpu[c].size * PerBit(fastest)
          /\ cpu[c].size * PerBit(fastest)' \in Nat
          /\ cpu[c].size * PerBit(fastest) \in Nat
      BY <1>0, <1>2, <3>2, PassedType, ProductGrows
    <3>4. cpu[c].size * PerBit(fastest) <= cpu[c].tx
      BY <2>1 DEF Inv, Measured
    <3> QED
      BY <3>2, <3>3, <3>4
  <2>2. PerBit(fastest)' = PerBit(fastest')
    BY DEF PerBit
  <2> QED
    BY <1>0, <1>1, <2>1, <2>2 DEF Inv, Measured, TypeOK, Rate
<1>5. ASSUME NEW c \in Cpu, Alone(c), Charged(c)
      PROVE  Charged(c)'
  <2>1. cpu[c] \in Packet
    BY <1>0 DEF TypeOK
  <2>2. LastClock(c)' = LastClock(c) /\ LastClock(c) \in Nat
    BY <1>0, <1>1, <2>1 DEF LastClock, TypeOK, Packet
  <2>3. CASE cpu[c].pc = "write"
    <3>1. ChargedStart(c)' = ChargedStart(c) /\ ChargedStart(c) \in Nat
      BY <1>1, <2>1, <2>3 DEF ChargedStart, Packet
    <3> QED
      BY <1>0, <1>1, <1>3, <1>5, <2>2, <3>1 DEF Charged, TypeOK
  <2>4. CASE cpu[c].pc # "write"
    <3>1. ChargedStart(c) = start
      BY <2>4 DEF ChargedStart
    <3>2. Passed <= credit - Burst + LastClock(c) + Burst - since
      BY <1>0, <1>3, <1>5, <2>2, <3>1 DEF Charged, TypeOK
    <3> QED
      BY <1>0, <1>1, <1>3, <1>5, <2>2, <3>2 DEF Charged, TypeOK
  <2> QED
    BY <2>3, <2>4
<1>6. \A c \in Cpu : Alone(c)' = Alone(c)
  BY <1>1 DEF Alone
<1> QED
  BY <1>0, <1>1, <1>4, <1>5, <1>6 DEF Inv

\* A packet that was not raced has the limiter for itself.
LEMMA OnlyOne ==
    ASSUME Inv, ~raced, NEW c \in Cpu, cpu[c].pc # "idle"
    PROVE  Alone(c) /\ Charged(c)
BY DEF Inv, Alone

LEMMA ReadClockInv ==
    ASSUME Inv, NEW c \in Cpu, NEW size \in Size, ReadClock(c, size)
    PROVE  Inv'
<1> USE LimiterAssumption
<1>0. TypeOK /\ size \in Nat /\ rate \in Rate /\ rate # 0 /\ fastest \in Rate
  BY DEF ReadClock, Inv, TypeOK
<1>1. TxTime(size, rate) \in Nat /\ TxTime(size, rate) <= Burst
  BY <1>0, TxTimeType DEF ReadClock
<1>2. /\ cpu' = [cpu EXCEPT ![c] = [pc |-> "read", size |-> size, tx |-> TxTime(size, rate),
                                   clock |-> now, start |-> 0]]
      /\ raced' = (raced \/ \E d \in Cpu : cpu[d].pc # "idle")
      /\ UNCHANGED <<now, rate, start, since, bits, fastest, credit>>
  BY DEF ReadClock
<1>3. TypeOK'
  BY <1>0, <1>1, <1>2 DEF TypeOK, Packet
<1>4. size * PerBit(fastest) <= TxTime(size, rate)
  <2>1. PerBit(fastest) <= PerBit(rate) /\ PerBit(fastest) \in Nat /\ PerBit(rate) \in Nat
    BY <1>0, PerBitShrinks, PerBitType DEF Inv, Measured
  <2>2. TxTime(size, rate) = size * PerBit(rate)
    BY <1>0 DEF TxTime, PerBit
  <2> QED
    BY <1>0, <2>1, <2>2, ProductGrows
<1>5. Measured'
  BY <1>0, <1>1, <1>2, <1>4 DEF Inv, Measured, TypeOK, PerBit
<1>6. ASSUME ~raced'
      PROVE  Alone(c)' /\ Charged(c)' /\ \A d \in Cpu : Alone(d)' => d = c
  <2>1. Alone(c) /\ cpu[c].pc = "idle"
    BY <1>2, <1>6 DEF Alone
  <2>2. Charged(c)
    BY <1>2, <1>6, <2>1 DEF Inv
  <2>3. cpu'[c].pc = "read" /\ cpu'[c].clock = now
    BY <1>0, <1>2 DEF TypeOK
  <2>4. ChargedStart(c)' = ChargedStart(c) /\ LastClock(c)' = LastClock(c) /\ Passed' = Passed
    BY <1>2, <2>1, <2>3 DEF ChargedStart, LastClock, Passed, PerBit
  <2>5. Charged(c)'
    BY <1>2, <2>2, <2>4 DEF Charged
  <2> QED
    BY <1>0, <1>2, <2>1, <2>3, <2>5 DEF Alone, TypeOK
<1> QED
  BY <1>3, <1>5, <1>6 DEF Inv

LEMMA ReadStartInv ==
    ASSUME Inv, NEW c \in Cpu, ReadStart(c)
    PROVE  Inv'
<1> USE LimiterAssumption
<1> DEFINE p == cpu[c]
<1>0. TypeOK /\ p \in Packet /\ p.pc = "read" /\ p.start \in Nat /\ p.tx \in Nat /\ p.clock \in Nat
  BY DEF ReadStart, Inv, TypeOK, Packet
<1>1. /\ raced' = raced
      /\ UNCHANGED <<now, rate, start, since, bits, fastest, credit>>
  BY DEF ReadStart, measurement
<1>2. TypeOK'
  BY <1>0 DEF ReadStart, measurement, TypeOK, Packet, NoPacket
<1>3. Passed' = Passed
  BY <1>1 DEF Passed, PerBit
<1>4. CASE start + p.tx > p.clock
  <2>1. cpu' = [cpu EXCEPT ![c] = NoPacket]
    BY <1>4 DEF ReadStart
  <2>2. cpu'[c].pc = "idle" /\ \A d \in Cpu : d # c => cpu'[d] = cpu[d]
    BY <1>0, <2>1 DEF TypeOK, NoPacket
  <2>3. Measured'
    BY <1>1, <2>2 DEF Inv, Measured, PerBit
  <2>4. ASSUME ~raced
        PROVE  /\ \A d \in Cpu : cpu'[d].pc = "idle"
               /\ Charged(c)'
    <3>1. Alone(c) /\ Charged(c)
      BY <1>0, <2>4, OnlyOne
    <3>2. /\ ChargedStart(c)' = start /\ ChargedStart(c) = start
          /\ LastClock(c)' = now /\ LastClock(c) = p.clock
      BY <1>0, <1>1, <2>2 DEF ChargedStart, LastClock
    <3>3. p.clock <= now
      BY <1>0 DEF Inv, Measured
    <3>4. Charged(c)'
      BY <1>0, <1>1, <1>3, <3>1, <3>2, <3>3, PassedType DEF Charged, TypeOK
    <3> QED
      BY <2>2, <3>1, <3>4 DEF Alone
  <2>5. ASSUME ~raced'
        PROVE  \A d \in Cpu : Alone(d)' /\ Charged(d)'
    <3>1. \A d \in Cpu : cpu'[d].pc = "idle"
      BY <1>1, <2>4, <2>5
    <3>2. Charged(c)'
      BY <1>1, <2>4, <2>5
    <3> QED
      BY <3>1, <3>2 DEF Alone, Charged, ChargedStart, LastClock
  <2> QED
    BY <1>2, <2>3, <2>5 DEF Inv
<1>5. CASE ~(start + p.tx > p.clock)
  <2>1. cpu' = [cpu EXCEPT ![c] = [p EXCEPT !.pc = "write", !.start = start]]
    BY <1>5 DEF ReadStart
  <2>2. /\ cpu'[c].pc = "write" /\ cpu'[c].start = start /\ cpu'[c].size = p.size
        /\ cpu'[c].tx = p.tx /\ cpu'[c].clock = p.clock
        /\ \A d \in Cpu : d # c => cpu'[d] = cpu[d]
    BY <1>0, <2>1 DEF TypeOK, Packet
  <2>3. start + p.tx <= p.clock
    BY <1>0, <1>5 DEF TypeOK
  <2>4. Measured'
    BY <1>0, <1>1, <2>2, <2>3 DEF Inv, Measured, PerBit
  <2>5. ASSUME ~raced'
        PROVE  Alone(c)' /\ Charged(c)' /\ \A d \in Cpu : Alone(d)' => d = c
    <3>1. Alone(c) /\ Charged(c)
      BY <1>0, <1>1, <2>5, OnlyOne
    <3>2. ChargedStart(c)' = ChargedStart(c) /\ LastClock(c)' = LastClock(c)
      BY <1>0, <1>1, <2>2 DEF ChargedStart, LastClock
    <3>3. Charged(c)'
      BY <1>1, <1>3, <3>1, <3>2 DEF Charged
    <3> QED
      BY <2>2, <3>1, <3>3 DEF Alone
  <2> QED
    BY <1>2, <2>4, <2>5 DEF Inv
<1> QED
  BY <1>4, <1>5

LEMMA WriteStartInv ==
    ASSUME Inv, NEW c \in Cpu, WriteStart(c)
    PROVE  Inv'
<1> USE LimiterAssumption
<1> DEFINE p == cpu[c]
<1>0. /\ TypeOK /\ p \in Packet /\ p.pc = "write"
      /\ p.start \in Nat /\ p.tx \in Nat /\ p.clock \in Nat /\ p.size \in Nat
  BY DEF WriteStart, Inv, TypeOK, Packet
<1>1. /\ cpu' = [cpu EXCEPT ![c] = NoPacket]
      /\ start' = NewStart(p) /\ bits' = bits + p.size
      /\ UNCHANGED <<now, rate, since, fastest, raced, credit>>
  BY DEF WriteStart
<1>2. cpu'[c].pc = "idle" /\ \A d \in Cpu : d # c => cpu'[d] = cpu[d]
  BY <1>0, <1>1 DEF TypeOK, NoPacket
<1>3. /\ since <= p.clock /\ p.clock <= now /\ p.size * PerBit(fastest) <= p.tx
      /\ p.tx <= Burst /\ p.start + p.tx <= p.clock
  BY <1>0 DEF Inv, Measured
<1>4. /\ NewStart(p) \in Nat
      /\ NewStart(p) >= p.start + p.tx
      /\ NewStart(p) >= p.clock - Window + p.tx
      /\ NewStart(p) <= p.clock + Burst - Window
  BY <1>0, <1>3 DEF NewStart
<1>5. TypeOK'
  BY <1>0, <1>1, <1>4 DEF TypeOK, Packet, NoPacket
<1>6. Measured'
  BY <1>0, <1>1, <1>2, <1>3, <1>4 DEF Inv, Measured, PerBit, TypeOK
<1>7. Passed' <= Passed + p.tx /\ Passed \in Nat /\ Passed' \in Nat
  <2>1. PerBit(fastest)' = PerBit(fastest) /\ PerBit(fastest) \in Nat /\ bits \in Nat
    BY <1>0, <1>1, PassedType DEF PerBit, TypeOK
  <2>2. (bits + p.size) * PerBit(fastest) = bits * PerBit(fastest) + p.size * PerBit(fastest)
    BY <1>0, <2>1
  <2>3. p.size * PerBit(fastest) \in Nat /\ bits * PerBit(fastest) \in Nat
    BY <1>0, <2>1, ProductGrows
  <2> QED
    BY <1>0, <1>1, <1>3, <2>1, <2>2, <2>3 DEF Passed
<1>8. ASSUME ~raced
      PROVE  (\A d \in Cpu : cpu'[d].pc = "idle") /\ Charged(c)'
  <2>1. Alone(c) /\ Charged(c)
    BY <1>0, <1>8, OnlyOne
  <2>2. /\ ChargedStart(c)' = NewStart(p) /\ ChargedStart(c) = p.start
        /\ LastClock(c)' = now /\ LastClock(c) = p.clock
    BY <1>0, <1>1, <1>2 DEF ChargedStart, LastClock
  <2>3. Passed' <= credit - Burst + (NewStart(p) + Window) - since
    BY <1>0, <1>4, <1>7, <2>1, <2>2 DEF Charged, TypeOK
  <2>4. Charged(c)'
    BY <1>0, <1>1, <1>3, <1>4, <2>2, <2>3 DEF Charged, TypeOK
  <2> QED
    BY <1>2, <2>1, <2>4 DEF Alone
<1>9. ASSUME ~raced'
      PROVE  \A d \in Cpu : Alone(d)' /\ Charged(d)'
  <2>1. \A d \in Cpu : cpu'[d].pc = "idle"
    BY <1>1, <1>8, <1>9
  <2>2. Charged(c)'
    BY <1>1, <1>8, <1>9
  <2> QED
    BY <2>1, <2>2 DEF Alone, Charged, ChargedStart, LastClock
<1> QED
  BY <1>5, <1>6, <1>9 DEF Inv

LEMMA TickInv ==
    ASSUME Inv, Tick
    PROVE  Inv'
<1> USE LimiterAssumption
<1>0. TypeOK /\ TypeOK'
  BY DEF Tick, measurement, TypeOK, Inv
<1>1. now' = now + 1 /\ UNCHANGED <<rate, start, cpu, since, bits, fastest, raced, credit>>
  BY DEF Tick, measurement
<1>2. Measured'
  BY <1>0, <1>1 DEF Inv, Measured, PerBit, TypeOK, Packet
<1>3. ASSUME NEW c \in Cpu, Charged(c)
      PROVE  Charged(c)'
  <2>1. cpu[c] \in Packet
    BY <1>0 DEF TypeOK
  <2>2. ChargedStart(c)' = ChargedStart(c) /\ ChargedStart(c) \in Nat
        /\ Passed' = Passed /\ Passed \in Nat
    BY <1>0, <1>1, <2>1, PassedType DEF ChargedStart, TypeOK, Packet, Passed, PerBit
  <2>3. LastClock(c) \in Nat /\ LastClock(c)' \in Nat /\ LastClock(c) <= LastClock(c)'
    BY <1>0, <1>1, <2>1 DEF LastClock, TypeOK, Packet
  <2> QED
    BY <1>0, <1>1, <1>3, <2>2, <2>3 DEF Charged, TypeOK
<1>4. \A c \in Cpu : Alone(c)' = Alone(c)
  BY <1>1 DEF Alone
<1> QED
  BY <1>0, <1>1, <1>2, <1>3, <1>4 DEF Inv

LEMMA MeasureInv ==
    ASSUME Inv, Measure
    PROVE  Inv'
<1> USE LimiterAssumption
<1>0. TypeOK /\ TypeOK'
  BY DEF Measure, TypeOK, Inv
<1>1. /\ \A c \in Cpu : cpu[c].pc = "idle"
      /\ since' = now /\ bits' = 0 /\ fastest' = rate /\ raced' = FALSE /\ credit' = Burst
      /\ UNCHANGED <<now, rate, start, cpu>>
  BY DEF Measure
<1>2. Measured'
  BY <1>0, <1>1 DEF Inv, Measured, TypeOK, Rate
<1>3. PerBit(fastest)' \in Nat
  BY <1>0, <1>1, PerBitType DEF TypeOK, PerBit
<1>4. Passed' = 0
  BY <1>1, <1>3 DEF Passed
<1>5. start <= now + Burst - Window
  BY DEF Inv, Measured
<1>6. \A c \in Cpu : Alone(c)' /\ Charged(c)'
  BY <1>0, <1>1, <1>4, <1>5 DEF Alone, Charged, ChargedStart, LastClock, TypeOK
<1> QED
  BY <1>0, <1>2, <1>6 DEF Inv

LEMMA NextInv == Inv /\ [Next]_vars => Inv'
<1> SUFFICES ASSUME Inv, [Next]_vars PROVE Inv'
  OBVIOUS
<1>1. CASE \E m \in Mbr : UpdateQer(m)
  BY <1>1, SetRowInv, BitrateType DEF UpdateQer
<1>2. CASE UpdateQerKeepsRate
  BY <1>2, SetRowInv DEF UpdateQerKeepsRate, Inv, TypeOK
<1>3. CASE \E r \in Rate : SetQerValue(r)
  BY <1>3, SetRowInv DEF SetQerValue
<1>4. CASE (\E c \in Cpu : PassUnlimited(c)) \/ UNCHANGED vars
  BY <1>4 DEF PassUnlimited, vars, measurement, Inv, TypeOK, Measured, Alone, Charged,
              ChargedStart, LastClock, Passed, PerBit
<1>5. CASE \E c \in Cpu, size \in Size : ReadClock(c, size)
  BY <1>5, ReadClockInv
<1>6. CASE \E c \in Cpu : ReadStart(c) \/ WriteStart(c)
  BY <1>6, ReadStartInv, WriteStartInv
<1>7. CASE Tick \/ Measure
  BY <1>7, TickInv, MeasureInv
<1> QED
  BY <1>1, <1>2, <1>3, <1>4, <1>5, <1>6, <1>7 DEF Next

-----------------------------------------------------------------------------
\* From the time charged to the bits let through.
LEMMA ChargedTime ==
    ASSUME Inv, ~raced
    PROVE  Passed <= (now - since) + credit
<1> USE LimiterAssumption
<1>1. PICK c \in Cpu : Alone(c) /\ Charged(c)
  BY DEF Inv
<1>2. TypeOK /\ cpu[c] \in Packet /\ Passed \in Nat
  BY PassedType DEF Inv, TypeOK
<1>3. LastClock(c) \in Nat /\ ChargedStart(c) \in Nat /\ LastClock(c) <= now
  BY <1>2 DEF LastClock, ChargedStart, TypeOK, Packet, Inv, Measured
<1>4. ChargedStart(c) + Window <= LastClock(c) + Burst
  BY <1>1, <1>2, <1>3 DEF Charged, ChargedStart, LastClock, TypeOK, Packet, Inv, Measured
<1> QED
  BY <1>1, <1>2, <1>3, <1>4 DEF Charged, TypeOK

LEMMA InvLimits == Inv => RateIsLimited
<1> SUFFICES ASSUME Inv, 0 < fastest, fastest <= Second, ~raced
             PROVE  bits * Second <= Rounding(fastest) * fastest * ((now - since) + credit)
  BY DEF RateIsLimited
<1> USE LimiterAssumption
<1> DEFINE r == fastest
           q == Second \div r
           m == Second % r
           time == (now - since) + credit
<1>1. bits \in Nat /\ r \in Nat \ {0} /\ time \in Nat /\ Second \in Nat
  BY DEF Inv, TypeOK, Rate, Measured
<1>2. q \in Nat /\ m \in 0 .. r - 1 /\ Second = r * q + m
  BY <1>1, Quotient
<1>3. bits * q <= time
  BY <1>1, ChargedTime DEF Passed, PerBit
<1> HIDE DEF r, q, m, time
<1>4. q >= 1
  <2>1. CASE q = 0
    BY <1>1, <1>2, <2>1 DEF r
  <2> QED
    BY <1>2, <2>1
<1>5. /\ r * (bits * q) <= r * time
      /\ r * (bits * q) \in Nat /\ r * time \in Nat /\ bits * q \in Nat
  BY <1>1, <1>2, <1>3, ProductGrows
<1>6. bits * Second = r * (bits * q) + bits * m
  <2>1. bits * (r * q + m) = bits * (r * q) + bits * m
    BY <1>1, <1>2
  <2>2. bits * (r * q) = r * (bits * q)
    BY <1>1, <1>2
  <2> QED
    BY <1>2, <2>1, <2>2
<1>7. CASE m = 0
  <2>1. Rounding(r) = 1
    BY <1>7 DEF Rounding, m
  <2>2. bits * m = 0
    BY <1>1, <1>7
  <2> QED
    BY <1>1, <1>5, <1>6, <2>1, <2>2 DEF r, time
<1>8. CASE m # 0
  <2>1. Rounding(r) = 2
    BY <1>8 DEF Rounding, m
  <2>2. bits * m <= bits * r /\ bits * m \in Nat /\ bits * r \in Nat
    BY <1>1, <1>2, ProductGrows
  <2>3. bits * 1 <= bits * q /\ bits * 1 = bits
    BY <1>1, <1>2, <1>4, ProductGrows
  <2>4. r * bits <= r * (bits * q) /\ r * bits = bits * r
    BY <1>1, <1>5, <2>3, ProductGrows
  <2>5. bits * Second <= r * time + r * time
    BY <1>1, <1>5, <1>6, <2>2, <2>4
  <2>6. 2 * r * time = r * time + r * time
    BY <1>1
  <2> QED
    BY <2>1, <2>5, <2>6 DEF r, time
<1> QED
  BY <1>7, <1>8

\* For every number of CPUs, rate up to a bit per nanosecond, packet size, window and
\* sequence of reconfigurations, wherever these fall between a packet's steps: the bits
\* let through stay within the rate (twice the rate where it does not divide a second)
\* in every interval in which no two CPUs had packets of the QER in hand at once.
THEOREM RateLimitHolds == Spec => []RateIsLimited
<1>1. Inv /\ [Next]_vars => Inv'
  BY NextInv
<1>2. Inv => RateIsLimited
  BY InvLimits
<1> QED
  BY InitInv, <1>1, <1>2, PTL DEF Spec
=============================================================================
