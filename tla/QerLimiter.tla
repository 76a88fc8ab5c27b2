------------------------------ MODULE QerLimiter ------------------------------
(***************************************************************************)
(* The rate limiter of one QER in one direction: limit_rate_sliding_window *)
(* of cmd/ebpf/xdp/qer.h, run by every CPU that has a packet of the QER,   *)
(* and the writers of the row, updateQer and the REST handler setQerValue, *)
(* which start the window anew.                                            *)
(*                                                                         *)
(* Times are nanoseconds since boot.  A packet reads the clock, then the   *)
(* start of the window, and writes the start back; nothing locks the row,  *)
(* so a step of another CPU or of a writer may come in between.            *)
(***************************************************************************)
EXTENDS Integers

CONSTANTS
    Cpu,        \* CPUs that run the XDP program
    Size,       \* sizes of packets, in bits
    Mbr,        \* maximum bitrates of PFCP, in kilobits per second
    Kilo,       \* 1000
    RateMod,    \* 2^32: rates are uint32
    Second,     \* NSEC_PER_SEC
    Window,     \* window_size
    Burst,      \* bound: no packet takes longer than this to transmit
    MaxNow,     \* bound: end of time
    MaxBits,    \* bound: bits let through in one measurement
    MaxCredit   \* bound: end of reconfigurations in one measurement

ASSUME LimiterAssumption ==
    /\ Cpu # {}
    /\ Size \subseteq Nat /\ Mbr \subseteq Nat
    /\ Kilo \in Nat /\ RateMod \in Nat \ {0} /\ Second \in Nat
    /\ Window \in Nat /\ Burst \in Nat /\ Window <= Burst
    /\ MaxNow \in Nat /\ MaxBits \in Nat /\ MaxCredit \in Nat

VARIABLES
    now,     \* the clock
    rate,    \* ul_maximum_bitrate or dl_maximum_bitrate
    start,   \* ul_start or dl_start
    cpu,     \* the packet each CPU is at: its size, tx_time, clock and start read
    since,   \* when a measurement began (history)
    bits,    \* bits let through since, while a rate was in force (history)
    fastest, \* the highest rate in force since (history)
    raced,   \* two CPUs had packets in hand at once since (history)
    credit   \* Burst, once and once more for each reconfiguration since (history)

measurement == <<since, bits, fastest, raced, credit>>

vars == <<now, rate, start, cpu, measurement>>

Rate == 0 .. RateMod - 1

Packet == [pc : {"idle", "read", "write"}, size : Nat, tx : Nat, clock : Nat, start : Nat]
NoPacket == [pc |-> "idle", size |-> 0, tx |-> 0, clock |-> 0, start |-> 0]

\* Every variable has its type.
TypeOK ==
    /\ now \in Nat /\ rate \in Rate /\ start \in Nat
    /\ cpu \in [Cpu -> Packet]
    /\ since \in Nat /\ bits \in Nat /\ fastest \in Rate
    /\ raced \in BOOLEAN /\ credit \in Nat

Init ==
    /\ now = 0 /\ rate = 0 /\ start = 0
    /\ cpu = [c \in Cpu |-> NoPacket]
    /\ since = 0 /\ bits = 0 /\ fastest = 0 /\ raced = FALSE /\ credit = Burst

-----------------------------------------------------------------------------
(* Writers of the row *)

\* Mutant of Bitrate: the product is not cut to 32 bits.
BitrateUnbounded(m) == (m % RateMod) * Kilo

\* uint32(maxBitrate) * 1000, in 32 bits.
Bitrate(m) == ((m % RateMod) * Kilo) % RateMod

SetRow(r) ==
    /\ credit + Burst <= MaxCredit
    /\ rate' = r
    /\ start' = 0
    /\ fastest' = IF r > fastest THEN r ELSE fastest
    /\ credit' = credit + Burst
    /\ UNCHANGED <<now, cpu, since, bits, raced>>

\* Create QER or Update QER with an MBR, or an update without, that keeps the rate.
UpdateQer(m) == SetRow(Bitrate(m))
UpdateQerKeepsRate == SetRow(rate)

\* PUT of a QER: the rate is taken as it comes.  DeleteQer does the same with rate 0.
SetQerValue(r) == SetRow(r)

-----------------------------------------------------------------------------
(* limit_rate_sliding_window *)

\* packet_size * 8 * (NSEC_PER_SEC / rate), an integer division.
TxTime(size, r) == size * (Second \div r)

\* Rate 0: the packet passes, and nothing is read or written.
PassUnlimited(c) ==
    /\ cpu[c].pc = "idle"
    /\ rate = 0
    /\ UNCHANGED vars

ReadClock(c, size) ==
    /\ cpu[c].pc = "idle"
    /\ rate # 0
    /\ TxTime(size, rate) <= Burst
    /\ bits + size <= MaxBits
    /\ cpu' = [cpu EXCEPT ![c] = [pc |-> "read", size |-> size, tx |-> TxTime(size, rate),
                                  clock |-> now, start |-> 0]]
    /\ raced' = (raced \/ \E d \in Cpu : cpu[d].pc # "idle")
    /\ UNCHANGED <<now, rate, start, since, bits, fastest, credit>>

\* The packet is dropped when the window has no room for it.
ReadStart(c) ==
    /\ cpu[c].pc = "read"
    /\ cpu' = [cpu EXCEPT ![c] = IF start + cpu[c].tx > cpu[c].clock
                                 THEN NoPacket
                                 ELSE [cpu[c] EXCEPT !.pc = "write", !.start = start]]
    /\ UNCHANGED <<now, rate, start, measurement>>

\* Mutant of NewStart: an idle window is moved to the present, uncharged.
NewStartUncharged(p) ==
    IF p.start + Window < p.clock THEN p.clock - Window ELSE p.start + p.tx

\* An idle window is moved up to the present; the packet is charged.
NewStart(p) ==
    IF p.start + Window < p.clock THEN p.clock - Window + p.tx ELSE p.start + p.tx

WriteStart(c) ==
    /\ cpu[c].pc = "write"
    /\ start' = NewStart(cpu[c])
    /\ bits' = bits + cpu[c].size
    /\ cpu' = [cpu EXCEPT ![c] = NoPacket]
    /\ UNCHANGED <<now, rate, since, fastest, raced, credit>>

-----------------------------------------------------------------------------
Tick ==
    /\ now < MaxNow
    /\ now' = now + 1
    /\ UNCHANGED <<rate, start, cpu, measurement>>

\* A measurement may begin whenever no packet is being handled.
Measure ==
    /\ \A c \in Cpu : cpu[c].pc = "idle"
    /\ since' = now /\ bits' = 0 /\ fastest' = rate
    /\ raced' = FALSE /\ credit' = Burst
    /\ UNCHANGED <<now, rate, start, cpu>>

Next ==
    \/ \E m \in Mbr : UpdateQer(m)
    \/ UpdateQerKeepsRate
    \/ \E r \in Rate : SetQerValue(r)
    \/ \E c \in Cpu :
         \/ PassUnlimited(c)
         \/ \E size \in Size : ReadClock(c, size)
         \/ ReadStart(c)
         \/ WriteStart(c)
    \/ Tick
    \/ Measure

Spec == Init /\ [][Next]_vars

-----------------------------------------------------------------------------
(* Properties *)

\* What the integer division of TxTime costs: nothing at a rate that divides a second,
\* and less than a factor of two at any other rate up to a bit per nanosecond.
Rounding(r) == IF Second % r = 0 THEN 1 ELSE 2

\* "Basic QoS support with per-session rate limiting" (README.md:138): in any
\* interval of time, the bits let through are no more than the highest rate in force
\* carries (up to Rounding) in the time the interval lasts, plus one burst (the window,
\* or the longest packet if that is longer), plus one for each time the row was
\* written in it.  Two cases are left out by name: rates above a bit per nanosecond,
\* whose tx_time is 0, so that nothing is limited; and packets of one QER in hand on
\* two CPUs at once, of which only one is charged.
RateIsLimited ==
    0 < fastest /\ fastest <= Second /\ ~raced
    => bits * Second <= Rounding(fastest) * fastest * ((now - since) + credit)
=============================================================================
