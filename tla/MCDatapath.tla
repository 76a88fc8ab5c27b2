----------------------------- MODULE MCDatapath -----------------------------
(* Instances of Datapath for TLC. *)
EXTENDS Datapath, TLC

\* Two FARs and two QERs for two sessions: released ids are soon handed out again.
TightPool == [far |-> 2, qer |-> 2, urr |-> 1]

\* The rule ids a run's peer uses.
TwoFarsAndQer == [far |-> {1, 2}, qer |-> {1}, urr |-> {}]
FarAndQer == [far |-> {1}, qer |-> {1}, urr |-> {}]

\* UE addresses are interchangeable.
Addresses == Permutations(UeIp4)

\* What the steps and DpTypeOK and UndisturbedForwarding can tell apart: left out are
\* how the last request was answered, the history of slots, the ids of a packet that
\* has left, and whose a packet is once a request of its session was applied.
Seen(p) ==
    IF p.pc = "done" THEN IF p.touched THEN <<"done">> ELSE <<p.key, p.sdf, p.out, p.to, p.owner>>
    ELSE IF p.touched THEN <<p.pc, Uplink(p.key), p.far, p.qer>>
    ELSE <<p.pc, p.key, p.sdf, p.far, p.qer, p.owner>>

SessionsView ==
    <<assoc, nextSeid, stored, rules, pdrs, free, slot, pdrMap, cur,
      [c \in Cpu |-> Seen(pkt[c])]>>
=============================================================================
