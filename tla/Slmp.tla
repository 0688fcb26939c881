-------------------------------- MODULE Slmp --------------------------------
(***************************************************************************)
(* The sender of the sPIN Lightweight Message Protocol, lib/fpspin/slmp.c. *)
(* slmp_sendmsg sends the first packet of a message and waits for its ACK, *)
(* then has the packets in between sent by several threads, each with its  *)
(* own part of the window but all on one socket, then sends the last one   *)
(* and waits for what is still unacknowledged.  An ACK is only counted: it *)
(* is credited to whichever thread reads it.  Packets and ACKs travel in   *)
(* any order, and may be late or lost; a reply may be malformed.           *)
(*                                                                         *)
(* The receiver (handlers on the NIC) acknowledges a packet that asks for  *)
(* it.  Left out: contents of packets, and datagrams that are duplicated.  *)
(***************************************************************************)
EXTENDS Integers, Sequences, FiniteSets, FiniteSetsExt

CONSTANTS NumThreads,   \* sock->num_threads
          WndSizes,     \* window sizes of the calls considered
          Lengths,      \* packets of the messages considered
          MaxSlmpFaults \* packets lost, late or malformed

ASSUME SlmpAssumption ==
  /\ NumThreads \in Nat \ {0} /\ WndSizes \subseteq Nat /\ Lengths \subseteq Nat \ {0}
  /\ MaxSlmpFaults \in Nat

VARIABLES
  call,     \* [wnd, len]: arguments of slmp_sendmsg
  actor,    \* the caller (0) and its threads: [pc, pkt, win, got]
  result,      \* result so far
  exit_flag,
  wire,     \* packets on their way: [pkt, syn]
  rcvd,     \* packets the receiver has
  acks,     \* ACKs on their way
  queued,   \* replies at the socket: [good, bad]
  slmpFaults

slmpVars == <<call, actor, result, exit_flag, wire, rcvd, acks, queued, slmpFaults>>

Main == 0
Workers == 1..NumThreads
Packets == 0..call.len-1

\* The window is divided among the threads, rounded up.
window_thread_limit == (call.wnd + NumThreads - 1) \div NumThreads
window_total == window_thread_limit * NumThreads
ack_for_all == call.wnd > 0

\* Static schedule of the parallel loop: the packets from the second to the one
\* before the last, in consecutive parts.
Middle == IF call.len > 2 THEN call.len - 2 ELSE 0
Part(w) ==
  LET q == Middle \div NumThreads  r == Middle % NumThreads
      before == (w - 1) * q + Min({w - 1, r}) IN
  [first |-> 1 + before, last |-> before + q + (IF w <= r THEN 1 ELSE 0)]

Actor(pc) == [pc |-> pc, pkt |-> 0, win |-> 0, got |-> 0]
SlmpInit ==
  /\ call \in [wnd : WndSizes, len : Lengths]
  /\ actor = [a \in {Main} \union Workers |-> Actor(IF a = Main THEN "syn" ELSE "off")]
  /\ result = 0 /\ exit_flag = FALSE
  /\ wire = {} /\ rcvd = {} /\ acks = 0 /\ queued = [good |-> 0, bad |-> 0]
  /\ slmpFaults = 0

SlmpFault == slmpFaults < MaxSlmpFaults /\ slmpFaults' = slmpFaults + 1
Become(a, r) == actor' = [actor EXCEPT ![a] = r]

\* sendto, then one less in the window.
SendPacket(p, syn) == wire' = wire \union {[pkt |-> p, syn |-> syn]}

---------------------------------------------------------------------------
(* slmp_sendmsg.                                                           *)
\* The first packet, which has a window of its own.
SendSyn ==
  /\ actor[Main].pc = "syn"
  /\ SendPacket(0, TRUE)
  /\ Become(Main, [actor[Main] EXCEPT !.pc = "synack"])
  /\ UNCHANGED <<call, result, exit_flag, rcvd, acks, queued, slmpFaults>>

Fork ==
  /\ actor[Main].pc = "fork"
  /\ actor' = [a \in {Main} \union Workers |->
                 IF a = Main THEN Actor("join")
                 ELSE [pc |-> "next", pkt |-> Part(a).first, win |-> window_thread_limit, got |-> 0]]
  /\ UNCHANGED <<call, result, exit_flag, wire, rcvd, acks, queued, slmpFaults>>

\* One iteration of the loop: nothing once a thread has failed; otherwise
\* send_single, which first waits for room in the window if the packet will be
\* acknowledged.
Iterate(w) ==
  LET r == actor[w] IN
  /\ r.pc = "next"
  /\ Become(w, IF exit_flag \/ r.pkt > Part(w).last THEN [r EXCEPT !.pc = "off"]
            ELSE IF ack_for_all /\ r.win = 0 THEN [r EXCEPT !.pc = "reclaim", !.got = 0]
            ELSE [r EXCEPT !.pc = "send"])
  /\ UNCHANGED <<call, result, exit_flag, wire, rcvd, acks, queued, slmpFaults>>

SendOne(w) ==
  LET r == actor[w] IN
  /\ w \in Workers /\ r.pc = "send"
  /\ SendPacket(r.pkt, ack_for_all)
  /\ Become(w, [r EXCEPT !.pc = "next", !.pkt = @ + 1, !.win = @ - 1])
  /\ UNCHANGED <<call, result, exit_flag, rcvd, acks, queued, slmpFaults>>

\* The windows are collected and the last packet is sent, unless a thread has
\* failed or the first packet was the last.
Join ==
  LET left == MapThenSumSet(LAMBDA w : actor[w].win, Workers) IN
  /\ actor[Main].pc = "join" /\ \A w \in Workers : actor[w].pc = "off"
  /\ Become(Main, [pc |-> IF result # 0 THEN "end" ELSE IF call.len = 1 THEN "final"
                       ELSE IF left = 0 THEN "reclaim" ELSE "send",
                pkt |-> call.len - 1, win |-> left, got |-> 0])
  /\ UNCHANGED <<call, result, exit_flag, wire, rcvd, acks, queued, slmpFaults>>

SendLast ==
  LET r == actor[Main] IN
  /\ r.pc = "send"
  /\ SendPacket(r.pkt, TRUE)
  /\ Become(Main, [r EXCEPT !.pc = "final", !.win = @ - 1, !.got = 0])
  /\ UNCHANGED <<call, result, exit_flag, rcvd, acks, queued, slmpFaults>>

\* A packet that cannot be sent before the timeout.
Failed(a) ==
  /\ result' = -1
  /\ exit_flag' = TRUE
  /\ Become(a, [actor[a] EXCEPT !.pc = IF a = Main THEN "final" ELSE "off", !.got = 0])
SendTimeout(a) ==
  /\ actor[a].pc = "send" /\ SlmpFault
  /\ Failed(a)
  /\ UNCHANGED <<call, wire, rcvd, acks, queued>>
SynTimeout ==
  /\ actor[Main].pc = "syn" /\ SlmpFault
  /\ result' = -3
  /\ Become(Main, [actor[Main] EXCEPT !.pc = "end"])
  /\ UNCHANGED <<call, exit_flag, wire, rcvd, acks, queued>>

---------------------------------------------------------------------------
(* drain_ack_timeout.                                                      *)
Draining(a) == actor[a].pc \in {"synack", "reclaim", "final"}
need_all(a) == actor[a].pc # "reclaim"
to_expect(a) ==
  CASE actor[a].pc = "synack" -> 1
    [] actor[a].pc = "final" -> window_total - actor[a].win
    [] OTHER -> IF a = Main THEN window_total ELSE window_thread_limit

\* Mutant: a thread that has drained the socket starts with a full window.
Reclaimed_Full(a, v) == IF a = Main THEN window_total ELSE window_thread_limit

\* What was drained is added to the window (a failure, -1, too).
Reclaimed(a, v) == actor[a].win + v

\* What the caller of drain_ack_timeout does with its result.
Drained(a, v) ==
  LET r == actor[a] IN
  CASE r.pc = "synack" ->
         /\ Become(a, [r EXCEPT !.pc = IF v = 0 THEN "end" ELSE "fork"])
         /\ result' = IF v = 0 THEN -2 ELSE result
         /\ UNCHANGED exit_flag
    [] r.pc = "reclaim" ->
         IF v = 0 THEN Failed(a)
         ELSE /\ Become(a, [r EXCEPT !.pc = "send", !.win = Reclaimed(a, v), !.got = 0])
              /\ UNCHANGED <<result, exit_flag>>
    [] r.pc = "final" ->
         /\ Become(a, [r EXCEPT !.pc = "end"])
         /\ result' = IF v < to_expect(a) THEN -1 ELSE result
         /\ UNCHANGED exit_flag

\* drain_ack: one reply.
RecvAck(a) ==
  LET n == actor[a].got + 1 IN
  /\ Draining(a) /\ actor[a].got < to_expect(a) /\ queued.good > 0
  /\ queued' = [queued EXCEPT !.good = @ - 1]
  /\ IF n = to_expect(a) THEN Drained(a, n)
     ELSE Become(a, [actor[a] EXCEPT !.got = n]) /\ UNCHANGED <<result, exit_flag>>
  /\ UNCHANGED <<call, wire, rcvd, acks, slmpFaults>>
RecvBad(a) ==
  /\ Draining(a) /\ actor[a].got < to_expect(a) /\ queued.bad > 0
  /\ queued' = [queued EXCEPT !.bad = @ - 1]
  /\ Drained(a, -1)
  /\ UNCHANGED <<call, wire, rcvd, acks, slmpFaults>>

SocketEmpty == queued.good = 0 /\ queued.bad = 0
\* Nothing to wait for, or nothing more at the socket and some will do.
NoMore(a) ==
  /\ Draining(a)
  /\ \/ to_expect(a) <= 0
     \/ ~need_all(a) /\ actor[a].got > 0 /\ SocketEmpty
  /\ Drained(a, actor[a].got)
  /\ UNCHANGED <<call, wire, rcvd, acks, queued, slmpFaults>>

\* The deadline.  It is far enough away that a reply arrives before it, unless
\* there is none or it is late.
Deadline(a) ==
  /\ Draining(a) /\ SocketEmpty /\ to_expect(a) > 0
  /\ IF wire = {} /\ acks = 0 THEN UNCHANGED slmpFaults ELSE SlmpFault
  /\ Drained(a, actor[a].got)
  /\ UNCHANGED <<call, wire, rcvd, acks, queued>>

---------------------------------------------------------------------------
(* The network and the receiver.                                           *)
Arrive(m) ==
  /\ wire' = wire \ {m}
  /\ rcvd' = rcvd \union {m.pkt}
  /\ acks' = acks + (IF m.syn THEN 1 ELSE 0)
  /\ UNCHANGED <<call, actor, result, exit_flag, queued, slmpFaults>>
Lose(m) ==
  /\ SlmpFault
  /\ wire' = wire \ {m}
  /\ UNCHANGED <<call, actor, result, exit_flag, rcvd, acks, queued>>
AckArrives(how) ==
  /\ acks > 0 /\ acks' = acks - 1
  /\ IF how = "good" THEN UNCHANGED slmpFaults ELSE SlmpFault
  /\ queued' = CASE how = "good" -> [queued EXCEPT !.good = @ + 1]
                 [] how = "bad" -> [queued EXCEPT !.bad = @ + 1]
                 [] how = "lost" -> queued
  /\ UNCHANGED <<call, actor, result, exit_flag, wire, rcvd>>

Sender == \/ SendSyn \/ SynTimeout \/ Fork \/ Join \/ SendLast
          \/ \E w \in Workers : Iterate(w) \/ SendOne(w)
          \/ \E a \in DOMAIN actor :
               SendTimeout(a) \/ RecvAck(a) \/ RecvBad(a) \/ NoMore(a) \/ Deadline(a)
Network == \/ \E m \in wire : Arrive(m) \/ Lose(m)
           \/ \E how \in {"good", "bad", "lost"} : AckArrives(how)
SlmpNext == Sender \/ Network

\* Threads are scheduled, time passes, and what is on its way arrives or not.
SlmpFairness == WF_slmpVars(Sender) /\ WF_slmpVars(Network)
SlmpSpec == SlmpInit /\ [][SlmpNext]_slmpVars /\ SlmpFairness

---------------------------------------------------------------------------
SlmpDone == actor[Main].pc = "end"

\* What slmp_sendmsg returns is true: 0 only if the receiver has every packet,
\* although ACKs say nothing of which packet they are for and are credited to
\* any thread; and an error only if something was lost, late or malformed, so
\* no thread is starved of ACKs that another one took.
SlmpTruthful ==
  SlmpDone => /\ result = 0 => rcvd = Packets
              /\ result # 0 => slmpFaults > 0
============================================================================
