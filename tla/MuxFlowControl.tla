--------------------------- MODULE MuxFlowControl ---------------------------
(***************************************************************************)
(* Per-stream flow control of the mux (src/mux/connection/stream/          *)
(* flow_control.rs): the send window at one end of a stream, the receive   *)
(* window and its auto-tuned maximum at the other, the payload and credit  *)
(* between them, and the connection-wide account of what auto-tuning has   *)
(* handed out beyond DEFAULT_CREDIT.                                       *)
(*                                                                         *)
(* A flow <<r, i>> is the direction of stream i that side r receives.      *)
(***************************************************************************)
EXTENDS Integers, FiniteSets, FiniteSetsExt

CONSTANTS
  Receivers,  \* the two ends of the connection, as receiving sides
  StreamIds,
  Credit,     \* DEFAULT_CREDIT
  MaxStreams, \* Config::max_num_streams
  ConnLimit,  \* Config::max_connection_receive_window
  MaxWindow   \* u32::MAX

ASSUME FlowAssumption ==
  /\ Credit \in Nat \ {0} /\ MaxStreams \in Nat \ {0}
  /\ ConnLimit \in Nat /\ MaxWindow \in Nat
  /\ Credit <= MaxWindow
  /\ MaxStreams * Credit <= ConnLimit  \* asserted by the Config setters

Flows == Receivers \X StreamIds

VARIABLES
  life,   \* "none", "live", "cut" (an end is gone, frames may be dropped), "gone"
  sw,     \* send_window of the sender
  rw,     \* receive_window of the receiver
  maxw,   \* max_receive_window of the receiver
  buf,    \* bytes in the receiver's Chunks
  flight, \* payload between the two
  back,   \* credit between the two
  acc     \* accumulated_max_stream_windows, per receiving side

fvars == <<life, sw, rw, maxw, buf, flight, back, acc>>

Least(a, b) == IF a <= b THEN a ELSE b

Live(f) == life[f] = "live"
Controllers(r) == {i \in StreamIds : life[<<r, i>>] \in {"live", "cut"}}

FInit ==
  /\ life = [f \in Flows |-> "none"]
  /\ sw = [f \in Flows |-> Credit]
  /\ rw = [f \in Flows |-> Credit]
  /\ maxw = [f \in Flows |-> Credit]
  /\ buf = [f \in Flows |-> 0]
  /\ flight = [f \in Flows |-> 0]
  /\ back = [f \in Flows |-> 0]
  /\ acc = [r \in Receivers |-> 0]

(* FlowController::new for both directions of a stream.                    *)
Create(i) ==
  /\ \A r \in Receivers : life[<<r, i>>] = "none" /\ Cardinality(Controllers(r)) < MaxStreams
  /\ life' = [f \in Flows |-> IF f[2] = i THEN "live" ELSE life[f]]
  /\ UNCHANGED <<sw, rw, maxw, buf, flight, back, acc>>

(* consume_send_window: n bytes of payload leave the sender's window.      *)
SpendFree(f, n) ==
  /\ Live(f) /\ n \in 1..sw[f]
  /\ flight' = [flight EXCEPT ![f] = @ + n]
  /\ UNCHANGED <<life, sw, rw, maxw, buf, back, acc>>
Spend(f, n) ==
  /\ Live(f) /\ n \in 1..sw[f]
  /\ sw' = [sw EXCEPT ![f] = @ - n]
  /\ flight' = [flight EXCEPT ![f] = @ + n]
  /\ UNCHANGED <<life, rw, maxw, buf, back, acc>>

(* consume_receive_window and the push into the buffer.  A body larger     *)
(* than the window would end the connection: InFlightFits excludes it.     *)
ArriveUncounted(f, n) ==
  /\ Live(f) /\ n \in 1..flight[f] /\ n <= rw[f]
  /\ buf' = [buf EXCEPT ![f] = @ + n]
  /\ flight' = [flight EXCEPT ![f] = @ - n]
  /\ UNCHANGED <<life, sw, rw, maxw, back, acc>>
Arrive(f, n) ==
  /\ Live(f) /\ n \in 1..flight[f] /\ n <= rw[f]
  /\ rw' = [rw EXCEPT ![f] = @ - n]
  /\ buf' = [buf EXCEPT ![f] = @ + n]
  /\ flight' = [flight EXCEPT ![f] = @ - n]
  /\ UNCHANGED <<life, sw, maxw, back, acc>>

(* increase_send_window_by.                                                *)
Regain(f, n) ==
  /\ Live(f) /\ n \in 1..back[f]
  /\ sw' = [sw EXCEPT ![f] = @ + n]
  /\ back' = [back EXCEPT ![f] = @ - n]
  /\ UNCHANGED <<life, rw, maxw, buf, flight, acc>>

(* poll_read delivers k bytes and owes no update, or cannot queue one.     *)
Deliver(f, k) ==
  /\ Live(f) /\ k \in 1..buf[f]
  /\ buf' = [buf EXCEPT ![f] = @ - k]
  /\ UNCHANGED <<life, sw, rw, maxw, flight, back, acc>>

(* Bytes to give back under maximum m with b bytes still buffered.         *)
Owed(m, w, b) == IF m - w >= b THEN (m - w) - b ELSE 0

(* Mutant: the connection's limit is not looked at.                        *)
NewMaxUnlimited(m, a) == Least(2 * m, MaxWindow)

(* The doubled maximum, held under the connection's limit.                 *)
NewMax(m, a) == Least(Least(2 * m, MaxWindow), m + ((ConnLimit - MaxStreams * Credit) - a))

(* next_window_update with an RTT sample and half the window spent within  *)
(* two of them: max_receive_window grows and the account is charged.       *)
Tuned(m, a, grow) == IF grow THEN NewMax(m, a) ELSE m

Charge(a, old, new) == a + (new - old)

(* poll_read delivers k bytes and queues the update that is due.           *)
DeliverAndGrant(f, k, grow) ==
  LET b == buf[f] - k
      m == Tuned(maxw[f], acc[f[1]], grow)
      credit == Owed(m, rw[f], b)
  IN  /\ Live(f) /\ k \in 0..buf[f]
      /\ Owed(maxw[f], rw[f], b) >= maxw[f] \div 2
      /\ buf' = [buf EXCEPT ![f] = b]
      /\ maxw' = [maxw EXCEPT ![f] = m]
      /\ acc' = [acc EXCEPT ![f[1]] = Charge(@, maxw[f], m)]
      /\ rw' = [rw EXCEPT ![f] = @ + credit]
      /\ back' = [back EXCEPT ![f] = @ + credit]
      /\ UNCHANGED <<life, sw, flight>>

(* One end of the flows in S is gone: frames are dropped from here on and  *)
(* the windows mean nothing any more; only the account remembers them.     *)
Cut(S) ==
  LET zeroed(v) == [f \in Flows |-> IF f \in S THEN 0 ELSE v[f]]
  IN  /\ S # {} /\ \A f \in S : Live(f)
      /\ life' = [f \in Flows |-> IF f \in S THEN "cut" ELSE life[f]]
      /\ sw' = zeroed(sw) /\ rw' = zeroed(rw) /\ buf' = zeroed(buf)
      /\ flight' = zeroed(flight) /\ back' = zeroed(back)
      /\ UNCHANGED <<maxw, acc>>

(* Drop for FlowController.                                                *)
RefundNothing(a, m) == a
Refund(a, m) == a - (m - Credit)

Release(f) ==
  /\ life[f] = "cut"
  /\ life' = [life EXCEPT ![f] = "gone"]
  /\ acc' = [acc EXCEPT ![f[1]] = Refund(@, maxw[f])]
  /\ UNCHANGED <<sw, rw, maxw, buf, flight, back>>

FNext ==
  \/ \E i \in StreamIds : Create(i)
  \/ \E f \in Flows :
       \/ \E n \in 1..sw[f] : Spend(f, n)
       \/ \E n \in 1..flight[f] : Arrive(f, n)
       \/ \E n \in 1..back[f] : Regain(f, n)
       \/ \E k \in 1..buf[f] : Deliver(f, k)
       \/ \E k \in 0..buf[f], grow \in BOOLEAN : DeliverAndGrant(f, k, grow)
       \/ Release(f)
  \/ \E S \in SUBSET Flows : Cut(S)

FStep == [FNext]_fvars
FSpec == FInit /\ [][FNext]_fvars

-----------------------------------------------------------------------------
(* Type invariant: windows, buffers and credit are natural numbers.        *)
FTypeOK ==
  /\ life \in [Flows -> {"none", "live", "cut", "gone"}]
  /\ sw \in [Flows -> Nat] /\ rw \in [Flows -> Nat] /\ maxw \in [Flows -> Nat]
  /\ buf \in [Flows -> Nat] /\ flight \in [Flows -> Nat] /\ back \in [Flows -> Nat]
  /\ acc \in [Receivers -> Int]

(* What the receiver will still accept is exactly what the sender may      *)
(* still send plus what is on its way in either direction: consume_ and    *)
(* increase_send_window, consume_receive_window and next_window_update     *)
(* never lose or invent a byte of credit.                                  *)
WindowsBalance == \A f \in Flows : Live(f) => rw[f] = sw[f] + flight[f] + back[f]

(* No frame two conforming ends exchange can exceed the window it lands    *)
(* in, so on_data's "frame body larger than window" never fires and        *)
(* increase_send_window_by never overflows its u32.                        *)
InFlightFits ==
  \A f \in Flows : Live(f) => flight[f] <= rw[f] /\ sw[f] + back[f] <= MaxWindow

(* assert_invariants: buffer and open window together stay within          *)
(* max_receive_window, and the maximum only ever grew from DEFAULT_CREDIT. *)
BufferWithinMax ==
  \A f \in Flows : rw[f] + buf[f] <= maxw[f] /\ Credit <= maxw[f] /\ maxw[f] <= MaxWindow

(* The subtraction of the account from the tunable part of the limit never *)
(* underflows its usize: auto-tuning never hands out more than the limit.  *)
AccountWithinLimit == \A r \in Receivers : acc[r] <= ConnLimit - MaxStreams * Credit

(* The sum of v over S.                                                    *)
SumOver(v, S) == MapThenSumSet(LAMBDA i : v[i], S)

(* The account is exactly the sum of what live controllers hold beyond     *)
(* DEFAULT_CREDIT (so Drop's subtraction never underflows), and the        *)
(* windows one side has promised never exceed max_connection_receive_window*)
AccountExact ==
  \A r \in Receivers :
    /\ acc[r] = SumOver([i \in StreamIds |-> maxw[<<r, i>>] - Credit], Controllers(r))
    /\ SumOver([i \in StreamIds |-> maxw[<<r, i>>]], Controllers(r)) <= ConnLimit

=============================================================================
