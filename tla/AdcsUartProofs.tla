--------------------------- MODULE AdcsUartProofs ---------------------------
(* Proofs about AdcsUart, for rings of every size and frames of every      *)
(* length.                                                                 *)
EXTENDS AdcsUart, TLAPS

-----------------------------------------------------------------------------
(* A ring of n cells with head h and tail t holds Dist(h, t, n) entries;   *)
(* the j-th of them, from 0, is in cell Pos(t, j, n).                      *)
Dist(h, t, n) == IF t <= h THEN h - t ELSE h - t + n
Pos(t, j, n) == IF t + j < n THEN t + j ELSE t + j - n

Holds(b, h, t, n, c) == \A j \in 0..(Dist(h, t, n) - 1) : b[Pos(t, j, n)] = c + 1 + j

(* b2 is b with v in cell h.                                               *)
Stored(b2, b, h, v, n) ==
  b2[h] = v /\ \A i \in 0..(n - 1) : i # h => b2[i] = b[i]

(* What the three expressions with % of the code compute.                  *)

LEMMA Stepping ==
  ASSUME NEW n \in Nat \ {0}, NEW x \in 0..(n - 1)
  PROVE  /\ (x + 1) % n = IF x + 1 < n THEN x + 1 ELSE 0
         /\ (x + 1) % n \in 0..(n - 1)
<1>1. x + 1 \in 0..(2 * n - 1)
  OBVIOUS
<1>2. (x + 1) % n = IF x + 1 < n THEN x + 1 ELSE x + 1 - n
  BY <1>1
<1> QED
  BY <1>2

LEMMA Counting ==
  ASSUME NEW n \in Nat \ {0}, NEW h \in 0..(n - 1), NEW t \in 0..(n - 1)
  PROVE  (h - t + n) % n = Dist(h, t, n) /\ Dist(h, t, n) \in 0..(n - 1)
<1>1. h - t + n \in 0..(2 * n - 1)
  OBVIOUS
<1>2. (h - t + n) % n = IF h - t + n < n THEN h - t + n ELSE h - t + n - n
  BY <1>1
<1> QED
  BY <1>2 DEF Dist

LEMMA Positions ==
  ASSUME NEW n \in Nat \ {0}, NEW t \in 0..(n - 1), NEW j \in 0..(n - 1)
  PROVE  (t + j) % n = Pos(t, j, n)
<1>1. t + j \in 0..(2 * n - 1)
  OBVIOUS
<1>2. (t + j) % n = IF t + j < n THEN t + j ELSE t + j - n
  BY <1>1
<1> QED
  BY <1>2 DEF Pos

(* A byte written at the head of a ring that is not full.                  *)
LEMMA Entering ==
  ASSUME NEW n \in Nat, n > 1,
         NEW h \in 0..(n - 1), NEW t \in 0..(n - 1), NEW c \in Nat,
         NEW b, NEW b2, Holds(b, h, t, n, c),
         NEW next, next = IF h + 1 < n THEN h + 1 ELSE 0, next # t,
         NEW v, v = c + 1 + Dist(h, t, n), Stored(b2, b, h, v, n)
  PROVE  Dist(next, t, n) = Dist(h, t, n) + 1 /\ Holds(b2, next, t, n, c)
<1>1. Dist(next, t, n) = Dist(h, t, n) + 1
  BY DEF Dist
<1>2. Dist(h, t, n) \in 0..(n - 1) /\ Pos(t, Dist(h, t, n), n) = h
  BY DEF Dist, Pos
<1>3. \A j \in 0..(Dist(h, t, n) - 1) : Pos(t, j, n) \in 0..(n - 1) /\ Pos(t, j, n) # h
  BY DEF Dist, Pos
<1>4. \A j \in 0..(Dist(h, t, n) - 1) : b2[Pos(t, j, n)] = c + 1 + j
  BY <1>3 DEF Holds, Stored
<1>5. \A j \in 0..Dist(h, t, n) : b2[Pos(t, j, n)] = c + 1 + j
  <2> SUFFICES ASSUME NEW j \in 0..Dist(h, t, n) PROVE b2[Pos(t, j, n)] = c + 1 + j
    OBVIOUS
  <2>1. CASE j = Dist(h, t, n)
    BY <1>2, <2>1 DEF Stored
  <2>2. CASE j # Dist(h, t, n)
    <3>1. j \in 0..(Dist(h, t, n) - 1)
      BY <1>2, <2>2
    <3> QED
      BY <1>4, <3>1
  <2> QED
    BY <2>1, <2>2
<1>6. 0..(Dist(next, t, n) - 1) = 0..Dist(h, t, n)
  BY <1>1, <1>2
<1> QED
  BY <1>1, <1>5, <1>6 DEF Holds

(* The entry at the tail of a ring that is not empty, removed.             *)
LEMMA Leaving ==
  ASSUME NEW n \in Nat, n > 1,
         NEW h \in 0..(n - 1), NEW t \in 0..(n - 1), NEW c \in Nat,
         NEW b, Holds(b, h, t, n, c), h # t,
         NEW next, next = IF t + 1 < n THEN t + 1 ELSE 0
  PROVE  /\ b[t] = c + 1
         /\ Dist(h, t, n) > 0
         /\ Dist(h, next, n) = Dist(h, t, n) - 1
         /\ Holds(b, h, next, n, c + 1)
<1>1. Dist(h, next, n) = Dist(h, t, n) - 1 /\ Dist(h, t, n) \in 1..(n - 1)
  BY DEF Dist
<1>2. \A j \in 0..(Dist(h, t, n) - 2) : Pos(next, j, n) = Pos(t, j + 1, n)
  BY <1>1 DEF Pos
<1>3. b[t] = c + 1
  <2>1. Pos(t, 0, n) = t
    BY DEF Pos
  <2>2. b[Pos(t, 0, n)] = c + 1 + 0
    BY <1>1 DEF Holds
  <2> QED
    BY <2>1, <2>2
<1>4. \A j \in 0..(Dist(h, t, n) - 2) : b[Pos(next, j, n)] = c + 1 + 1 + j
  <2> SUFFICES ASSUME NEW j \in 0..(Dist(h, t, n) - 2)
               PROVE  b[Pos(next, j, n)] = c + 1 + 1 + j
    OBVIOUS
  <2>1. j + 1 \in 0..(Dist(h, t, n) - 1)
    BY <1>1
  <2>2. b[Pos(t, j + 1, n)] = c + 1 + (j + 1)
    BY <2>1 DEF Holds
  <2> QED
    BY <1>1, <1>2, <2>2
<1> QED
  BY <1>1, <1>3, <1>4 DEF Holds

-----------------------------------------------------------------------------
(* The inductive invariant.                                                *)

R == UART_RX_BUFFER_SIZE
T == UART_TX_BUFFER_SIZE
Copying == {"copy", "advance", "store"}

LocalsInv ==
  /\ app.at = "scan" => app.offset <= app.count
  /\ app.at = "ready" => app.length < R
  /\ app.at \in Copying => 1 <= app.length
  /\ app.at \in {"advance", "store"} => 1 <= Len(app.got)
  /\ app.at \notin Copying => app.got = <<>>
  /\ app.at \in {"count_tail", "count_head", "store"} => app.index < R
  /\ app.at = "kick_store" => app.index < T
  /\ app.at = "tx" => app.offset = 0

(* The bytes the task has removed from the ring.                           *)
Consumed ==
  IF app.at \in {"advance", "store"} THEN taken + Len(app.got) - 1
                                     ELSE taken + Len(app.got)

(* While the ring has not overflowed it holds the bytes that have arrived  *)
(* and have not been consumed, and what the task has seen of them is so.   *)
RingInv ==
  /\ Consumed + Dist(rx_head, rx_tail, R) = arrived
  /\ Holds(rx_buffer, rx_head, rx_tail, R, Consumed)

Packet(start, length) ==
  \A i \in 1..length : start + i \in ends <=> i = length

SeenInv ==
  /\ app.at = "count_tail" =>
       Dist(app.index, rx_tail, R) <= Dist(rx_head, rx_tail, R)
  /\ app.at = "count_head" => app.index = rx_tail
  /\ app.at = "scan" =>
       /\ taken + app.count <= arrived
       /\ \A i \in 1..app.offset : taken + i \notin ends
  /\ app.at = "ready" =>
       taken + app.length <= arrived /\ Packet(taken, app.length)
  /\ app.at \in Copying =>
       /\ taken + app.length <= arrived /\ Packet(taken, app.length)
       /\ \A i \in 1..Len(app.got) : app.got[i] = taken + i
  /\ app.at = "store" => app.index = rx_tail

RxInv == ~lapped => RingInv /\ SeenInv

(* While the handler has not interfered with a kick-off the TX ring holds  *)
(* what is queued and not transmitted.                                     *)
Gone == IF app.at \in {"kick_tail", "kick_store"} THEN out - 1 ELSE out

TxInv ==
  ~collided =>
    /\ ~disorder
    /\ Gone \in Nat
    /\ Gone + Dist(tx_head, tx_tail, T) = queued
    /\ Holds(tx_buffer, tx_head, tx_tail, T, Gone)
    /\ app.at = "fill" =>
         /\ app.offset <= app.length
         /\ app.length - app.offset + Dist(tx_head, tx_tail, T) < T
    /\ KickingOff => tx_tail # tx_head
    /\ app.at = "kick_put" => app.byte = out + 1
    /\ app.at = "kick_store" => app.index = tx_tail

StuckInv ==
  /\ NoStuckTransmit
  /\ app.at \in {"kick_tail", "kick_store"} => register # "unused"
  /\ app.at = "enable" /\ tx_tail # tx_head => register # "unused"

IInv == TypeOK /\ LocalsInv /\ RxInv /\ TxInv /\ StuckInv

LEMMA Sizes == R \in Nat /\ R > 1 /\ T \in Nat /\ T > 1 /\ FrameLen \in Nat
BY SizesAssumption DEF R, T, FrameLen

LEMMA Moving ==
  /\ \A i \in 0..(R - 1) : /\ RxNext(i) = IF i + 1 < R THEN i + 1 ELSE 0
                           /\ RxNext(i) \in 0..(R - 1)
  /\ \A i \in 0..(T - 1) : /\ TxNext(i) = IF i + 1 < T THEN i + 1 ELSE 0
                           /\ TxNext(i) \in 0..(T - 1)
<1>1. R \in Nat \ {0} /\ T \in Nat \ {0}
  BY Sizes
<1>2. ASSUME NEW i \in 0..(R - 1)
      PROVE  RxNext(i) = (IF i + 1 < R THEN i + 1 ELSE 0) /\ RxNext(i) \in 0..(R - 1)
  BY <1>1, Stepping DEF RxNext, R
<1>3. ASSUME NEW i \in 0..(T - 1)
      PROVE  TxNext(i) = (IF i + 1 < T THEN i + 1 ELSE 0) /\ TxNext(i) \in 0..(T - 1)
  BY <1>1, Stepping DEF TxNext, T
<1> QED
  BY <1>2, <1>3

THEOREM Beginning == Init => IInv
<1> SUFFICES ASSUME Init PROVE IInv
  OBVIOUS
<1>1. TypeOK
  <2>1. rx_buffer \in [0..(R - 1) -> Nat] /\ tx_buffer \in [0..(T - 1) -> Nat]
    BY DEF Init, R, T
  <2>2. /\ rx_head \in 0..(R - 1) /\ rx_tail \in 0..(R - 1)
        /\ tx_head \in 0..(T - 1) /\ tx_tail \in 0..(T - 1)
    BY Sizes DEF Init
  <2>3. app.count \in 0..(R - 1) /\ app.length \in 0..(R + FrameLen)
    BY Sizes DEF Init, Task, Idle
  <2>4. app \in [at : {"idle"} \cup Sending \cup Receiving,
                call : {"none", "dispatch", "get"},
                count : 0..(R - 1), offset : Nat,
                length : 0..(R + FrameLen), index : Nat,
                byte : Nat, got : Seq(Nat)]
    BY <2>3 DEF Init, Task, Idle
  <2> QED
    BY <2>1, <2>2, <2>4 DEF Init, Task, Idle, TypeOK, R, T
<1>2. LocalsInv /\ StuckInv
  BY DEF Init, Task, Idle, LocalsInv, StuckInv, NoStuckTransmit, Copying, Sending
<1>3. RxInv
  BY DEF Init, Task, Idle, RxInv, RingInv, SeenInv, Consumed, Dist, Holds, Copying
<1>4. TxInv
  BY DEF Init, Task, Idle, TxInv, Gone, Dist, Holds, KickingOff
<1> QED
  BY <1>1, <1>2, <1>3, <1>4 DEF IInv

-----------------------------------------------------------------------------
(* The transmitting half of the handler.                                   *)

LEMMA TxIsrStep ==
  ASSUME TypeOK, TxInv, StuckInv, uart_tx_isr, UNCHANGED <<app, queued>>
  PROVE  /\ TxInv' /\ StuckInv' /\ tx_tail' \in 0..(T - 1)
         /\ register' \in {"unused", "full", "empty"} /\ out' \in Nat
         /\ irq' \in BOOLEAN /\ disorder' \in BOOLEAN /\ collided' \in BOOLEAN
<1>1. /\ tx_head \in 0..(T - 1) /\ tx_tail \in 0..(T - 1) /\ queued \in Nat
      /\ out \in Nat /\ tx_buffer \in [0..(T - 1) -> Nat]
      /\ register \in {"unused", "full", "empty"}
  BY DEF TypeOK, T
<1>0. app.length \in Nat /\ app.offset \in Nat
  BY Sizes DEF TypeOK, R
<1>2. tx_head' = tx_head /\ tx_buffer' = tx_buffer /\ app' = app /\ queued' = queued
  BY DEF uart_tx_isr
<1>3. irq' \in BOOLEAN /\ disorder' \in BOOLEAN /\ collided' \in BOOLEAN
  BY Zenon DEF uart_tx_isr, uart_putc_raw, TypeOK
<1>4. irq' = (irq /\ tx_tail' # tx_head)
  BY DEF uart_tx_isr
<1>5. CASE UNCHANGED <<register, out, disorder, tx_tail, collided>>
  <2>1. TxInv'
    BY <1>2, <1>5 DEF TxInv, Gone, KickingOff
  <2>2. StuckInv'
    BY <1>2, <1>4, <1>5 DEF StuckInv, NoStuckTransmit
  <2> QED
    BY <1>1, <1>3, <1>5, <2>1, <2>2
<1>6. CASE /\ uart_is_writable /\ tx_tail # tx_head
           /\ uart_putc_raw(tx_buffer[tx_tail])
           /\ tx_tail' = TxNext(tx_tail)
           /\ collided' = (collided \/ KickingOff)
  <2>1. /\ tx_tail' = (IF tx_tail + 1 < T THEN tx_tail + 1 ELSE 0)
        /\ tx_tail' \in 0..(T - 1)
    BY <1>1, <1>6, Moving
  <2>2. register' = "full" /\ out' = tx_buffer[tx_tail]
        /\ disorder' = (disorder \/ tx_buffer[tx_tail] # out + 1)
    BY <1>6 DEF uart_putc_raw
  <2>3. StuckInv'
    BY <1>2, <1>4, <1>6, <2>2 DEF StuckInv, NoStuckTransmit
  <2>4. ASSUME ~collided' PROVE TxInv'
    <3>1. ~collided /\ ~KickingOff
      BY <1>6, <2>4
    <3>2. /\ ~disorder /\ Gone = out /\ out + Dist(tx_head, tx_tail, T) = queued
          /\ Holds(tx_buffer, tx_head, tx_tail, T, out)
          /\ app.at = "fill" =>
               /\ app.offset <= app.length
               /\ app.length - app.offset + Dist(tx_head, tx_tail, T) < T
      BY <3>1 DEF TxInv, Gone, KickingOff
    <3>3. /\ tx_buffer[tx_tail] = out + 1
          /\ Dist(tx_head, tx_tail', T) = Dist(tx_head, tx_tail, T) - 1
          /\ Holds(tx_buffer, tx_head, tx_tail', T, out + 1)
      BY <1>1, <1>6, <2>1, <3>2, Sizes, Leaving
    <3>4. ~disorder' /\ out' = out + 1 /\ Gone' = out + 1
      BY <1>2, <2>2, <3>1, <3>2, <3>3 DEF Gone, KickingOff
    <3>5. Dist(tx_head, tx_tail, T) \in Int
      BY <1>1, Sizes DEF Dist
    <3>6. app.at = "fill" =>
            /\ app.offset <= app.length
            /\ app.length - app.offset + Dist(tx_head, tx_tail', T) < T
      BY <1>0, <3>2, <3>3, <3>5, Sizes
    <3>7. out + 1 + Dist(tx_head, tx_tail', T) = queued
      BY <1>1, <3>2, <3>3, <3>5
    <3> QED
      BY <1>1, <1>2, <3>1, <3>3, <3>4, <3>6, <3>7 DEF TxInv, KickingOff
  <2>5. TxInv'
    BY <2>4 DEF TxInv
  <2> QED
    BY <1>1, <1>3, <2>1, <2>2, <2>3, <2>5
<1> QED
  BY <1>5, <1>6 DEF uart_tx_isr

-----------------------------------------------------------------------------
(* The receiving half.                                                     *)

LEMMA Types ==
  ASSUME TypeOK
  PROVE  /\ rx_buffer \in [0..(R - 1) -> Nat]
         /\ rx_head \in 0..(R - 1) /\ rx_tail \in 0..(R - 1)
         /\ tx_buffer \in [0..(T - 1) -> Nat]
         /\ tx_head \in 0..(T - 1) /\ tx_tail \in 0..(T - 1)
         /\ arrived \in Nat /\ ends \subseteq 1..arrived /\ taken \in Nat /\ queued \in Nat
         /\ out \in Nat /\ app.count \in 0..(R - 1) /\ app.offset \in Nat
         /\ app.length \in 0..(R + FrameLen) /\ app.length \in Nat
         /\ app.index \in Nat /\ app.byte \in Nat /\ app.got \in Seq(Nat)
         /\ Len(app.got) \in Nat
<1>1. app.length \in 0..(R + FrameLen) /\ app.got \in Seq(Nat) /\ app.count \in 0..(R - 1)
  BY DEF TypeOK, R
<1>2. app.length \in Nat /\ Len(app.got) \in Nat
  BY <1>1, Sizes
<1> QED
  BY <1>1, <1>2 DEF TypeOK, R, T

LEMMA Distances ==
  ASSUME NEW n \in Nat, n > 1, NEW h \in 0..(n - 1), NEW t \in 0..(n - 1)
  PROVE  Dist(h, t, n) \in 0..(n - 1) /\ (Dist(h, t, n) = 0 <=> h = t)
BY DEF Dist

LEMMA RxIsrStep ==
  ASSUME TypeOK, LocalsInv, RxInv, Receive
  PROVE  /\ RxInv' /\ rx_buffer' \in [0..(R - 1) -> Nat]
         /\ rx_head' \in 0..(R - 1) /\ rx_tail' \in 0..(R - 1)
         /\ arrived' \in Nat /\ ends' \subseteq 1..arrived' /\ lapped' \in BOOLEAN
<1>0. /\ rx_buffer \in [0..(R - 1) -> Nat] /\ rx_head \in 0..(R - 1) /\ rx_tail \in 0..(R - 1)
      /\ arrived \in Nat /\ ends \subseteq 1..arrived /\ taken \in Nat
  BY Types
<1>a. /\ app.count \in Nat /\ app.offset \in Nat /\ app.length \in Nat /\ app.index \in Nat
      /\ Len(app.got) \in Nat
  BY Types, Sizes
<1>1. /\ arrived' = arrived + 1 /\ ends' \in {ends, ends \cup {arrived + 1}}
      /\ uart_rx_isr(arrived + 1) /\ app' = app /\ taken' = taken
  BY DEF Receive
<1>2. /\ rx_buffer' = [rx_buffer EXCEPT ![rx_head] = arrived + 1]
      /\ rx_head' = RxNext(rx_head)
      /\ \/ rx_head' = rx_tail /\ rx_tail' = RxNext(rx_tail) /\ lapped' = TRUE
         \/ rx_head' # rx_tail /\ rx_tail' = rx_tail /\ lapped' = lapped
  BY <1>1 DEF uart_rx_isr
<1>3. /\ rx_head' = (IF rx_head + 1 < R THEN rx_head + 1 ELSE 0)
      /\ rx_head' \in 0..(R - 1) /\ RxNext(rx_tail) \in 0..(R - 1)
  BY <1>2, <1>0, Moving
<1>4. /\ rx_buffer' \in [0..(R - 1) -> Nat] /\ rx_buffer'[rx_head] = arrived + 1
      /\ \A i \in 0..(R - 1) : i # rx_head => rx_buffer'[i] = rx_buffer[i]
  BY <1>2, <1>0
<1>5. rx_tail' \in 0..(R - 1) /\ arrived' \in Nat /\ ends' \subseteq 1..arrived'
  BY <1>1, <1>2, <1>3, <1>0
<1>6. lapped' \in BOOLEAN
  BY <1>2 DEF TypeOK
<1>7. ASSUME ~lapped' PROVE RxInv'
  <2>1. ~lapped /\ rx_head' # rx_tail /\ rx_tail' = rx_tail
    BY <1>2, <1>7
  <2>2. RingInv /\ SeenInv
    BY <2>1 DEF RxInv
  <2>3. Consumed' = Consumed /\ Consumed \in Nat
    BY <1>0, <1>a, <1>1 DEF Consumed, LocalsInv
  <2>4. Dist(rx_head, rx_tail, R) \in 0..(R - 1)
    BY <1>0, Sizes, Distances
  <2>5. arrived + 1 = Consumed + 1 + Dist(rx_head, rx_tail, R)
    BY <2>2, <2>3, <2>4 DEF RingInv
  <2>6. /\ Dist(rx_head', rx_tail, R) = Dist(rx_head, rx_tail, R) + 1
        /\ Holds(rx_buffer', rx_head', rx_tail, R, Consumed)
    <3>1. Holds(rx_buffer, rx_head, rx_tail, R, Consumed)
      BY <2>2 DEF RingInv
    <3>2. Stored(rx_buffer', rx_buffer, rx_head, arrived + 1, R)
      BY <1>4 DEF Stored
    <3> QED
      <4>1. /\ R \in Nat /\ R > 1 /\ Consumed \in Nat /\ rx_head' # rx_tail
            /\ rx_head' = (IF rx_head + 1 < R THEN rx_head + 1 ELSE 0)
        BY <1>3, <2>1, <2>3, Sizes
      <4> QED
        BY <1>0, <2>5, <3>1, <3>2, <4>1, Entering
  <2>7. RingInv'
    BY <1>1, <2>1, <2>2, <2>3, <2>4, <2>6 DEF RingInv
  <2>8. \A i \in 1..arrived : i \in ends' <=> i \in ends
    BY <1>1, <1>0
  <2>9. \A n \in Nat : taken + n <= arrived /\ Packet(taken, n) => Packet(taken, n)'
    BY <1>1, <2>8, <1>0 DEF Packet
  <2>10. app.at = "scan" => \A i \in 1..app.offset : taken + i \notin ends'
    BY <1>0, <1>a, <2>2, <2>8 DEF SeenInv, LocalsInv
  <2>11. app.at = "count_tail" => Dist(app.index, rx_tail, R) <= Dist(rx_head', rx_tail, R)
    <3>1. app.at = "count_tail" => Dist(app.index, rx_tail, R) \in 0..(R - 1)
      <4>1. app.at = "count_tail" => app.index \in 0..(R - 1)
        BY <1>a, Sizes DEF LocalsInv
      <4> QED
        BY <1>0, <4>1, Sizes, Distances
    <3> QED
      BY <2>2, <2>4, <2>6, <3>1 DEF SeenInv
  <2>12. SeenInv'
    BY <1>0, <1>a, <1>1, <2>1, <2>2, <2>9, <2>10, <2>11 DEF SeenInv, Copying
  <2> QED
    BY <2>7, <2>12 DEF RxInv
<1>8. RxInv'
  BY <1>7 DEF RxInv
<1> QED
  BY <1>3, <1>4, <1>5, <1>6, <1>8

-----------------------------------------------------------------------------
(* The steps of the hardware.                                              *)

LEMMA ReceiveStep == ASSUME IInv, Receive PROVE IInv'
<1> USE DEF IInv
<1>1. uart_tx_isr /\ UNCHANGED <<app, taken, queued>>
  BY DEF Receive
<1>2. TxInv' /\ StuckInv' /\ RxInv'
  BY <1>1, TxIsrStep, RxIsrStep
<1>3. TypeOK'
  <2>1. tx_buffer' = tx_buffer /\ tx_head' = tx_head
    BY <1>1 DEF uart_tx_isr
  <2>2. /\ tx_tail' \in 0..(T - 1)
        /\ register' \in {"unused", "full", "empty"} /\ out' \in Nat /\ irq' \in BOOLEAN
        /\ disorder' \in BOOLEAN /\ collided' \in BOOLEAN
    BY <1>1, TxIsrStep
  <2>3. /\ rx_buffer' \in [0..(R - 1) -> Nat]
        /\ rx_head' \in 0..(R - 1) /\ rx_tail' \in 0..(R - 1)
        /\ arrived' \in Nat /\ ends' \subseteq 1..arrived' /\ lapped' \in BOOLEAN
    BY RxIsrStep
  <2> QED
    BY <1>1, <2>1, <2>2, <2>3 DEF TypeOK, R, T
<1>4. LocalsInv'
  BY <1>1 DEF LocalsInv
<1> QED
  BY <1>2, <1>3, <1>4

LEMMA TxInterruptStep == ASSUME IInv, TxInterrupt PROVE IInv'
<1> USE DEF IInv
<1>1. uart_tx_isr /\ UNCHANGED <<received, app, taken, queued>>
  BY DEF TxInterrupt
<1>2. TxInv' /\ StuckInv'
  BY <1>1, TxIsrStep
<1>3. TypeOK'
  <2>1. tx_buffer' = tx_buffer /\ tx_head' = tx_head
    BY <1>1 DEF uart_tx_isr
  <2>2. /\ tx_tail' \in 0..(T - 1)
        /\ register' \in {"unused", "full", "empty"} /\ out' \in Nat /\ irq' \in BOOLEAN
        /\ disorder' \in BOOLEAN /\ collided' \in BOOLEAN
    BY <1>1, TxIsrStep
  <2> QED
    BY <1>1, <2>1, <2>2 DEF TypeOK, T, received
<1>4. LocalsInv' /\ RxInv'
  BY <1>1 DEF LocalsInv, received, RxInv, RingInv, SeenInv, Consumed, Packet, Copying, Holds
<1> QED
  BY <1>2, <1>3, <1>4

LEMMA TransmittedStep == ASSUME IInv, Transmitted PROVE IInv'
<1> USE DEF IInv, Transmitted, received, tx
<1>1. TypeOK'
  BY DEF TypeOK
<1>2. LocalsInv' /\ RxInv'
  BY DEF LocalsInv, RxInv, RingInv, SeenInv, Consumed, Packet, Copying, Holds
<1>3. TxInv' /\ StuckInv'
  BY DEF TxInv, Gone, Holds, KickingOff, StuckInv, NoStuckTransmit
<1> QED
  BY <1>1, <1>2, <1>3

-----------------------------------------------------------------------------
(* The task receives: what is sent does not change.                        *)

LEMMA NotSending ==
  ASSUME IInv, UNCHANGED sent, app.at \notin Sending,
         app'.at \notin Sending \ {"tx"}
  PROVE  TxInv' /\ StuckInv'
<1>1. /\ app.at \notin {"kick", "kick_put", "kick_tail", "kick_store", "enable"}
      /\ app'.at \notin {"fill", "kick", "kick_put", "kick_tail", "kick_store", "enable"}
  BY DEF Sending
<1>2. TxInv'
  BY <1>1 DEF IInv, sent, tx, uart, TxInv, Gone, Holds, KickingOff
<1>3. StuckInv'
  BY <1>1 DEF IInv, sent, tx, uart, StuckInv, NoStuckTransmit
<1> QED
  BY <1>2, <1>3

LEMMA NotReceiving ==
  ASSUME IInv, UNCHANGED <<received, taken>>, app.got = <<>>, app'.got = <<>>,
         app'.at \in {"idle", "count"} \cup Sending, app.at \notin Copying
  PROVE  RxInv'
<1>1. app'.at \notin {"count_tail", "count_head", "scan", "ready"} /\ app'.at \notin Copying
  BY DEF Sending, Copying
<1>2. app.at \notin {"advance", "store"} /\ app'.at \notin {"advance", "store"}
  BY <1>1 DEF Copying
<1>3. ASSUME ~lapped' PROVE RingInv' /\ SeenInv'
  <2>1. Consumed' = Consumed
    BY <1>2 DEF Consumed
  <2>2. RingInv'
    BY <1>3, <2>1 DEF IInv, RxInv, RingInv, received, Holds
  <2>3. SeenInv'
    BY <1>1, <1>2 DEF SeenInv
  <2> QED
    BY <2>2, <2>3
<1> QED
  BY <1>3 DEF RxInv

AppType == [at : {"idle"} \cup Sending \cup Receiving, call : {"none", "dispatch", "get"},
            count : 0..(R - 1), offset : Nat, length : 0..(R + FrameLen), index : Nat,
            byte : Nat, got : Seq(Nat)]

LEMMA AppTyped ==
  ASSUME TypeOK, UNCHANGED <<received, sent>>, taken' \in Nat, app' \in AppType,
         app'.at \in Copying => app'.length < R /\ Len(app'.got) <= app'.length
  PROVE  TypeOK'
BY DEF TypeOK, AppType, Copying, received, sent, tx, uart, R

LEMMA TaskTypes ==
  /\ Idle \in AppType /\ Idle.at = "idle" /\ Idle.got = <<>>
  /\ SendFrame \in AppType /\ SendFrame.at \in {"idle", "tx"} /\ SendFrame.got = <<>>
  /\ SendFrame.offset = 0
<1>1. 0 \in 0..(R - 1) /\ 0 \in 0..(R + FrameLen) /\ FrameLen \in 0..(R + FrameLen)
  BY Sizes
<1>2. "tx" \in Sending
  BY DEF Sending
<1> QED
  BY <1>1, <1>2 DEF Task, Idle, SendFrame, AppType

LEMMA DispatchStep == ASSUME IInv, adcs_task_dispatch PROVE IInv'
<1> USE DEF IInv
<1>1. UNCHANGED <<received, sent, taken>> /\ app.at = "idle"
      /\ app' = [app EXCEPT !.at = "count", !.call = "dispatch"]
  BY DEF adcs_task_dispatch
<1>2. /\ app' \in AppType /\ app'.at = "count" /\ app'.got = <<>>
  <2>1. app \in AppType /\ app.got = <<>>
    BY <1>1 DEF TypeOK, AppType, R, LocalsInv, Copying
  <2>2. "count" \in Receiving
    BY DEF Receiving
  <2> QED
    BY <1>1, <2>1, <2>2 DEF AppType
<1>3. TypeOK'
  BY <1>1, <1>2, AppTyped DEF TypeOK, Copying
<1>4. LocalsInv'
  BY <1>2 DEF LocalsInv, Copying
<1>5. app.got = <<>>
  BY <1>1 DEF LocalsInv, Copying
<1>6. RxInv'
  BY <1>1, <1>2, <1>5, NotReceiving DEF Copying
<1>7. TxInv' /\ StuckInv'
  BY <1>1, <1>2, NotSending DEF Sending
<1> QED
  BY <1>3, <1>4, <1>6, <1>7

LEMMA CountingStep == ASSUME IInv, ReadHeadFirst \/ ReadTailFirst PROVE IInv'
<1> USE DEF IInv
<1>1. /\ UNCHANGED <<received, sent, taken>> /\ app.at = "count"
      /\ \/ app' = [app EXCEPT !.at = "count_tail", !.index = rx_head]
         \/ app' = [app EXCEPT !.at = "count_head", !.index = rx_tail]
  BY DEF ReadHeadFirst, ReadTailFirst
<1>2. app \in AppType /\ rx_head \in 0..(R - 1) /\ rx_tail \in 0..(R - 1)
  BY DEF TypeOK, AppType, R
<1>3. /\ app' \in AppType /\ app'.got = app.got
      /\ \/ app'.at = "count_tail" /\ app'.index = rx_head
         \/ app'.at = "count_head" /\ app'.index = rx_tail
  <2>1. {"count_tail", "count_head"} \subseteq Receiving /\ rx_head \in Nat /\ rx_tail \in Nat
    BY <1>2, Sizes DEF Receiving
  <2> QED
    BY <1>1, <1>2, <2>1, ZenonT(60) DEF AppType
<1>4. TypeOK'
  BY <1>1, <1>3, AppTyped DEF TypeOK, Copying
<1>5. LocalsInv'
  BY <1>1, <1>2, <1>3, Sizes DEF LocalsInv, Copying
<1>6. RxInv'
  <2>1. Consumed' = Consumed
    BY <1>1, <1>3 DEF Consumed
  <2>2. Dist(rx_head, rx_tail, R) <= Dist(rx_head, rx_tail, R)
    BY <1>2, Sizes, Distances
  <2>3. ASSUME ~lapped' PROVE RingInv' /\ SeenInv'
    <3>1. RingInv'
      BY <1>1, <2>1, <2>3 DEF RxInv, RingInv, Holds, received
    <3>2. SeenInv'
      BY <1>1, <1>3, <2>2 DEF SeenInv, Copying, received
    <3> QED
      BY <3>1, <3>2
  <2> QED
    BY <2>3 DEF RxInv
<1>7. TxInv' /\ StuckInv'
  BY <1>1, <1>3, NotSending DEF Sending
<1> QED
  BY <1>4, <1>5, <1>6, <1>7

LEMMA CountedStep == ASSUME IInv, Counted PROVE IInv'
<1> USE DEF IInv
<1>0. /\ app \in AppType /\ rx_head \in 0..(R - 1) /\ rx_tail \in 0..(R - 1)
      /\ app.index \in Nat /\ taken \in Nat /\ arrived \in Nat
  BY DEF TypeOK, AppType, R
<1>1. app.index \in 0..(R - 1) /\ app.got = <<>> /\ app.at \in {"count_tail", "count_head"}
  BY <1>0, Sizes DEF Counted, LocalsInv, Copying
<1>2. /\ UNCHANGED <<received, sent, taken>>
      /\ \/ /\ app.at = "count_tail"
            /\ app' = [app EXCEPT !.at = "scan", !.offset = 0,
                                  !.count = rx_count(app.index, rx_tail)]
         \/ /\ app.at = "count_head"
            /\ app' = [app EXCEPT !.at = "scan", !.offset = 0,
                                  !.count = rx_count(rx_head, app.index)]
  BY DEF Counted
<1>3. /\ rx_count(app.index, rx_tail) = Dist(app.index, rx_tail, R)
      /\ rx_count(rx_head, app.index) = Dist(rx_head, app.index, R)
      /\ Dist(app.index, rx_tail, R) \in 0..(R - 1)
      /\ Dist(rx_head, app.index, R) \in 0..(R - 1)
  <2>1. R \in Nat \ {0}
    BY Sizes
  <2> QED
    BY <1>0, <1>1, <2>1, Counting DEF rx_count, R
<1>4. /\ app' \in AppType /\ app'.got = <<>> /\ app'.at = "scan" /\ app'.offset = 0
      /\ app'.count \in 0..(R - 1)
      /\ \/ app.at = "count_tail" /\ app'.count = Dist(app.index, rx_tail, R)
         \/ app.at = "count_head" /\ app'.count = Dist(rx_head, app.index, R)
  <2>1. "scan" \in Receiving
    BY DEF Receiving
  <2>2. \/ /\ app.at = "count_tail"
           /\ app' = [app EXCEPT !.at = "scan", !.offset = 0,
                                 !.count = Dist(app.index, rx_tail, R)]
        \/ /\ app.at = "count_head"
           /\ app' = [app EXCEPT !.at = "scan", !.offset = 0,
                                 !.count = Dist(rx_head, app.index, R)]
    BY <1>2, <1>3
  <2>3. ASSUME NEW c \in 0..(R - 1),
               app' = [app EXCEPT !.at = "scan", !.offset = 0, !.count = c]
        PROVE  /\ app' \in AppType /\ app'.got = app.got /\ app'.at = "scan"
               /\ app'.offset = 0 /\ app'.count = c
    BY <1>0, <2>1, <2>3 DEF AppType
  <2>4. CASE app.at = "count_tail"
    BY <1>1, <1>3, <2>2, <2>3, <2>4
  <2>5. CASE app.at = "count_head"
    BY <1>1, <1>3, <2>2, <2>3, <2>5
  <2> QED
    BY <1>1, <2>4, <2>5
<1>5. TypeOK'
  BY <1>0, <1>2, <1>4, AppTyped DEF Copying
<1>6. LocalsInv'
  BY <1>4, Sizes DEF LocalsInv, Copying
<1>7. RxInv'
  <2>1. Consumed = taken /\ Consumed' = taken
    BY <1>0, <1>1, <1>2, <1>4 DEF Consumed
  <2>2. ASSUME ~lapped' PROVE RingInv' /\ SeenInv'
    <3>1. RingInv /\ SeenInv
      BY <1>2, <2>2 DEF RxInv, received
    <3>2. RingInv'
      BY <1>2, <2>1, <3>1 DEF RingInv, Holds, received
    <3>3. app'.count <= Dist(rx_head, rx_tail, R)
      BY <1>4, <3>1, <1>3 DEF SeenInv
    <3>4. taken + app'.count <= arrived
      <4>1. Dist(rx_head, rx_tail, R) \in Nat
        BY <1>0, Sizes, Distances
      <4> QED
        BY <1>0, <1>4, <2>1, <3>1, <3>3, <4>1 DEF RingInv
    <3>5. SeenInv'
      BY <1>2, <1>4, <3>4 DEF SeenInv, Copying, received
    <3> QED
      BY <3>2, <3>5
  <2> QED
    BY <2>2 DEF RxInv
<1>8. TxInv' /\ StuckInv'
  BY <1>1, <1>2, <1>4, NotSending DEF Sending
<1> QED
  BY <1>5, <1>6, <1>7, <1>8

LEMMA ScanStep == ASSUME IInv, Scan PROVE IInv'
<1> USE DEF IInv
<1>0. /\ app \in AppType /\ rx_head \in 0..(R - 1) /\ rx_tail \in 0..(R - 1)
      /\ rx_buffer \in [0..(R - 1) -> Nat]
      /\ app.offset \in Nat /\ app.count \in 0..(R - 1) /\ taken \in Nat /\ arrived \in Nat
      /\ ends \subseteq 1..arrived
  BY DEF TypeOK, AppType, R
<1>1. /\ UNCHANGED <<received, sent, taken>> /\ app.at = "scan" /\ app.offset < app.count
      /\ app.got = <<>>
  BY DEF Scan, LocalsInv, Copying
<1>2. /\ app.offset + 1 \in 0..(R - 1) /\ app.offset + 1 \in Nat
      /\ app.offset + 1 \in 0..(R + FrameLen) /\ app.offset + 1 <= app.count
  BY <1>0, <1>1, Sizes
<1>3. \/ /\ IsZero(rx_peek(app.offset))
         /\ app' = [app EXCEPT !.at = "ready", !.length = app.offset + 1]
      \/ /\ ~IsZero(rx_peek(app.offset))
         /\ app' = [app EXCEPT !.offset = app.offset + 1]
  BY DEF Scan
<1>4. /\ app' \in AppType /\ app'.got = <<>> /\ app'.count = app.count
      /\ \/ /\ IsZero(rx_peek(app.offset))
            /\ app'.at = "ready" /\ app'.length = app.offset + 1
         \/ /\ ~IsZero(rx_peek(app.offset))
            /\ app'.at = "scan" /\ app'.offset = app.offset + 1
  <2>1. "ready" \in Receiving
    BY DEF Receiving
  <2>2. ASSUME NEW c \in Nat, c \in 0..(R + FrameLen),
               app' = [app EXCEPT !.at = "ready", !.length = c]
        PROVE  /\ app' \in AppType /\ app'.got = app.got /\ app'.at = "ready"
               /\ app'.length = c /\ app'.count = app.count
    BY <1>0, <2>1, <2>2 DEF AppType
  <2>3. ASSUME NEW c \in Nat, app' = [app EXCEPT !.offset = c]
        PROVE  /\ app' \in AppType /\ app'.got = app.got /\ app'.at = app.at
               /\ app'.offset = c /\ app'.count = app.count
    BY <1>0, <2>3 DEF AppType
  <2>4. CASE IsZero(rx_peek(app.offset))
    BY <1>1, <1>2, <1>3, <2>2, <2>4
  <2>5. CASE ~IsZero(rx_peek(app.offset))
    BY <1>1, <1>2, <1>3, <2>3, <2>5
  <2> QED
    BY <2>4, <2>5
<1>5. TypeOK'
  BY <1>0, <1>1, <1>4, AppTyped DEF Copying
<1>6. LocalsInv'
  BY <1>2, <1>4, Sizes DEF LocalsInv, Copying
<1>7. RxInv'
  <2>1. Consumed = taken /\ Consumed' = taken
    BY <1>0, <1>1, <1>4 DEF Consumed
  <2>2. ASSUME ~lapped' PROVE RingInv' /\ SeenInv'
    <3>1. RingInv /\ SeenInv
      BY <1>1, <2>2 DEF RxInv, received
    <3>2. RingInv'
      BY <1>1, <2>1, <3>1 DEF RingInv, Holds, received
    <3>3. rx_peek(app.offset) = taken + 1 + app.offset
      <4>1. Dist(rx_head, rx_tail, R) = arrived - taken
        <5>1. Dist(rx_head, rx_tail, R) \in Nat
          BY <1>0, Sizes, Distances
        <5> QED
          BY <1>0, <2>1, <3>1, <5>1, SMTT(60) DEF RingInv
      <4>2. app.offset \in 0..(Dist(rx_head, rx_tail, R) - 1)
        BY <1>0, <1>1, <3>1, <4>1 DEF SeenInv
      <4>3. rx_buffer[Pos(rx_tail, app.offset, R)] = taken + 1 + app.offset
        BY <2>1, <3>1, <4>2 DEF RingInv, Holds
      <4>4. (rx_tail + app.offset) % R = Pos(rx_tail, app.offset, R)
        <5>1. app.offset \in 0..(R - 1) /\ R \in Nat \ {0}
          BY <1>0, <1>1, Sizes
        <5> QED
          BY <1>0, <5>1, Positions
      <4> QED
        BY <4>3, <4>4 DEF rx_peek, R
    <3>4. IsZero(rx_peek(app.offset)) <=> taken + (app.offset + 1) \in ends
      BY <1>0, <3>3 DEF IsZero
    <3>5. taken + (app.offset + 1) <= arrived
      BY <1>0, <1>2, <1>1, <3>1, SMTT(60) DEF SeenInv
    <3>6. CASE IsZero(rx_peek(app.offset))
      <4>1. Packet(taken, app.offset + 1)
        <5> SUFFICES ASSUME NEW i \in 1..(app.offset + 1)
                     PROVE  taken + i \in ends <=> i = app.offset + 1
          BY DEF Packet
        <5>1. i = app.offset + 1 \/ i \in 1..app.offset
          BY <1>0
        <5>2. i \in 1..app.offset => i # app.offset + 1
          BY <1>0
        <5> QED
          BY <1>1, <3>1, <3>4, <3>6, <5>1, <5>2 DEF SeenInv
      <4> QED
        BY <1>1, <1>4, <3>2, <3>5, <3>6, <4>1 DEF SeenInv, Copying, received, Packet
    <3>7. CASE ~IsZero(rx_peek(app.offset))
      <4>1. \A i \in 1..(app.offset + 1) : taken + i \notin ends
        <5> SUFFICES ASSUME NEW i \in 1..(app.offset + 1) PROVE taken + i \notin ends
          OBVIOUS
        <5>1. i = app.offset + 1 \/ i \in 1..app.offset
          BY <1>0
        <5> QED
          BY <1>1, <3>1, <3>4, <3>7, <5>1 DEF SeenInv
      <4> QED
        BY <1>1, <1>4, <3>1, <3>2, <3>7, <4>1 DEF SeenInv, Copying, received
    <3> QED
      BY <3>6, <3>7
  <2> QED
    BY <2>2 DEF RxInv
<1>8. TxInv' /\ StuckInv'
  BY <1>1, <1>4, NotSending DEF Sending
<1> QED
  BY <1>5, <1>6, <1>7, <1>8

LEMMA ScannedAllStep == ASSUME IInv, ScannedAll PROVE IInv'
<1> USE DEF IInv
<1>0. app \in AppType /\ taken \in Nat /\ arrived \in Nat /\ app.count \in 0..(R - 1)
  BY DEF TypeOK, AppType, R
<1>1. /\ UNCHANGED <<received, sent, taken>> /\ app.at = "scan" /\ app.got = <<>>
      /\ app' = [app EXCEPT !.at = "ready", !.length = 0]
  BY DEF ScannedAll, LocalsInv, Copying
<1>2. app' \in AppType /\ app'.got = <<>> /\ app'.at = "ready" /\ app'.length = 0
  <2>1. "ready" \in Receiving /\ 0 \in 0..(R + FrameLen)
    BY Sizes DEF Receiving
  <2> QED
    BY <1>0, <1>1, <2>1 DEF AppType
<1>3. TypeOK'
  BY <1>0, <1>1, <1>2, AppTyped DEF Copying
<1>4. LocalsInv'
  BY <1>2, Sizes DEF LocalsInv, Copying
<1>5. RxInv'
  <2>1. Consumed = taken /\ Consumed' = taken
    BY <1>0, <1>1, <1>2 DEF Consumed
  <2>2. ASSUME ~lapped' PROVE RingInv' /\ SeenInv'
    <3>1. RingInv /\ SeenInv
      BY <1>1, <2>2 DEF RxInv, received
    <3>2. RingInv'
      BY <1>1, <2>1, <3>1 DEF RingInv, Holds, received
    <3>3. taken + 0 <= arrived
      BY <1>0, <1>1, <3>1 DEF SeenInv
    <3>4. Packet(taken, 0)
      BY DEF Packet
    <3>5. SeenInv'
      BY <1>1, <1>2, <3>3, <3>4 DEF SeenInv, Copying, received, Packet
    <3> QED
      BY <3>2, <3>5
  <2> QED
    BY <2>2 DEF RxInv
<1>6. TxInv' /\ StuckInv'
  BY <1>1, <1>2, NotSending DEF Sending
<1> QED
  BY <1>3, <1>4, <1>5, <1>6

LEMMA ReceiveMsgStep == ASSUME IInv, receive_msg PROVE IInv'
<1> USE DEF IInv
<1>0. app \in AppType /\ taken \in Nat
  BY DEF TypeOK, AppType, R
<1>1. /\ UNCHANGED <<received, sent, taken>> /\ app.at = "ready" /\ app.got = <<>>
      /\ app' = [app EXCEPT !.at = "count", !.call = "get"]
  BY DEF receive_msg, LocalsInv, Copying
<1>2. app' \in AppType /\ app'.got = <<>> /\ app'.at = "count"
  <2>1. "count" \in Receiving
    BY DEF Receiving
  <2> QED
    BY <1>0, <1>1, <2>1 DEF AppType
<1>3. TypeOK'
  BY <1>0, <1>1, <1>2, AppTyped DEF Copying
<1>4. LocalsInv'
  BY <1>2 DEF LocalsInv, Copying
<1>5. RxInv'
  BY <1>1, <1>2, NotReceiving DEF Copying
<1>6. TxInv' /\ StuckInv'
  BY <1>1, <1>2, NotSending DEF Sending
<1> QED
  BY <1>3, <1>4, <1>5, <1>6

(* The task ends a call or begins to send: nothing received is pending.    *)
LEMMA LeavingStep ==
  ASSUME IInv, UNCHANGED <<received, sent, taken>>, app.at \in {"idle", "ready"},
         app' \in {Idle, SendFrame}
  PROVE  IInv'
<1> USE DEF IInv
<1>0. taken \in Nat
  BY DEF TypeOK
<1>1. app'.at \in {"idle", "tx"} /\ app'.got = <<>> /\ app' \in AppType
  BY TaskTypes
<1>2. app'.at = "tx" => app'.offset = 0
  BY TaskTypes DEF Idle, Task
<1>3. app.got = <<>> /\ app.at \notin Copying /\ app.at \notin Sending
  BY DEF LocalsInv, Copying, Sending
<1>4. TypeOK'
  BY <1>0, <1>1, AppTyped DEF Copying
<1>5. LocalsInv'
  BY <1>1, <1>2 DEF LocalsInv, Copying
<1>6. RxInv'
  BY <1>1, <1>3, NotReceiving DEF Sending
<1>7. TxInv' /\ StuckInv'
  BY <1>1, <1>3, NotSending DEF Sending
<1> QED
  BY <1>4, <1>5, <1>6, <1>7

LEMMA GetPacketStep == ASSUME IInv, uart_comms_get_packet PROVE IInv'
<1> USE DEF IInv
<1>0. app \in AppType /\ taken \in Nat /\ arrived \in Nat /\ app.length \in Nat
  BY Sizes DEF TypeOK, AppType, R
<1>1. /\ UNCHANGED <<received, sent, taken>> /\ app.at = "ready" /\ app.got = <<>>
      /\ app.length # 0 /\ app.length < R /\ app' = [app EXCEPT !.at = "copy"]
  BY DEF uart_comms_get_packet, LocalsInv, Copying
<1>2. /\ app' \in AppType /\ app'.got = <<>> /\ app'.at = "copy"
      /\ app'.length = app.length
  <2>1. "copy" \in Receiving
    BY DEF Receiving
  <2> QED
    BY <1>0, <1>1, <2>1 DEF AppType
<1>a. Len(app.got) = 0 /\ Len(app'.got) = 0
  BY <1>1, <1>2
<1>3. TypeOK'
  BY <1>0, <1>1, <1>2, <1>a, AppTyped DEF Copying
<1>4. LocalsInv'
  BY <1>0, <1>1, <1>2 DEF LocalsInv, Copying
<1>5. RxInv'
  <2>1. Consumed = taken /\ Consumed' = taken
    BY <1>0, <1>1, <1>2, <1>a DEF Consumed
  <2>2. ASSUME ~lapped' PROVE RingInv' /\ SeenInv'
    <3>1. RingInv /\ SeenInv
      BY <1>1, <2>2 DEF RxInv, received
    <3>2. RingInv'
      BY <1>1, <2>1, <3>1 DEF RingInv, Holds, received
    <3>3. \A i \in 1..Len(app'.got) : app'.got[i] = taken + i
      BY <1>a
    <3>4. SeenInv'
      BY <1>1, <1>2, <3>1, <3>3 DEF SeenInv, Copying, received, Packet
    <3> QED
      BY <3>2, <3>4
  <2> QED
    BY <2>2 DEF RxInv
<1>6. TxInv' /\ StuckInv'
  BY <1>1, <1>2, NotSending DEF Sending
<1> QED
  BY <1>3, <1>4, <1>5, <1>6

(* The part of a copy that is common to its three steps.                   *)
LEMMA CopyTypes ==
  ASSUME IInv, app.at \in Copying
  PROVE  /\ app \in AppType /\ taken \in Nat /\ arrived \in Nat
         /\ rx_head \in 0..(R - 1) /\ rx_tail \in 0..(R - 1)
         /\ rx_buffer \in [0..(R - 1) -> Nat]
         /\ app.got \in Seq(Nat) /\ Len(app.got) \in Nat
         /\ app.length \in Nat /\ 1 <= app.length /\ app.length < R
         /\ Len(app.got) <= app.length
<1>1. TypeOK /\ LocalsInv
  BY DEF IInv
<1>2. app \in AppType /\ app.got \in Seq(Nat)
  BY <1>1 DEF TypeOK, AppType, R
<1>3. app.length \in 0..(R + FrameLen)
  BY <1>1 DEF TypeOK, R
<1>4. app.length \in Nat
  BY <1>3, Sizes
<1>5. 1 <= app.length
  BY <1>1 DEF LocalsInv
<1>6. app.length < R /\ Len(app.got) <= app.length
  BY <1>1 DEF TypeOK, R, Copying
<1>7. /\ taken \in Nat /\ arrived \in Nat /\ rx_buffer \in [0..(R - 1) -> Nat]
      /\ rx_head \in 0..(R - 1) /\ rx_tail \in 0..(R - 1)
  BY <1>1 DEF TypeOK, R
<1>8. Len(app.got) \in Nat
  BY <1>2
<1> QED
  BY <1>2, <1>4, <1>5, <1>6, <1>7, <1>8

LEMMA CopyByteStep == ASSUME IInv, CopyByte PROVE IInv'
<1>0. app.at = "copy" /\ app.at \in Copying
  BY DEF CopyByte, Copying
<1>1. /\ UNCHANGED <<received, sent, taken>> /\ Len(app.got) < app.length
      /\ app' = [app EXCEPT !.at = "advance",
                            !.got = Append(app.got, rx_buffer[rx_tail])]
  BY DEF CopyByte
<1>2. /\ app \in AppType /\ taken \in Nat /\ arrived \in Nat
      /\ rx_head \in 0..(R - 1) /\ rx_tail \in 0..(R - 1)
      /\ rx_buffer \in [0..(R - 1) -> Nat]
      /\ app.got \in Seq(Nat) /\ Len(app.got) \in Nat
      /\ app.length \in Nat /\ 1 <= app.length /\ app.length < R
  BY <1>0, CopyTypes
<1>b. rx_head \in 0..(R - 1) /\ rx_tail \in 0..(R - 1)
  BY <1>2
<1>3. /\ app' \in AppType /\ app'.at = "advance" /\ app'.length = app.length
      /\ app'.got = Append(app.got, rx_buffer[rx_tail])
  <2>1. "advance" \in Receiving
    BY DEF Receiving
  <2>2. Append(app.got, rx_buffer[rx_tail]) \in Seq(Nat)
    BY <1>2
  <2> QED
    BY <1>1, <1>2, <2>1, <2>2 DEF AppType
<1>4. /\ Len(app'.got) = Len(app.got) + 1
      /\ app'.got[Len(app.got) + 1] = rx_buffer[rx_tail]
      /\ \A i \in 1..Len(app.got) : app'.got[i] = app.got[i]
  <2>1. rx_buffer[rx_tail] \in Nat
    BY <1>2
  <2> QED
    BY <1>2, <1>3, <2>1
<1>5. TypeOK'
  <2>1. Len(app'.got) <= app'.length /\ app'.length < R
    BY <1>1, <1>2, <1>3, <1>4
  <2>2. TypeOK /\ taken' \in Nat
    BY <1>1, <1>2 DEF IInv
  <2> QED
    BY <1>1, <1>3, <2>1, <2>2, AppTyped
<1>6. LocalsInv'
  BY <1>2, <1>3, <1>4 DEF LocalsInv, Copying
<1>7. RxInv'
  <2>1. Consumed = taken + Len(app.got) /\ Consumed' = taken + Len(app.got)
    BY <1>0, <1>1, <1>2, <1>3, <1>4 DEF Consumed
  <2>2. ASSUME ~lapped' PROVE RingInv' /\ SeenInv'
    <3>1. RingInv /\ SeenInv
      BY <1>1, <2>2 DEF IInv, RxInv, received
    <3>2. RingInv'
      BY <1>1, <2>1, <3>1 DEF RingInv, Holds, received
    <3>3. rx_buffer[rx_tail] = taken + Len(app.got) + 1
      <4>1. taken + app.length <= arrived
        BY <1>0, <3>1 DEF SeenInv
      <4>2. Dist(rx_head, rx_tail, R) \in Nat
        BY <1>b, Sizes, Distances
      <4>3. Dist(rx_head, rx_tail, R) > 0
        BY <1>1, <1>2, <2>1, <3>1, <4>1, <4>2 DEF RingInv
      <4>4. rx_head # rx_tail
        BY <1>b, <4>3, Sizes, Distances
      <4>5. Holds(rx_buffer, rx_head, rx_tail, R, taken + Len(app.got))
        BY <2>1, <3>1 DEF RingInv
      <4>6. taken + Len(app.got) \in Nat
        BY <1>2
      <4> QED
        <5> DEFINE c == taken + Len(app.got)
        <5>1. c \in Nat /\ Holds(rx_buffer, rx_head, rx_tail, R, c)
          BY <4>5, <4>6
        <5> HIDE DEF c
        <5>2. rx_buffer[rx_tail] = c + 1
          BY <1>b, <4>4, <5>1, Sizes, Leaving
        <5> QED
          BY <5>2 DEF c
    <3>4. \A i \in 1..Len(app'.got) : app'.got[i] = taken + i
      <4> SUFFICES ASSUME NEW i \in 1..Len(app'.got) PROVE app'.got[i] = taken + i
        OBVIOUS
      <4>1. i = Len(app.got) + 1 \/ i \in 1..Len(app.got)
        BY <1>2, <1>4
      <4>2. \A k \in 1..Len(app.got) : app.got[k] = taken + k
        BY <1>0, <3>1 DEF SeenInv
      <4>3. CASE i = Len(app.got) + 1
        BY <1>2, <1>4, <3>3, <4>3
      <4>4. CASE i \in 1..Len(app.got)
        BY <1>4, <4>2, <4>4
      <4> QED
        BY <4>1, <4>3, <4>4
    <3>5. SeenInv'
      BY <1>0, <1>1, <1>3, <3>1, <3>4 DEF SeenInv, Copying, received, Packet
    <3> QED
      BY <3>2, <3>5
  <2> QED
    BY <2>2 DEF RxInv
<1>8. TxInv' /\ StuckInv'
  BY <1>0, <1>1, <1>3, NotSending DEF Sending
<1> QED
  BY <1>5, <1>6, <1>7, <1>8 DEF IInv

LEMMA ReadTailStep == ASSUME IInv, ReadTail PROVE IInv'
<1>0. app.at = "advance" /\ app.at \in Copying
  BY DEF ReadTail, Copying
<1>1. /\ UNCHANGED <<received, sent, taken>>
      /\ app' = [app EXCEPT !.at = "store", !.index = rx_tail]
  BY DEF ReadTail
<1>2. /\ app \in AppType /\ taken \in Nat /\ rx_tail \in 0..(R - 1)
      /\ app.length \in Nat /\ 1 <= app.length /\ app.length < R
      /\ Len(app.got) <= app.length
  BY <1>0, CopyTypes
<1>3. /\ app' \in AppType /\ app'.at = "store" /\ app'.length = app.length
      /\ app'.got = app.got /\ app'.index = rx_tail
  <2>1. "store" \in Receiving /\ rx_tail \in Nat
    BY <1>2, Sizes DEF Receiving
  <2> QED
    BY <1>1, <1>2, <2>1 DEF AppType
<1>4. TypeOK'
  <2>1. TypeOK /\ taken' \in Nat
    BY <1>1, <1>2 DEF IInv
  <2> QED
    BY <1>1, <1>2, <1>3, <2>1, AppTyped
<1>5. LocalsInv'
  <2>1. 1 <= Len(app.got) /\ rx_tail < R
    BY <1>0, <1>2, Sizes DEF IInv, LocalsInv
  <2> QED
    BY <1>2, <1>3, <2>1 DEF LocalsInv, Copying
<1>6. RxInv'
  <2>1. Consumed' = Consumed
    BY <1>0, <1>1, <1>3 DEF Consumed
  <2>2. ASSUME ~lapped' PROVE RingInv' /\ SeenInv'
    <3>1. RingInv /\ SeenInv
      BY <1>1, <2>2 DEF IInv, RxInv, received
    <3>2. RingInv'
      BY <1>1, <2>1, <3>1 DEF RingInv, Holds, received
    <3>3. SeenInv'
      BY <1>0, <1>1, <1>3, <3>1 DEF SeenInv, Copying, received, Packet
    <3> QED
      BY <3>2, <3>3
  <2> QED
    BY <2>2 DEF RxInv
<1>7. TxInv' /\ StuckInv'
  BY <1>0, <1>1, <1>3, NotSending DEF Sending
<1> QED
  BY <1>4, <1>5, <1>6, <1>7 DEF IInv

LEMMA StoreTailStep == ASSUME IInv, StoreTail PROVE IInv'
<1>0. app.at = "store" /\ app.at \in Copying
  BY DEF StoreTail, Copying
<1>1. /\ UNCHANGED <<rx_buffer, rx_head, arrived, ends, lapped, sent, taken>>
      /\ rx_tail' = RxNext(app.index) /\ app' = [app EXCEPT !.at = "copy"]
  BY DEF StoreTail
<1>2. /\ app \in AppType /\ taken \in Nat /\ arrived \in Nat
      /\ rx_head \in 0..(R - 1) /\ rx_tail \in 0..(R - 1)
      /\ app.length \in Nat /\ 1 <= app.length /\ app.length < R
      /\ Len(app.got) <= app.length /\ Len(app.got) \in Nat
  BY <1>0, CopyTypes
<1>b. rx_head \in 0..(R - 1) /\ rx_tail \in 0..(R - 1)
  BY <1>2
<1>3. /\ app' \in AppType /\ app'.at = "copy" /\ app'.length = app.length
      /\ app'.got = app.got
  <2>1. "copy" \in Receiving
    BY DEF Receiving
  <2> QED
    BY <1>1, <1>2, <2>1 DEF AppType
<1>4. app.index \in 0..(R - 1) /\ 1 <= Len(app.got)
  <2>1. app.index < R /\ 1 <= Len(app.got)
    BY <1>0 DEF IInv, LocalsInv
  <2>2. app.index \in Nat
    BY <1>2 DEF AppType
  <2> QED
    BY <2>1, <2>2, Sizes
<1>5. /\ rx_tail' = (IF app.index + 1 < R THEN app.index + 1 ELSE 0)
      /\ rx_tail' \in 0..(R - 1)
  BY <1>1, <1>4, Moving
<1>6. TypeOK'
  BY <1>1, <1>2, <1>3, <1>5 DEF IInv, TypeOK, AppType, R, sent, tx, uart
<1>7. LocalsInv'
  BY <1>2, <1>3 DEF LocalsInv, Copying
<1>8. RxInv'
  <2>1. Consumed = taken + Len(app.got) - 1 /\ Consumed' = taken + Len(app.got)
    BY <1>0, <1>1, <1>2, <1>3 DEF Consumed
  <2>2. ASSUME ~lapped' PROVE RingInv' /\ SeenInv'
    <3>1. RingInv /\ SeenInv
      BY <1>1, <2>2 DEF IInv, RxInv
    <3>2. app.index = rx_tail /\ taken + app.length <= arrived
      BY <1>0, <3>1 DEF SeenInv
    <3>3. Consumed \in Nat /\ Consumed' = Consumed + 1
      BY <1>2, <1>4, <2>1
    <3>4. Dist(rx_head, rx_tail, R) \in Nat
      BY <1>b, Sizes, Distances
    <3>5. Consumed + Dist(rx_head, rx_tail, R) = arrived
      BY <3>1 DEF RingInv
    <3>6. Dist(rx_head, rx_tail, R) > 0
      BY <1>2, <2>1, <3>2, <3>4, <3>5
    <3>7. rx_head # rx_tail
      BY <1>b, <3>6, Sizes, Distances
    <3>8. Holds(rx_buffer, rx_head, rx_tail, R, Consumed)
      BY <3>1 DEF RingInv
    <3>9. /\ Dist(rx_head, rx_tail', R) = Dist(rx_head, rx_tail, R) - 1
          /\ Holds(rx_buffer, rx_head, rx_tail', R, Consumed + 1)
      <4>1. rx_tail' = IF rx_tail + 1 < R THEN rx_tail + 1 ELSE 0
        BY <1>5, <3>2
      <4> QED
        BY <1>2, <3>3, <3>7, <3>8, <4>1, Sizes, Leaving
    <3>10. RingInv'
      BY <1>1, <1>2, <3>3, <3>4, <3>5, <3>9 DEF RingInv
    <3>11. SeenInv'
      BY <1>0, <1>1, <1>3, <3>1 DEF SeenInv, Copying, Packet
    <3> QED
      BY <3>10, <3>11
  <2> QED
    BY <2>2 DEF RxInv
<1>9. TxInv' /\ StuckInv'
  BY <1>0, <1>1, <1>3, NotSending DEF Sending
<1> QED
  BY <1>6, <1>7, <1>8, <1>9 DEF IInv

LEMMA HandleStep == ASSUME IInv, Handle PROVE IInv'
<1>0. app.at = "copy" /\ app.at \in Copying /\ Len(app.got) = app.length
  BY DEF Handle, Copying
<1>1. UNCHANGED <<received, sent>> /\ taken' = app.got[app.length]
      /\ app' \in {SendFrame, Idle}
  BY DEF Handle
<1>2. /\ taken \in Nat /\ app.got \in Seq(Nat) /\ app.length \in Nat /\ 1 <= app.length
  BY <1>0, CopyTypes
<1>3. app'.at \in {"idle", "tx"} /\ app'.got = <<>> /\ app' \in AppType
  BY <1>1, TaskTypes
<1>4. app'.at = "tx" => app'.offset = 0
  BY <1>1, TaskTypes DEF Idle, Task
<1>5. taken' \in Nat
  BY <1>0, <1>1, <1>2
<1>6. TypeOK'
  <2>1. TypeOK /\ app'.at \notin Copying
    BY <1>3 DEF IInv, Copying
  <2> QED
    BY <1>1, <1>3, <1>5, <2>1, AppTyped
<1>7. LocalsInv'
  BY <1>3, <1>4 DEF LocalsInv, Copying
<1>8. RxInv'
  <2>1. Consumed = taken + app.length /\ Consumed' = taken'
    <3>1. Len(app'.got) = 0
      BY <1>3
    <3> QED
      <4>1. app.at \notin {"advance", "store"} /\ app'.at \notin {"advance", "store"}
        BY <1>0, <1>3
      <4>2. Consumed = taken + Len(app.got) /\ Consumed' = taken' + Len(app'.got)
        BY <4>1 DEF Consumed
      <4>3. Consumed = taken + app.length
        BY <1>0, <4>2
      <4>4. Consumed' = taken'
        <5>1. \A t \in Nat : t + 0 = t
          OBVIOUS
        <5>2. taken' + Len(app'.got) = taken'
          BY <1>5, <3>1, <5>1
        <5> QED
          BY <4>2, <5>2
      <4> QED
        BY <4>3, <4>4
  <2>2. ASSUME ~lapped' PROVE RingInv' /\ SeenInv'
    <3>1. RingInv /\ SeenInv
      BY <1>1, <2>2 DEF IInv, RxInv, received
    <3>2. taken' = taken + app.length
      BY <1>0, <1>1, <1>2, <3>1 DEF SeenInv
    <3>3. RingInv'
      BY <1>1, <2>1, <3>1, <3>2 DEF RingInv, Holds, received
    <3>4. SeenInv'
      BY <1>3 DEF SeenInv, Copying
    <3> QED
      BY <3>3, <3>4
  <2> QED
    BY <2>2 DEF RxInv
<1>9. TxInv' /\ StuckInv'
  <2>1. app.at \notin Sending
    BY <1>0 DEF Sending
  <2> QED
    BY <1>1, <1>3, <2>1, NotSending DEF Sending
<1> QED
  BY <1>6, <1>7, <1>8, <1>9 DEF IInv

-----------------------------------------------------------------------------
(* The task sends.                                                         *)

LEMMA SendTypes ==
  ASSUME IInv, app.at \in Sending
  PROVE  /\ app \in AppType /\ taken \in Nat /\ queued \in Nat /\ out \in Nat
         /\ tx_head \in 0..(T - 1) /\ tx_tail \in 0..(T - 1)
         /\ tx_buffer \in [0..(T - 1) -> Nat]
         /\ app.length \in Nat /\ app.offset \in Nat /\ app.index \in Nat
         /\ app.byte \in Nat /\ app.got = <<>> /\ app.at \notin Copying
<1>1. TypeOK /\ LocalsInv /\ app.at \notin Copying
  BY DEF IInv, Sending, Copying
<1>2. app \in AppType /\ app.got = <<>>
  BY <1>1 DEF TypeOK, AppType, R, LocalsInv
<1>3. app.length \in 0..(R + FrameLen)
  BY <1>2 DEF AppType
<1>4. app.length \in Nat
  BY <1>3, Sizes
<1>5. /\ taken \in Nat /\ queued \in Nat /\ out \in Nat
      /\ tx_head \in 0..(T - 1) /\ tx_tail \in 0..(T - 1)
      /\ tx_buffer \in [0..(T - 1) -> Nat]
  BY <1>1 DEF TypeOK, T
<1>6. app.offset \in Nat /\ app.index \in Nat /\ app.byte \in Nat
  BY <1>2 DEF AppType
<1> QED
  BY <1>1, <1>2, <1>4, <1>5, <1>6

(* A step of the sending task that touches neither ring.                   *)
LEMMA SendStep ==
  ASSUME IInv, app.at \in Sending, UNCHANGED <<received, sent, taken>>,
         app' \in AppType, app'.got = app.got, app'.at \in Sending \ {"tx"},
         app'.at = "kick_store" => app'.index < T,
         TxInv',
         app'.at = "kick_tail" \/ app'.at = "kick_store" => register # "unused",
         app'.at = "enable" /\ tx_tail # tx_head => register # "unused"
  PROVE  IInv'
<1>1. app.got = <<>> /\ app.at \notin Copying /\ taken \in Nat
  BY SendTypes
<1>2. app'.at \notin Copying /\ app'.at \notin Receiving /\ app'.at # "tx"
  BY DEF Sending, Copying, Receiving
<1>3. TypeOK'
  BY <1>1, <1>2, AppTyped DEF IInv
<1>4. LocalsInv'
  BY <1>1, <1>2 DEF LocalsInv, Receiving
<1>5. RxInv'
  BY <1>1, NotReceiving
<1>6. StuckInv'
  BY DEF StuckInv, NoStuckTransmit, sent, tx, uart
<1> QED
  BY <1>3, <1>4, <1>5, <1>6 DEF IInv

LEMMA TruncateStep == ASSUME IInv, Truncate PROVE IInv'
<1>0. app.at = "tx" /\ app.at \in Sending /\ UNCHANGED <<received, sent, taken>>
  BY DEF Truncate, Sending
<1>1. /\ app \in AppType /\ tx_head \in 0..(T - 1) /\ tx_tail \in 0..(T - 1)
      /\ app.offset = 0
  BY <1>0, SendTypes DEF IInv, LocalsInv
<1>2. tx_available = T - 1 - Dist(tx_head, tx_tail, T) /\ Dist(tx_head, tx_tail, T) \in 0..(T - 1)
  <2>1. T \in Nat \ {0}
    BY Sizes
  <2> QED
    BY <1>1, <2>1, Counting DEF tx_available, tx_count, T
<1>3. PICK n : /\ app' = [app EXCEPT !.at = "fill", !.length = n]
               /\ n = IF FrameLen > tx_available THEN tx_available ELSE FrameLen
  BY DEF Truncate
<1>4. n \in 0..(R + FrameLen) /\ n \in Nat /\ n + Dist(tx_head, tx_tail, T) < T
  BY <1>2, <1>3, Sizes
<1>5. /\ app' \in AppType /\ app'.got = app.got /\ app'.at = "fill"
      /\ app'.length = n /\ app'.offset = 0
  <2>1. "fill" \in Sending
    BY DEF Sending
  <2> QED
    BY <1>1, <1>3, <1>4, <2>1 DEF AppType
<1>6. TxInv'
  <2>1. n - 0 + Dist(tx_head, tx_tail, T) < T /\ 0 <= n
    BY <1>2, <1>4
  <2> QED
    BY <1>0, <1>5, <2>1 DEF IInv, TxInv, Gone, KickingOff, Holds, sent, tx, uart
<1> QED
  BY <1>0, <1>5, <1>6, SendStep DEF Sending

LEMMA FillStep == ASSUME IInv, Fill PROVE IInv'
<1>0. app.at = "fill" /\ app.at \in Sending
  BY DEF Fill, Sending
<1>1. /\ app \in AppType /\ taken \in Nat /\ queued \in Nat /\ out \in Nat
      /\ tx_head \in 0..(T - 1) /\ tx_tail \in 0..(T - 1)
      /\ tx_buffer \in [0..(T - 1) -> Nat]
      /\ app.length \in Nat /\ app.offset \in Nat
      /\ app.got = <<>> /\ app.at \notin Copying
  BY <1>0, SendTypes
<1>2. /\ app.offset < app.length
      /\ tx_buffer' = [tx_buffer EXCEPT ![tx_head] = queued + 1]
      /\ tx_head' = TxNext(tx_head) /\ queued' = queued + 1
      /\ app' = [app EXCEPT !.offset = app.offset + 1]
      /\ UNCHANGED <<received, uart, tx_tail, taken, disorder, collided>>
  BY DEF Fill
<1>3. /\ app' \in AppType /\ app'.got = <<>> /\ app'.at = "fill"
      /\ app'.length = app.length /\ app'.offset = app.offset + 1
  <2>1. app.offset + 1 \in Nat
    BY <1>1
  <2> QED
    BY <1>0, <1>1, <1>2, <2>1 DEF AppType
<1>4. /\ tx_head' = (IF tx_head + 1 < T THEN tx_head + 1 ELSE 0)
      /\ tx_head' \in 0..(T - 1)
  BY <1>1, <1>2, Moving
<1>5. /\ tx_buffer' \in [0..(T - 1) -> Nat] /\ Stored(tx_buffer', tx_buffer, tx_head, queued + 1, T)
  BY <1>1, <1>2 DEF Stored
<1>6. TypeOK'
  <2>1. TypeOK /\ queued' \in Nat
    BY <1>1, <1>2 DEF IInv
  <2> QED
    BY <1>2, <1>3, <1>4, <1>5, <2>1 DEF TypeOK, AppType, R, T, received, uart
<1>7. LocalsInv'
  BY <1>3 DEF LocalsInv, Copying
<1>8. RxInv'
  BY <1>1, <1>2, <1>3, NotReceiving DEF Sending
<1>9. TxInv'
  <2>1. ASSUME ~collided'
        PROVE  /\ ~disorder' /\ Gone' \in Nat
               /\ Gone' + Dist(tx_head', tx_tail', T) = queued'
               /\ Holds(tx_buffer', tx_head', tx_tail', T, Gone')
               /\ app'.offset <= app'.length
               /\ app'.length - app'.offset + Dist(tx_head', tx_tail', T) < T
    <3>1. /\ ~disorder /\ Gone \in Nat /\ Gone + Dist(tx_head, tx_tail, T) = queued
          /\ Holds(tx_buffer, tx_head, tx_tail, T, Gone)
          /\ app.length - app.offset + Dist(tx_head, tx_tail, T) < T
      BY <1>0, <1>2, <2>1 DEF IInv, TxInv
    <3>2. Gone' = Gone /\ Gone = out
      BY <1>0, <1>2, <1>3 DEF Gone, uart
    <3>3. Dist(tx_head, tx_tail, T) \in 0..(T - 1)
      BY <1>1, Sizes, Distances
    <3>4. Dist(tx_head, tx_tail, T) + 1 < T
      <4>1. app.length \in Nat /\ app.offset \in Nat /\ app.offset < app.length
        BY <1>1, <1>2
      <4>2. app.length - app.offset >= 1
        BY <4>1
      <4> QED
        BY <3>1, <3>3, <4>1, <4>2, Sizes
    <3>5. tx_head' # tx_tail
      BY <1>1, <1>4, <3>4, Sizes DEF Dist
    <3>6. queued + 1 = out + 1 + Dist(tx_head, tx_tail, T)
      BY <1>1, <3>1, <3>2, <3>3
    <3>7. /\ Dist(tx_head', tx_tail, T) = Dist(tx_head, tx_tail, T) + 1
          /\ Holds(tx_buffer', tx_head', tx_tail, T, out)
      <4>1. tx_head \in 0..(T - 1) /\ tx_tail \in 0..(T - 1) /\ out \in Nat
        BY <1>1
      <4>2. Holds(tx_buffer, tx_head, tx_tail, T, out)
        BY <3>1, <3>2
      <4> QED
        BY <1>4, <1>5, <3>5, <3>6, <4>1, <4>2, Sizes, Entering
    <3>8. ~disorder' /\ tx_tail' = tx_tail
      BY <1>2, <3>1
    <3>9. Holds(tx_buffer', tx_head', tx_tail', T, Gone')
      BY <3>2, <3>7, <3>8
    <3>10. Gone' + Dist(tx_head', tx_tail', T) = queued'
      BY <1>1, <1>2, <3>2, <3>3, <3>6, <3>7, <3>8
    <3>11. app'.length - app'.offset + Dist(tx_head', tx_tail', T) < T
      <4>1. app.length \in Nat /\ app.offset \in Nat
        BY <1>1
      <4>2. app'.length - app'.offset = app.length - app.offset - 1
        BY <1>3, <4>1
      <4>3. app.length - app.offset - 1 + (Dist(tx_head, tx_tail, T) + 1)
              = app.length - app.offset + Dist(tx_head, tx_tail, T)
        BY <3>3, <4>1
      <4> QED
        BY <3>1, <3>7, <3>8, <4>2, <4>3
    <3>12. app'.offset <= app'.length
      BY <1>1, <1>2, <1>3
    <3> QED
      BY <3>1, <3>2, <3>8, <3>9, <3>10, <3>11, <3>12
  <2> QED
    BY <1>3, <2>1 DEF TxInv, KickingOff
<1>10. StuckInv'
  BY <1>3 DEF StuckInv, NoStuckTransmit, Sending
<1> QED
  BY <1>6, <1>7, <1>8, <1>9, <1>10 DEF IInv

LEMMA KickOffStep == ASSUME IInv, KickOff PROVE IInv'
<1>0. app.at = "fill" /\ app.at \in Sending /\ UNCHANGED <<received, sent, taken>>
  BY DEF KickOff, Sending
<1>1. app \in AppType
  BY <1>0, SendTypes
<1>2. PICK p \in {"kick", "enable"} :
        /\ app' = [app EXCEPT !.at = p]
        /\ p = "kick" => tx_tail # tx_head
        /\ p = "enable" /\ tx_tail # tx_head => register = "full"
  BY DEF KickOff, uart_is_writable
<1>3. app' \in AppType /\ app'.got = app.got /\ app'.at = p
  <2>1. p \in Sending
    BY DEF Sending
  <2> QED
    BY <1>1, <1>2, <2>1 DEF AppType
<1>4. TxInv'
  BY <1>0, <1>2, <1>3 DEF IInv, TxInv, Gone, KickingOff, Holds, sent, tx, uart
<1>5. app'.at \in Sending \ {"tx"}
  BY <1>3 DEF Sending
<1> QED
  BY <1>0, <1>2, <1>3, <1>4, <1>5, SendStep

LEMMA KickReadStep == ASSUME IInv, KickRead PROVE IInv'
<1>0. app.at = "kick" /\ app.at \in Sending /\ UNCHANGED <<received, sent, taken>>
  BY DEF KickRead, Sending
<1>1. /\ app \in AppType /\ tx_buffer \in [0..(T - 1) -> Nat] /\ out \in Nat
      /\ tx_tail \in 0..(T - 1) /\ tx_head \in 0..(T - 1)
  BY <1>0, SendTypes
<1>2. PICK b \in Nat : b = tx_buffer[tx_tail] /\ app' = [app EXCEPT !.at = "kick_put", !.byte = b]
  BY <1>1 DEF KickRead
<1>3. app' \in AppType /\ app'.got = app.got /\ app'.at = "kick_put" /\ app'.byte = b
  <2>1. "kick_put" \in Sending
    BY DEF Sending
  <2> QED
    BY <1>1, <1>2, <2>1 DEF AppType
<1>4. ~collided => b = out + 1 /\ tx_tail # tx_head
  <2> SUFFICES ASSUME ~collided PROVE b = out + 1 /\ tx_tail # tx_head
    OBVIOUS
  <2>1. /\ Holds(tx_buffer, tx_head, tx_tail, T, out) /\ tx_tail # tx_head
    BY <1>0 DEF IInv, TxInv, Gone, KickingOff
  <2>2. tx_head \in 0..(T - 1) /\ tx_tail \in 0..(T - 1) /\ out \in Nat
    BY <1>1
  <2>3. tx_buffer[tx_tail] = out + 1
    BY <2>1, <2>2, Sizes, Leaving
  <2> QED
    BY <1>2, <2>1, <2>3
<1>5. TxInv'
  BY <1>0, <1>3, <1>4 DEF IInv, TxInv, Gone, KickingOff, Holds, sent, tx, uart
<1>6. app'.at \in Sending \ {"tx"}
  BY <1>3 DEF Sending
<1> QED
  BY <1>0, <1>3, <1>5, <1>6, SendStep

LEMMA KickPutStep == ASSUME IInv, KickPut PROVE IInv'
<1>0. app.at = "kick_put" /\ app.at \in Sending
  BY DEF KickPut, Sending
<1>1. /\ app \in AppType /\ out \in Nat /\ app.byte \in Nat /\ app.got = <<>>
      /\ app.at \notin Copying
  BY <1>0, SendTypes
<1>2. /\ register' = "full" /\ out' = app.byte
      /\ disorder' = (disorder \/ app.byte # out + 1)
      /\ app' = [app EXCEPT !.at = "kick_tail"]
      /\ UNCHANGED <<received, tx, irq, taken, queued, collided>>
  BY DEF KickPut, uart_putc_raw
<1>3. app' \in AppType /\ app'.got = <<>> /\ app'.at = "kick_tail"
  <2>1. "kick_tail" \in Sending
    BY DEF Sending
  <2> QED
    BY <1>1, <1>2, <2>1 DEF AppType
<1>4. TypeOK'
  <2>1. disorder' \in BOOLEAN
    BY <1>2, Zenon DEF IInv, TypeOK
  <2>2. TypeOK /\ out' \in Nat
    BY <1>1, <1>2 DEF IInv
  <2>3. app'.at \notin Copying
    BY <1>3 DEF Copying
  <2> QED
    BY <1>2, <1>3, <2>1, <2>2, <2>3 DEF TypeOK, AppType, Copying, R, received, tx
<1>5. LocalsInv'
  BY <1>3 DEF LocalsInv, Copying
<1>6. RxInv'
  BY <1>1, <1>2, <1>3, NotReceiving DEF Sending
<1>7. TxInv'
  <2>1. ASSUME ~collided'
        PROVE  /\ ~disorder' /\ Gone' = Gone /\ Gone \in Nat
               /\ Gone + Dist(tx_head, tx_tail, T) = queued
               /\ Holds(tx_buffer, tx_head, tx_tail, T, Gone)
               /\ tx_tail # tx_head
    <3>1. /\ ~disorder /\ Gone \in Nat /\ Gone + Dist(tx_head, tx_tail, T) = queued
          /\ Holds(tx_buffer, tx_head, tx_tail, T, Gone)
          /\ app.byte = out + 1 /\ tx_tail # tx_head
      BY <1>0, <1>2, <2>1 DEF IInv, TxInv, KickingOff
    <3>2. Gone' = out' - 1 /\ Gone = out /\ out' = out + 1
      BY <1>0, <1>2, <1>3, <3>1 DEF Gone
    <3>3. ~disorder'
      BY <1>2, <3>1
    <3> QED
      BY <1>1, <3>1, <3>2, <3>3
  <2> QED
    BY <1>2, <1>3, <2>1 DEF TxInv, KickingOff, Holds, tx
<1>8. StuckInv'
  BY <1>2, <1>3 DEF StuckInv, NoStuckTransmit, Sending
<1> QED
  BY <1>4, <1>5, <1>6, <1>7, <1>8 DEF IInv

LEMMA KickReadTailStep == ASSUME IInv, KickReadTail PROVE IInv'
<1>0. /\ app.at = "kick_tail" /\ app.at \in Sending /\ UNCHANGED <<received, sent, taken>>
      /\ app' = [app EXCEPT !.at = "kick_store", !.index = tx_tail]
  BY DEF KickReadTail, Sending
<1>1. app \in AppType /\ tx_tail \in 0..(T - 1) /\ tx_tail \in Nat /\ tx_tail < T
  <2>1. app \in AppType /\ tx_tail \in 0..(T - 1)
    BY <1>0, SendTypes
  <2> QED
    BY <2>1, Sizes
<1>2. app' \in AppType /\ app'.got = app.got /\ app'.at = "kick_store" /\ app'.index = tx_tail
  <2>1. "kick_store" \in Sending
    BY DEF Sending
  <2> QED
    BY <1>0, <1>1, <2>1 DEF AppType
<1>3. TxInv'
  BY <1>0, <1>2 DEF IInv, TxInv, Gone, KickingOff, Holds, sent, tx, uart
<1>4. app'.at \in Sending \ {"tx"} /\ register # "unused"
  BY <1>0, <1>2 DEF Sending, IInv, StuckInv
<1> QED
  BY <1>0, <1>1, <1>2, <1>3, <1>4, SendStep

LEMMA KickStoreTailStep == ASSUME IInv, KickStoreTail PROVE IInv'
<1>0. app.at = "kick_store" /\ app.at \in Sending
  BY DEF KickStoreTail, Sending
<1>1. /\ app \in AppType /\ out \in Nat /\ queued \in Nat /\ app.index \in Nat
      /\ tx_head \in 0..(T - 1) /\ tx_tail \in 0..(T - 1)
      /\ app.got = <<>> /\ app.at \notin Copying
  BY <1>0, SendTypes
<1>2. /\ tx_tail' = TxNext(app.index) /\ app' = [app EXCEPT !.at = "enable"]
      /\ UNCHANGED <<received, tx_buffer, tx_head, uart, taken, queued, disorder, collided>>
  BY DEF KickStoreTail
<1>3. app' \in AppType /\ app'.got = <<>> /\ app'.at = "enable"
  <2>1. "enable" \in Sending
    BY DEF Sending
  <2> QED
    BY <1>1, <1>2, <2>1 DEF AppType
<1>4. /\ tx_tail' = (IF app.index + 1 < T THEN app.index + 1 ELSE 0)
      /\ tx_tail' \in 0..(T - 1)
  <2>1. app.index < T
    BY <1>0 DEF IInv, LocalsInv
  <2>2. app.index \in 0..(T - 1)
    BY <1>1, <2>1, Sizes
  <2> QED
    BY <1>2, <2>2, Moving
<1>5. TypeOK'
  <2>1. TypeOK /\ app'.at \notin Copying
    BY <1>3 DEF IInv, Copying
  <2> QED
    BY <1>2, <1>3, <1>4, <2>1 DEF TypeOK, AppType, Copying, R, T, received, uart
<1>6. LocalsInv'
  BY <1>3 DEF LocalsInv, Copying
<1>7. RxInv'
  BY <1>1, <1>2, <1>3, NotReceiving DEF Sending
<1>8. TxInv'
  <2>1. ASSUME ~collided'
        PROVE  /\ ~disorder' /\ Gone' \in Nat
               /\ Gone' + Dist(tx_head', tx_tail', T) = queued'
               /\ Holds(tx_buffer', tx_head', tx_tail', T, Gone')
    <3>1. /\ ~disorder /\ Gone \in Nat /\ Gone + Dist(tx_head, tx_tail, T) = queued
          /\ Holds(tx_buffer, tx_head, tx_tail, T, Gone)
          /\ app.index = tx_tail /\ tx_tail # tx_head
      BY <1>0, <1>2, <2>1 DEF IInv, TxInv, KickingOff
    <3>2. Gone' = out /\ Gone = out - 1
      BY <1>0, <1>2, <1>3 DEF Gone, uart
    <3>3. Gone' = Gone + 1
      BY <1>1, <3>2
    <3>4. tx_tail' = IF tx_tail + 1 < T THEN tx_tail + 1 ELSE 0
      BY <1>4, <3>1
    <3>5. tx_head \in 0..(T - 1) /\ tx_tail \in 0..(T - 1) /\ Gone \in Nat
      BY <1>1, <3>1
    <3>6. /\ Dist(tx_head, tx_tail', T) = Dist(tx_head, tx_tail, T) - 1
          /\ Holds(tx_buffer, tx_head, tx_tail', T, Gone + 1)
      BY <3>1, <3>4, <3>5, Sizes, Leaving
    <3>7. Dist(tx_head, tx_tail, T) \in Int
      BY <3>5, Sizes, Distances
    <3>8. Gone + 1 + (Dist(tx_head, tx_tail, T) - 1) = queued /\ Gone + 1 \in Nat
      BY <3>1, <3>5, <3>7
    <3>9. ~disorder' /\ queued' = queued /\ tx_head' = tx_head /\ tx_buffer' = tx_buffer
      BY <1>2, <3>1
    <3> QED
      BY <3>3, <3>6, <3>8, <3>9
  <2> QED
    BY <1>3, <2>1 DEF TxInv, KickingOff
<1>9. StuckInv'
  <2>1. register # "unused"
    BY <1>0 DEF IInv, StuckInv
  <2> QED
    BY <1>2, <1>3, <2>1 DEF StuckInv, NoStuckTransmit, Sending, uart
<1> QED
  BY <1>5, <1>6, <1>7, <1>8, <1>9 DEF IInv

LEMMA EnableTxStep == ASSUME IInv, EnableTx PROVE IInv'
<1>0. app.at = "enable" /\ app.at \in Sending
  BY DEF EnableTx, Sending
<1>1. app.got = <<>> /\ app.at \notin Copying
  BY <1>0, SendTypes
<1>2. /\ irq' = TRUE /\ app' = Idle
      /\ UNCHANGED <<received, tx, register, out, taken, queued, disorder, collided>>
  BY DEF EnableTx
<1>3. app' \in AppType /\ app'.got = <<>> /\ app'.at = "idle"
  BY <1>2, TaskTypes
<1>4. TypeOK'
  <2>1. TypeOK /\ app'.at \notin Copying
    BY <1>3 DEF IInv, Copying
  <2> QED
    BY <1>2, <1>3, <2>1 DEF TypeOK, AppType, Copying, R, T, received, tx
<1>5. LocalsInv'
  BY <1>3 DEF LocalsInv, Copying
<1>6. RxInv'
  BY <1>1, <1>2, <1>3, NotReceiving DEF Sending
<1>7. TxInv'
  BY <1>0, <1>2, <1>3 DEF IInv, TxInv, Gone, KickingOff, Holds, tx
<1>8. StuckInv'
  <2>1. tx_tail # tx_head => register # "unused"
    BY <1>0 DEF IInv, StuckInv
  <2> QED
    BY <1>2, <1>3, <2>1 DEF StuckInv, NoStuckTransmit, Sending, tx
<1> QED
  BY <1>4, <1>5, <1>6, <1>7, <1>8 DEF IInv

-----------------------------------------------------------------------------
LEMMA Unmoved == ASSUME IInv, UNCHANGED vars PROVE IInv'
BY SMTT(60) DEF IInv, vars, received, sent, tx, uart, TypeOK, LocalsInv, RxInv, RingInv, SeenInv,
       Consumed, Packet, Holds, TxInv, Gone, KickingOff, StuckInv, NoStuckTransmit, Copying

LEMMA Inductive == IInv /\ [Next]_vars => IInv'
<1> SUFFICES ASSUME IInv, [Next]_vars PROVE IInv'
  OBVIOUS
<1>1. CASE Receive \/ TxInterrupt \/ Transmitted
  BY <1>1, ReceiveStep, TxInterruptStep, TransmittedStep
<1>2. CASE Ready
  BY <1>2, DispatchStep, CountingStep, CountedStep, ScanStep, ScannedAllStep DEF Ready
<1>3. CASE Get
  <2>1. CASE NoPacketAnyMore
    <3>1. UNCHANGED <<received, sent, taken>> /\ app.at = "ready" /\ app' = Idle
      BY <2>1 DEF NoPacketAnyMore
    <3> QED
      BY <3>1, LeavingStep
  <2> QED
    BY <1>3, <2>1, ReceiveMsgStep, GetPacketStep, CopyByteStep, ReadTailStep,
       StoreTailStep, HandleStep DEF Get
<1>4. CASE send_ping \/ send_command
  <2>1. UNCHANGED <<received, sent, taken>> /\ app.at \in {"idle", "ready"} /\ app' = SendFrame
    BY <1>4 DEF send_ping, send_command
  <2> QED
    BY <2>1, LeavingStep
<1>5. CASE uart_comms_tx
  BY <1>5, TruncateStep, FillStep, KickOffStep, KickReadStep, KickPutStep, KickReadTailStep,
     KickStoreTailStep, EnableTxStep DEF uart_comms_tx
<1>6. CASE UNCHANGED vars
  BY <1>6, Unmoved
<1> QED
  BY <1>1, <1>2, <1>3, <1>4, <1>5, <1>6 DEF Next

THEOREM Invariance == Spec => []IInv
BY Beginning, Inductive, PTL DEF Spec

-----------------------------------------------------------------------------
(* The indices never leave the rings (uart_communications.c), and a packet *)
(* never leaves the task's buffer (adcs_driver.c).                         *)
THEOREM TypeCorrect == Spec => []TypeOK
<1>1. IInv => TypeOK
  BY DEF IInv
<1> QED
  BY <1>1, Invariance, PTL

(* uart_comms_get_packet delivers what came next, whole and once, whatever *)
(* interrupts it, for rings of every size.                                 *)
THEOREM PacketsDeliveredWhole == Spec => []DeliveredWhole
<1>1. IInv => DeliveredWhole
  <2> SUFFICES ASSUME IInv, app.at = "copy", Len(app.got) = app.length, ~lapped
               PROVE  /\ app.got = [i \in 1..app.length |-> taken + i]
                      /\ \A i \in 1..app.length : IsZero(app.got[i]) <=> i = app.length
    BY DEF DeliveredWhole
  <2>1. app.at \in Copying /\ SeenInv
    BY DEF Copying, IInv, RxInv
  <2>2. app.got \in Seq(Nat) /\ taken \in Nat /\ app.length \in Nat
    BY <2>1, CopyTypes
  <2>3. /\ \A i \in 1..app.length : app.got[i] = taken + i
        /\ Packet(taken, app.length)
    BY <2>1 DEF SeenInv
  <2>4. app.got = [i \in 1..app.length |-> taken + i]
    <3>1. app.got \in [1..app.length -> Nat]
      BY <2>2
    <3> QED
      BY <2>3, <3>1
  <2>5. \A i \in 1..app.length : IsZero(taken + i) <=> i = app.length
    BY <2>2, <2>3 DEF Packet, IsZero
  <2> QED
    BY <2>3, <2>4, <2>5
<1> QED
  BY <1>1, Invariance, PTL

(* No queued byte is left behind with the interrupt off.                   *)
THEOREM NothingLeftBehind == Spec => []NoStuckTransmit
<1>1. IInv => NoStuckTransmit
  BY DEF IInv, StuckInv
<1> QED
  BY <1>1, Invariance, PTL

(* Bytes are transmitted in the order in which they were queued, each      *)
(* once, unless the handler transmitted inside a kick-off.                 *)
THEOREM TransmittedInOrder == Spec => []InOrderUnlessCollided
<1>1. IInv => InOrderUnlessCollided
  BY DEF IInv, TxInv, InOrderUnlessCollided
<1> QED
  BY <1>1, Invariance, PTL
=============================================================================
