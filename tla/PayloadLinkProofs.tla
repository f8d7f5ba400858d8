-------------------------- MODULE PayloadLinkProofs --------------------------
(***************************************************************************)
(* Proofs about PayloadLink, for every number of sync bytes and tries,     *)
(* every queue size and any number of faults.                              *)
(***************************************************************************)
EXTENDS PayloadLink, FiniteSetTheorems, TLAPS

Ats == Writing \cup Reading \cup {"idle", "execute"}

(* The bodies still on their way to the payload.                           *)
Bodies(s) == {i \in DOMAIN s : s[i].kind = "body"}

(* They belong to writes that have begun, the line keeps them in the order *)
(* of the writes, and all are later than what the payload has run.         *)
LineInOrder ==
  \A i \in Bodies(wire["pi"]) :
    /\ wire["pi"][i].id \in DOMAIN begun
    /\ \A j \in Bodies(wire["pi"]) : i < j => wire["pi"][i].id < wire["pi"][j].id
    /\ \A k \in DOMAIN executed : executed[k] < wire["pi"][i].id

(* What the payload is about to run is later than what it has run and      *)
(* earlier than what is on the line.                                       *)
PendingInOrder ==
  end["pi"].at = "execute" =>
    /\ end["pi"].id \in DOMAIN begun
    /\ \A k \in DOMAIN executed : executed[k] < end["pi"].id
    /\ \A i \in Bodies(wire["pi"]) : end["pi"].id < wire["pi"][i].id

(* Until the flight computer sends it, the body of its write is later than *)
(* all that.                                                               *)
BodyNotSent ==
  end["obc"].at \in {"syn_ack", "header_ack"} =>
    /\ end["obc"].id = Len(begun) /\ begun # <<>>
    /\ \A i \in Bodies(wire["pi"]) : wire["pi"][i].id < end["obc"].id
    /\ \A k \in DOMAIN executed : executed[k] < end["obc"].id
    /\ end["pi"].at = "execute" => end["pi"].id < end["obc"].id

(* The command being written is still in the queue.                        *)
CommandInv == end["obc"].at \in Writing /\ call = "execute" => commands # <<>>

OrderInv == LineInOrder /\ PendingInOrder /\ BodyNotSent /\ ExecutedAsWritten

IInv == TypeOK /\ CommandInv /\ OrderInv

-----------------------------------------------------------------------------
(* Bytes and endpoints.                                                    *)

LEMMA ByteTypes ==
  /\ {Syn, Ack, Start, Noise, Timeout} \subseteq Byte
  /\ \A b \in {Syn, Ack, Start, Noise, Timeout} : b.kind \notin {"body", "header"}
  /\ \A w \in Nat : /\ Header(w) \in Byte /\ Body(w) \in Byte
                    /\ Header(w).kind = "header"
                    /\ Body(w).kind = "body" /\ Body(w).id = w
BY DEF Byte, Syn, Ack, Start, Noise, Timeout, Plain, Header, Body

(* What the updates of an endpoint leave it with.                          *)
LEMMA EndpointUpdates ==
  ASSUME NEW e \in Endpoint
  PROVE  /\ [e EXCEPT !.n = @ + 1] \in Endpoint
         /\ [e EXCEPT !.n = @ + 1].at = e.at /\ [e EXCEPT !.n = @ + 1].id = e.id
         /\ [e EXCEPT !.at = "header_ack"] \in Endpoint
         /\ [e EXCEPT !.at = "header_ack"].id = e.id
         /\ [e EXCEPT !.at = "header_ack"].at = "header_ack"
         /\ [e EXCEPT !.at = "body_ack"] \in Endpoint
         /\ [e EXCEPT !.at = "body_ack"].at = "body_ack"
         /\ [e EXCEPT !.at = "start", !.n = 0] \in Endpoint
         /\ [e EXCEPT !.at = "start", !.n = 0].at = "start"
         /\ [e EXCEPT !.at = "header"] \in Endpoint
         /\ [e EXCEPT !.at = "header"].at = "header"
         /\ \A b \in Byte : /\ [e EXCEPT !.at = "body", !.header = b] \in Endpoint
                            /\ [e EXCEPT !.at = "body", !.header = b].at = "body"
<1> USE DEF Endpoint, Writing, Reading
<1>1. /\ [e EXCEPT !.n = @ + 1] \in Endpoint
      /\ [e EXCEPT !.n = @ + 1].at = e.at /\ [e EXCEPT !.n = @ + 1].id = e.id
  OBVIOUS
<1>2. /\ [e EXCEPT !.at = "header_ack"] \in Endpoint
      /\ [e EXCEPT !.at = "header_ack"].id = e.id
      /\ [e EXCEPT !.at = "header_ack"].at = "header_ack"
  OBVIOUS
<1>3. /\ [e EXCEPT !.at = "body_ack"] \in Endpoint
      /\ [e EXCEPT !.at = "body_ack"].at = "body_ack"
  OBVIOUS
<1>4. /\ [e EXCEPT !.at = "start", !.n = 0] \in Endpoint
      /\ [e EXCEPT !.at = "start", !.n = 0].at = "start"
  OBVIOUS
<1>5. /\ [e EXCEPT !.at = "header"] \in Endpoint
      /\ [e EXCEPT !.at = "header"].at = "header"
  OBVIOUS
<1>6. ASSUME NEW b \in Byte
      PROVE  /\ [e EXCEPT !.at = "body", !.header = b] \in Endpoint
             /\ [e EXCEPT !.at = "body", !.header = b].at = "body"
  OBVIOUS
<1> QED
  BY <1>1, <1>2, <1>3, <1>4, <1>5, <1>6

LEMMA NewEndpoints ==
  ASSUME NEW a \in Ats, NEW w \in Nat
  PROVE  At(a, w) \in Endpoint /\ At(a, w).at = a /\ At(a, w).id = w
BY ByteTypes DEF At, Endpoint, Ats

(* Concatenating bytes that hold no body.                                  *)
LEMMA QuietBytes ==
  ASSUME NEW s \in Seq(Byte), NEW t \in Seq(Byte), Bodies(t) = {}
  PROVE  /\ s \o t \in Seq(Byte)
         /\ Bodies(s \o t) = Bodies(s)
         /\ \A i \in Bodies(s) : (s \o t)[i] = s[i]
<1>1. /\ s \o t \in Seq(Byte) /\ Len(s \o t) = Len(s) + Len(t)
      /\ Len(s) \in Nat /\ Len(t) \in Nat
      /\ \A i \in 1..Len(s) : (s \o t)[i] = s[i]
      /\ \A i \in 1..(Len(s) + Len(t)) : i > Len(s) => (s \o t)[i] = t[i - Len(s)]
  OBVIOUS
<1>2. ASSUME NEW i \in Bodies(s \o t) PROVE i \in 1..Len(s)
  <2>1. i \in 1..(Len(s) + Len(t)) /\ (s \o t)[i].kind = "body"
    BY <1>1 DEF Bodies
  <2>2. CASE i > Len(s)
    <3>1. i - Len(s) \in 1..Len(t) /\ t[i - Len(s)].kind = "body"
      BY <1>1, <2>1, <2>2
    <3> QED
      BY <3>1 DEF Bodies
  <2> QED
    BY <2>1, <2>2, <1>1
<1>3. Bodies(s \o t) \subseteq Bodies(s)
  BY <1>1, <1>2 DEF Bodies
<1>4. Bodies(s) \subseteq Bodies(s \o t)
  BY <1>1 DEF Bodies
<1> QED
  BY <1>1, <1>3, <1>4 DEF Bodies

(* Reading a byte moves the others up.                                     *)
LEMMA TailBytes ==
  ASSUME NEW s \in Seq(Byte), s # <<>>
  PROVE  /\ Head(s) \in Byte /\ Head(s) = s[1] /\ 1 \in DOMAIN s
         /\ Tail(s) \in Seq(Byte) /\ Len(Tail(s)) = Len(s) - 1
         /\ \A i \in DOMAIN Tail(s) : i + 1 \in DOMAIN s /\ Tail(s)[i] = s[i + 1]
         /\ \A i \in Bodies(Tail(s)) : i + 1 \in Bodies(s) /\ Tail(s)[i] = s[i + 1]
<1>1. /\ Head(s) \in Byte /\ Head(s) = s[1] /\ 1 \in DOMAIN s
      /\ Tail(s) \in Seq(Byte) /\ Len(Tail(s)) = Len(s) - 1
      /\ \A i \in DOMAIN Tail(s) : i + 1 \in DOMAIN s /\ Tail(s)[i] = s[i + 1]
  OBVIOUS
<1> QED
  BY <1>1 DEF Bodies

-----------------------------------------------------------------------------
(* The steps of the endpoints.                                             *)

(* A read and its answer keep the types.                                   *)
LEMMA StepTypes ==
  ASSUME TypeOK, NEW x \in {"obc", "pi"}, NEW answer \in Seq(Byte), NEW next \in Endpoint,
         Step(x, answer, next)
  PROVE  /\ end' \in [{"obc", "pi"} -> Endpoint]
         /\ wire' \in [{"obc", "pi"} -> Seq(Byte)]
         /\ Len(wire'["obc"]) <= QueueSize
         /\ end'[x] = next /\ end'[Other(x)] = end[Other(x)]
         /\ wire'[x] = Rest(x) /\ wire'[Other(x)] = Arriving(Other(x), answer)
<1>1. Other(x) \in {"obc", "pi"} /\ Other(x) # x
  BY DEF Other
<1>2. Rest(x) \in Seq(Byte) /\ Len(Rest(x)) <= Len(wire[x])
  BY TailBytes DEF Rest, TypeOK
<1>3. Arriving(Other(x), answer) \in Seq(Byte)
  BY <1>1, ProtocolAssumption, SMTT(60) DEF Arriving, TypeOK
<1>4. Other(x) = "obc" => Len(Arriving(Other(x), answer)) <= QueueSize
  BY <1>1, ProtocolAssumption, SMTT(60) DEF Arriving, TypeOK
<1>5. /\ end' = [end EXCEPT ![x] = next]
      /\ wire' = [wire EXCEPT ![x] = Rest(x), ![Other(x)] = Arriving(Other(x), answer)]
  BY DEF Step
<1>6. /\ end'[x] = next /\ end'[Other(x)] = end[Other(x)]
      /\ wire'[x] = Rest(x) /\ wire'[Other(x)] = Arriving(Other(x), answer)
  BY <1>1, <1>5 DEF TypeOK
<1>7. end' \in [{"obc", "pi"} -> Endpoint]
  BY <1>5 DEF TypeOK
<1>8. wire' \in [{"obc", "pi"} -> Seq(Byte)]
  BY <1>1, <1>2, <1>3, <1>5 DEF TypeOK
<1>9. Len(wire'["obc"]) <= QueueSize
  <2>1. CASE x = "obc"
    BY <1>2, <1>6, <2>1, ProtocolAssumption DEF TypeOK
  <2>2. CASE x = "pi"
    BY <1>4, <1>6, <2>2 DEF Other
  <2> QED
    BY <2>1, <2>2
<1> QED
  BY <1>6, <1>7, <1>8, <1>9

(* The line to the payload has lost its first byte, or nothing, and gained *)
(* no body.                                                                *)
KeepsLine ==
  \E d \in {0, 1} : \A i \in Bodies(wire'["pi"]) :
    i + d \in Bodies(wire["pi"]) /\ wire'["pi"][i] = wire["pi"][i + d]

(* Such a step keeps the order when nobody starts a packet.                *)
LEMMA KeptOrder ==
  ASSUME IInv, KeepsLine, wire'["pi"] \in Seq(Byte), UNCHANGED <<begun, executed>>,
         end'["obc"].at \in {"syn_ack", "header_ack"} =>
           end["obc"].at \in {"syn_ack", "header_ack"} /\ end'["obc"].id = end["obc"].id,
         end'["pi"].at = "execute" => end["pi"].at = "execute" /\ end'["pi"].id = end["pi"].id
  PROVE  OrderInv'
<1> USE DEF IInv, OrderInv
<1>1. PICK d \in {0, 1} : \A i \in Bodies(wire'["pi"]) :
        i + d \in Bodies(wire["pi"]) /\ wire'["pi"][i] = wire["pi"][i + d]
  BY DEF KeepsLine
<1>2. \A i \in Bodies(wire'["pi"]) : i \in Nat
  BY DEF Bodies
<1>3. LineInOrder'
  BY <1>1, <1>2, SMTT(60) DEF LineInOrder
<1>4. PendingInOrder'
  BY <1>1 DEF PendingInOrder
<1>5. BodyNotSent'
  BY <1>1 DEF BodyNotSent
<1>6. ExecutedAsWritten'
  BY DEF ExecutedAsWritten
<1> QED
  BY <1>3, <1>4, <1>5, <1>6

(* Reading keeps what is left of the line in order.                        *)
LEMMA RestKept ==
  ASSUME TypeOK, wire'["pi"] = Rest("pi")
  PROVE  KeepsLine
<1>1. CASE wire["pi"] = <<>>
  BY <1>1 DEF KeepsLine, Rest, Bodies
<1>2. CASE wire["pi"] # <<>>
  <2>1. wire["pi"] \in Seq(Byte) /\ wire'["pi"] = Tail(wire["pi"])
    BY <1>2 DEF Rest, TypeOK
  <2>2. \A i \in Bodies(Tail(wire["pi"])) :
          i + 1 \in Bodies(wire["pi"]) /\ Tail(wire["pi"])[i] = wire["pi"][i + 1]
    BY <1>2, <2>1, TailBytes
  <2> QED
    BY <2>1, <2>2 DEF KeepsLine
<1> QED
  BY <1>1, <1>2

(* So do bytes that hold no body.                                          *)
LEMMA QuietKept ==
  ASSUME TypeOK, NEW answer \in Seq(Byte), Bodies(answer) = {},
         wire'["pi"] = Arriving("pi", answer)
  PROVE  KeepsLine
<1>1. wire'["pi"] = wire["pi"] \o answer
  BY DEF Arriving
<1>2. wire["pi"] \in Seq(Byte)
  BY DEF TypeOK
<1>3. \A i \in Bodies(wire["pi"]) : i + 0 = i
  BY <1>2 DEF Bodies
<1>4. \A i \in Bodies(wire'["pi"]) :
        i + 0 \in Bodies(wire["pi"]) /\ wire'["pi"][i] = wire["pi"][i + 0]
  <2>1. \A i \in Bodies(wire["pi"] \o answer) :
          i \in Bodies(wire["pi"]) /\ (wire["pi"] \o answer)[i] = wire["pi"][i]
    <3>1. Bodies(wire["pi"] \o answer) = Bodies(wire["pi"])
      BY <1>2, QuietBytes
    <3>2. \A i \in Bodies(wire["pi"]) : (wire["pi"] \o answer)[i] = wire["pi"][i]
      BY <1>2, QuietBytes
    <3> QED
      BY <3>1, <3>2
  <2> QED
    BY <1>1, <1>3, <2>1
<1> QED
  BY <1>4 DEF KeepsLine

LEMMA PiStepOrder ==
  ASSUME IInv, NEW answer \in Seq(Byte), NEW next \in Endpoint,
         next.at # "execute", Step("pi", answer, next), UNCHANGED <<begun, executed>>
  PROVE  OrderInv'
<1>1. /\ end'["pi"] = next /\ end'["obc"] = end["obc"]
      /\ wire'["pi"] = Rest("pi") /\ wire'["pi"] \in Seq(Byte)
  BY StepTypes, Other("pi") = "obc" DEF IInv, Other
<1>2. KeepsLine
  BY <1>1, RestKept DEF IInv
<1> QED
  BY <1>1, <1>2, KeptOrder

LEMMA ObcStepOrder ==
  ASSUME IInv, NEW answer \in Seq(Byte), Bodies(answer) = {}, NEW next \in Endpoint,
         next.at \in {"syn_ack", "header_ack"} =>
           end["obc"].at \in {"syn_ack", "header_ack"} /\ next.id = end["obc"].id,
         Step("obc", answer, next), UNCHANGED <<begun, executed>>
  PROVE  OrderInv'
<1>1. /\ end'["obc"] = next /\ end'["pi"] = end["pi"]
      /\ wire'["pi"] = Arriving("pi", answer) /\ wire'["pi"] \in Seq(Byte)
  BY StepTypes, Other("obc") = "pi" DEF IInv, Other
<1>2. KeepsLine
  BY <1>1, QuietKept DEF IInv
<1> QED
  BY <1>1, <1>2, KeptOrder

(* The short answers.                                                      *)
LEMMA QuietAnswers ==
  /\ <<>> \in Seq(Byte) /\ Bodies(<<>>) = {}
  /\ <<Ack>> \in Seq(Byte) /\ Bodies(<<Ack>>) = {}
  /\ SynBytes \in Seq(Byte) /\ Bodies(SynBytes) = {}
  /\ \A w \in Nat : <<Start, Header(w)>> \in Seq(Byte) /\ Bodies(<<Start, Header(w)>>) = {}
<1>1. SynBytes \in Seq(Byte) /\ DOMAIN SynBytes = 1..SynCount
      /\ \A i \in 1..SynCount : SynBytes[i] = Syn
  BY ByteTypes, ProtocolAssumption DEF SynBytes
<1>2. <<>> \in Seq(Byte) /\ Bodies(<<>>) = {}
  BY DEF Bodies
<1>3. <<Ack>> \in Seq(Byte) /\ Bodies(<<Ack>>) = {}
  BY ByteTypes DEF Bodies
<1>4. Bodies(SynBytes) = {}
  BY <1>1, ByteTypes DEF Bodies
<1>5. ASSUME NEW w \in Nat
      PROVE  <<Start, Header(w)>> \in Seq(Byte) /\ Bodies(<<Start, Header(w)>>) = {}
  <2>1. Start \in Byte /\ Header(w) \in Byte /\ Start.kind # "body" /\ Header(w).kind # "body"
    BY ByteTypes
  <2> QED
    BY <2>1 DEF Bodies
<1> QED
  BY <1>1, <1>2, <1>3, <1>4, <1>5

-----------------------------------------------------------------------------
(* The steps that start a packet, send it or run it.                       *)

(* The body that is sent is later than those before it.                    *)
LEMMA SendOrder ==
  ASSUME IInv, end["obc"].at = "header_ack",
         Step("obc", <<Body(end["obc"].id)>>, [end["obc"] EXCEPT !.at = "body_ack"]),
         UNCHANGED <<begun, executed>>
  PROVE  OrderInv'
<1> USE DEF IInv, OrderInv
<1> DEFINE s == wire["pi"]
           w == end["obc"].id
<1>1. /\ end["obc"] \in Endpoint /\ w \in Nat /\ s \in Seq(Byte)
      /\ begun \in Seq(Packets)
  BY SMTT(60) DEF TypeOK, Endpoint
<1>2. /\ [end["obc"] EXCEPT !.at = "body_ack"] \in Endpoint
      /\ [end["obc"] EXCEPT !.at = "body_ack"].at = "body_ack"
  BY <1>1, EndpointUpdates
<1>3. /\ end'["obc"].at = "body_ack" /\ end'["pi"] = end["pi"]
      /\ wire'["pi"] = Arriving("pi", <<Body(w)>>)
  <2>1. <<Body(w)>> \in Seq(Byte)
    BY <1>1, ByteTypes
  <2> QED
    BY <1>2, <2>1, StepTypes, Other("obc") = "pi" DEF Other
<1>4. wire'["pi"] = s \o <<Body(w)>>
  BY <1>3 DEF Arriving
<1>5. /\ \A i \in Bodies(wire'["pi"]) : \/ i \in Bodies(s) /\ wire'["pi"][i] = s[i] /\ i <= Len(s)
                                        \/ i = Len(s) + 1 /\ wire'["pi"][i] = Body(w)
      /\ \A i \in Bodies(wire'["pi"]) : i \in Nat
      /\ Len(s) \in Nat
  <2>1. /\ Len(s) \in Nat
        /\ DOMAIN wire'["pi"] = 1..(Len(s) + 1)
        /\ \A i \in 1..Len(s) : wire'["pi"][i] = s[i]
        /\ wire'["pi"][Len(s) + 1] = Body(w)
    BY <1>1, <1>4, ByteTypes
  <2> QED
    BY <2>1, <1>1 DEF Bodies
<1>6. /\ w = Len(begun) /\ w \in DOMAIN begun
      /\ \A i \in Bodies(s) : s[i].id < w
      /\ \A k \in DOMAIN executed : executed[k] < w
      /\ end["pi"].at = "execute" => end["pi"].id < w
  BY <1>1 DEF BodyNotSent
<1>7. Body(w).id = w
  BY <1>1, ByteTypes
<1>8. LineInOrder'
  <2> SUFFICES ASSUME NEW i \in Bodies(wire'["pi"])
               PROVE  /\ wire'["pi"][i].id \in DOMAIN begun
                      /\ \A j \in Bodies(wire'["pi"]) :
                           i < j => wire'["pi"][i].id < wire'["pi"][j].id
                      /\ \A k \in DOMAIN executed : executed[k] < wire'["pi"][i].id
    BY DEF LineInOrder
  <2>1. CASE i \in Bodies(s) /\ wire'["pi"][i] = s[i] /\ i <= Len(s)
    BY <1>5, <1>6, <1>7, <2>1 DEF LineInOrder
  <2>2. CASE i = Len(s) + 1 /\ wire'["pi"][i] = Body(w)
    BY <1>5, <1>6, <1>7, <2>2
  <2> QED
    BY <1>5, <2>1, <2>2
<1>9. PendingInOrder'
  BY <1>3, <1>5, <1>6, <1>7 DEF PendingInOrder
<1>10. BodyNotSent'
  BY <1>3 DEF BodyNotSent
<1>11. ExecutedAsWritten'
  BY DEF ExecutedAsWritten
<1> QED
  BY <1>8, <1>9, <1>10, <1>11

(* What the payload accepts is the first body of the line.                 *)
LEMMA AcceptOrder ==
  ASSUME IInv, end["pi"].at = "body", Received("pi").kind = "body",
         Step("pi", <<Ack>>, At("execute", Received("pi").id)),
         UNCHANGED <<begun, executed>>
  PROVE  OrderInv'
<1> USE DEF IInv, OrderInv
<1> DEFINE s == wire["pi"]
<1>1. s \in Seq(Byte)
  BY DEF TypeOK
<1>2. s # <<>> /\ Received("pi") = s[1] /\ 1 \in Bodies(s) /\ Rest("pi") = Tail(s)
  <2>1. s # <<>>
    BY ByteTypes DEF Received
  <2> QED
    BY <2>1, <1>1, TailBytes DEF Received, Rest, Bodies
<1>3. s[1].id \in Nat
  <2>1. s[1] \in Byte
    BY <1>1, <1>2, TailBytes
  <2> QED
    BY <2>1 DEF Byte
<1>4. /\ At("execute", s[1].id) \in Endpoint /\ At("execute", s[1].id).at = "execute"
      /\ At("execute", s[1].id).id = s[1].id
  BY <1>3, NewEndpoints DEF Ats
<1>5. /\ end'["pi"] = At("execute", s[1].id) /\ end'["obc"] = end["obc"]
      /\ wire'["pi"] = Tail(s) /\ wire'["pi"] \in Seq(Byte)
  BY <1>2, <1>4, QuietAnswers, StepTypes, Other("pi") = "obc" DEF Other
<1>6. \A i \in Bodies(wire'["pi"]) :
        i \in Nat /\ i >= 1 /\ i + 1 \in Bodies(s) /\ wire'["pi"][i] = s[i + 1]
  BY <1>1, <1>2, <1>5, TailBytes DEF Bodies
<1>7. LineInOrder'
  BY <1>6 DEF LineInOrder
<1>8. PendingInOrder'
  <2>1. s[1].id \in DOMAIN begun /\ \A k \in DOMAIN executed : executed[k] < s[1].id
    BY <1>2 DEF LineInOrder
  <2>2. \A i \in Bodies(wire'["pi"]) : s[1].id < wire'["pi"][i].id
    BY <1>2, <1>6 DEF LineInOrder
  <2> QED
    BY <1>4, <1>5, <2>1, <2>2 DEF PendingInOrder
<1>9. BodyNotSent'
  BY <1>2, <1>4, <1>5, <1>6 DEF BodyNotSent
<1>10. ExecutedAsWritten'
  BY DEF ExecutedAsWritten
<1> QED
  BY <1>7, <1>8, <1>9, <1>10

(* A write that begins is later than all before it.                        *)
LEMMA BeginStep ==
  ASSUME IInv, NEW k \in Packets, BeginWrite(k), call' \in {"execute", "ping", "test"},
         call' = "execute" => commands # <<>>
  PROVE  IInv'
<1> USE DEF IInv, OrderInv
<1> DEFINE n == Len(begun) + 1
<1>1. /\ begun \in Seq(Packets) /\ n \in Nat
      /\ begun' \in Seq(Packets) /\ Len(begun') = n
      /\ DOMAIN begun \subseteq DOMAIN begun' /\ begun' # <<>>
      /\ \A i \in DOMAIN begun : i < n
  BY DEF TypeOK, BeginWrite
<1>2. /\ WritePacket(n) \in Endpoint /\ WritePacket(n).at = "syn_ack"
      /\ WritePacket(n).id = n
  BY <1>1, NewEndpoints DEF WritePacket, Ats, Writing
<1>3. wire["pi"] \in Seq(Byte) /\ Arriving("pi", SynBytes) \in Seq(Byte)
  BY QuietAnswers, QuietBytes DEF TypeOK, Arriving
<1>4. /\ end' \in [{"obc", "pi"} -> Endpoint]
      /\ end'["obc"] = WritePacket(n) /\ end'["pi"] = end["pi"]
      /\ wire' \in [{"obc", "pi"} -> Seq(Byte)]
      /\ wire'["obc"] = wire["obc"] /\ wire'["pi"] = Arriving("pi", SynBytes)
  BY <1>2, <1>3 DEF BeginWrite, TypeOK
<1>5. TypeOK'
  BY <1>1, <1>4 DEF TypeOK, BeginWrite
<1>6. CommandInv'
  BY DEF CommandInv, BeginWrite
<1>7. Bodies(wire'["pi"]) = Bodies(wire["pi"])
      /\ \A i \in Bodies(wire["pi"]) : wire'["pi"][i] = wire["pi"][i]
  <2>1. wire'["pi"] = wire["pi"] \o SynBytes
    BY <1>4 DEF Arriving
  <2>2. Bodies(wire["pi"] \o SynBytes) = Bodies(wire["pi"])
    BY <1>3, QuietAnswers, QuietBytes
  <2>3. \A i \in Bodies(wire["pi"]) : (wire["pi"] \o SynBytes)[i] = wire["pi"][i]
    BY <1>3, QuietAnswers, QuietBytes
  <2> QED
    BY <2>1, <2>2, <2>3
<1>8. executed' = executed
  BY DEF BeginWrite
<1>9. LineInOrder'
  BY <1>1, <1>7, <1>8 DEF LineInOrder
<1>10. PendingInOrder'
  BY <1>1, <1>4, <1>7, <1>8 DEF PendingInOrder
<1>11. BodyNotSent'
  BY <1>1, <1>2, <1>4, <1>7, <1>8 DEF BodyNotSent, LineInOrder, PendingInOrder, ExecutedAsWritten
<1>12. ExecutedAsWritten'
  BY <1>1, <1>8 DEF ExecutedAsWritten
<1> QED
  BY <1>5, <1>6, <1>9, <1>10, <1>11, <1>12

(* What is run is later than what was run before.                          *)
LEMMA DispatchStep == IInv /\ DispatchCommand => IInv'
<1> SUFFICES ASSUME IInv, DispatchCommand PROVE IInv'
  OBVIOUS
<1> USE DEF IInv, OrderInv
<1> DEFINE w == end["pi"].id
<1>1. /\ executed \in Seq(Nat) /\ w \in Nat
      /\ executed' = Append(executed, w) /\ executed' \in Seq(Nat)
      /\ end["pi"].at = "execute"
  BY DEF DispatchCommand, TypeOK, Endpoint
<1>2. /\ WritePacket(w) \in Endpoint /\ WritePacket(w).at = "syn_ack"
  BY <1>1, NewEndpoints DEF WritePacket, Ats, Writing
<1>3. /\ wire["obc"] \in Seq(Byte) /\ Arriving("obc", SynBytes) \in Seq(Byte)
      /\ Len(Arriving("obc", SynBytes)) <= QueueSize
  <2>1. wire["obc"] \in Seq(Byte)
    BY DEF TypeOK
  <2>2. wire["obc"] \o SynBytes \in Seq(Byte)
    BY <2>1, QuietAnswers
  <2>3. ASSUME NEW all \in Seq(Byte), Len(all) > QueueSize
        PROVE  SubSeq(all, 1, QueueSize) \in Seq(Byte) /\ Len(SubSeq(all, 1, QueueSize)) = QueueSize
    BY <2>3, ProtocolAssumption
  <2>4. QueueSize \in Nat
    BY ProtocolAssumption
  <2> QED
    BY <2>1, <2>2, <2>3, <2>4 DEF Arriving
<1>4. /\ end' \in [{"obc", "pi"} -> Endpoint]
      /\ end'["pi"] = WritePacket(w) /\ end'["obc"] = end["obc"]
      /\ wire' \in [{"obc", "pi"} -> Seq(Byte)]
      /\ wire'["obc"] = Arriving("obc", SynBytes) /\ wire'["pi"] = wire["pi"]
  BY <1>2, <1>3 DEF DispatchCommand, TypeOK
<1>5. UNCHANGED <<begun, call, commands, RETRY_COUNT, faults, reported>>
  BY DEF DispatchCommand, task
<1>6. TypeOK'
  BY <1>1, <1>3, <1>4, <1>5 DEF TypeOK
<1>7. CommandInv'
  BY <1>4, <1>5 DEF CommandInv
<1>8. /\ DOMAIN executed' = 1..(Len(executed) + 1) /\ DOMAIN executed = 1..Len(executed)
      /\ Len(executed) \in Nat /\ executed'[Len(executed) + 1] = w
      /\ \A k \in DOMAIN executed : executed'[k] = executed[k]
  BY <1>1
<1>9. \A k \in DOMAIN executed' : k \in DOMAIN executed \/ k = Len(executed) + 1
  BY <1>8
<1>10. w \in DOMAIN begun /\ \A k \in DOMAIN executed : executed[k] < w
  BY <1>1 DEF PendingInOrder
<1>11. LineInOrder'
  BY <1>1, <1>4, <1>5, <1>8, <1>9 DEF LineInOrder, PendingInOrder
<1>12. PendingInOrder'
  BY <1>2, <1>4 DEF PendingInOrder
<1>13. BodyNotSent'
  BY <1>1, <1>2, <1>4, <1>5, <1>8, <1>9 DEF BodyNotSent
<1>14. ExecutedAsWritten'
  BY <1>5, <1>8, <1>9, <1>10 DEF ExecutedAsWritten
<1> QED
  BY <1>6, <1>7, <1>11, <1>12, <1>13, <1>14

(* A fault takes a byte from the line, or puts another in its place.       *)
LEMMA FaultStep ==
  ASSUME IInv, NEW x \in {"obc", "pi"}, Fault(x)
  PROVE  IInv'
<1> USE DEF IInv
<1>1. UNCHANGED <<end, begun, executed, call, commands, RETRY_COUNT, reported>>
  BY DEF Fault, task
<1>2. faults' \in 0..MaxFaults
  BY BoundsAssumption DEF Fault, TypeOK
<1>3. wire[x] \in Seq(Byte) /\ wire[x] # <<>>
  BY DEF Fault, TypeOK
<1>4. PICK rest \in {Tail(wire[x]), <<Noise>> \o Tail(wire[x])} : wire' = [wire EXCEPT ![x] = rest]
  BY DEF Fault
<1>5. Tail(wire[x]) \in Seq(Byte) /\ Len(Tail(wire[x])) = Len(wire[x]) - 1
  BY <1>3, TailBytes
<1>6. /\ <<Noise>> \o Tail(wire[x]) \in Seq(Byte)
      /\ Len(<<Noise>> \o Tail(wire[x])) = Len(wire[x])
      /\ \A i \in 2..Len(wire[x]) : (<<Noise>> \o Tail(wire[x]))[i] = wire[x][i]
      /\ (<<Noise>> \o Tail(wire[x]))[1] = Noise
  BY <1>3, ByteTypes
<1>7. rest \in Seq(Byte) /\ Len(rest) <= Len(wire[x])
  <2>1. CASE rest = Tail(wire[x])
    BY <1>3, <1>5, <2>1
  <2>2. CASE rest = <<Noise>> \o Tail(wire[x])
    BY <1>3, <1>6, <2>2
  <2> QED
    BY <1>4, <2>1, <2>2
<1>8. /\ wire' \in [{"obc", "pi"} -> Seq(Byte)]
      /\ Len(wire'["obc"]) <= QueueSize
  BY <1>3, <1>4, <1>7, ProtocolAssumption DEF TypeOK
<1>9. TypeOK'
  BY <1>1, <1>2, <1>8 DEF TypeOK
<1>10. CommandInv'
  BY <1>1 DEF CommandInv
<1>11. KeepsLine
  <2>1. CASE x = "obc"
    <3>1. wire'["pi"] = wire["pi"] /\ wire["pi"] \in Seq(Byte)
      BY <1>4, <2>1 DEF TypeOK
    <3>2. \A i \in Bodies(wire["pi"]) : i + 0 = i
      BY <3>1 DEF Bodies
    <3> QED
      BY <3>1, <3>2 DEF KeepsLine
  <2>2. CASE x = "pi" /\ rest = Tail(wire[x])
    <3>1. \A i \in Bodies(Tail(wire["pi"])) :
            i + 1 \in Bodies(wire["pi"]) /\ Tail(wire["pi"])[i] = wire["pi"][i + 1]
      BY <1>3, <2>2, TailBytes
    <3>2. wire'["pi"] = Tail(wire["pi"])
      BY <1>4, <2>2 DEF TypeOK
    <3> QED
      BY <3>1, <3>2 DEF KeepsLine
  <2>3. CASE x = "pi" /\ rest = <<Noise>> \o Tail(wire[x])
    <3>1. wire'["pi"] = rest /\ wire["pi"] \in Seq(Byte)
      BY <1>4, <2>3 DEF TypeOK
    <3>2. /\ rest \in Seq(Byte) /\ Len(rest) = Len(wire["pi"])
          /\ \A i \in 2..Len(wire["pi"]) : rest[i] = wire["pi"][i]
          /\ rest[1].kind # "body"
      BY <1>6, <2>3, ByteTypes
    <3>3. ASSUME NEW i \in Bodies(rest)
          PROVE  i + 0 = i /\ i \in Bodies(wire["pi"]) /\ rest[i] = wire["pi"][i]
      <4>1. i \in 1..Len(wire["pi"]) /\ rest[i].kind = "body"
        BY <3>2 DEF Bodies
      <4>2. i \in 2..Len(wire["pi"])
        BY <3>2, <4>1
      <4>3. rest[i] = wire["pi"][i]
        BY <3>2, <4>2
      <4> QED
        BY <3>1, <4>1, <4>2, <4>3 DEF Bodies
    <3> QED
      BY <3>1, <3>3 DEF KeepsLine
  <2> QED
    BY <1>4, <2>1, <2>2, <2>3
<1>12. OrderInv'
  BY <1>1, <1>8, <1>11, KeptOrder
<1> QED
  BY <1>9, <1>10, <1>12

-----------------------------------------------------------------------------
(* Writing and reading.                                                    *)

(* The caller of a write takes its command off, or leaves it.              *)
LEMMA WrittenTypes ==
  ASSUME IInv, NEW ok \in BOOLEAN, Written(ok), end["obc"].at \in Writing
  PROVE  /\ commands' \in Seq(1..NCommands)
         /\ RETRY_COUNT' \in Nat
         /\ reported' \subseteq Nat
<1> USE DEF IInv, TypeOK
<1>1. call = "execute" => commands # <<>>
  BY DEF CommandInv
<1>2. end["obc"].id \in Nat
  BY DEF Endpoint
<1>3. reported' \subseteq Nat
  BY <1>2 DEF Written
<1>4. CASE call = "execute" /\ (ok \/ RETRY_COUNT > MaxRetry)
  <2>1. commands' = Tail(commands) /\ RETRY_COUNT' = 0
    BY Zenon, <1>4 DEF Written
  <2> QED
    BY <1>1, <1>3, <1>4, <2>1
<1>5. CASE call = "execute" /\ ~(ok \/ RETRY_COUNT > MaxRetry)
  <2>1. RETRY_COUNT' = RETRY_COUNT + 1 /\ commands' = commands
    BY Zenon, <1>5 DEF Written
  <2> QED
    BY <1>3, <2>1
<1>6. CASE call # "execute"
  <2>1. RETRY_COUNT' = RETRY_COUNT /\ commands' = commands
    BY Zenon, <1>6 DEF Written
  <2> QED
    BY <1>3, <2>1
<1> QED
  BY <1>3, <1>4, <1>5, <1>6

(* A write that returns.                                                   *)
LEMMA ReturnStep ==
  ASSUME IInv, NEW x \in {"obc", "pi"}, NEW ok \in BOOLEAN, WriteReturns(x, ok),
         end[x].at \in Writing, UNCHANGED <<call, faults, begun, executed>>
  PROVE  IInv'
<1> USE DEF IInv
<1>1. /\ AfterWrite(x, ok) \in Endpoint
      /\ AfterWrite(x, ok).at \in {"idle", "sync"}
  BY NewEndpoints DEF AfterWrite, ReadPacket, Idle, Ats, Reading
<1>2. Step(x, <<>>, AfterWrite(x, ok))
  BY DEF WriteReturns
<1>3. /\ end' \in [{"obc", "pi"} -> Endpoint]
      /\ wire' \in [{"obc", "pi"} -> Seq(Byte)]
      /\ Len(wire'["obc"]) <= QueueSize
      /\ end'[x] = AfterWrite(x, ok) /\ end'[Other(x)] = end[Other(x)]
  BY <1>1, <1>2, QuietAnswers, StepTypes, ZenonT(60)
<1>4. /\ commands' \in Seq(1..NCommands) /\ RETRY_COUNT' \in Nat /\ reported' \subseteq Nat
  <2>1. CASE x = "obc"
    BY <2>1, WrittenTypes DEF WriteReturns
  <2>2. CASE x = "pi"
    BY <2>2 DEF WriteReturns, TypeOK
  <2> QED
    BY <2>1, <2>2
<1>5. TypeOK'
  BY <1>3, <1>4 DEF TypeOK
<1>6. CommandInv'
  <2>1. CASE x = "obc"
    BY <1>1, <1>3, <2>1 DEF CommandInv, Writing
  <2>2. CASE x = "pi"
    BY <1>3, <2>2 DEF CommandInv, WriteReturns, Other
  <2> QED
    BY <2>1, <2>2
<1>7. OrderInv'
  <2>1. CASE x = "obc"
    BY <1>1, <1>2, <2>1, QuietAnswers, ObcStepOrder
  <2>2. CASE x = "pi"
    BY <1>1, <1>2, <2>2, QuietAnswers, PiStepOrder
  <2> QED
    BY <2>1, <2>2
<1> QED
  BY <1>5, <1>6, <1>7

(* A step of the handshake that leaves the programs above alone and sends  *)
(* no body.                                                                *)
LEMMA HandshakeStep ==
  ASSUME IInv, NEW x \in {"obc", "pi"}, NEW answer \in Seq(Byte), Bodies(answer) = {},
         NEW next \in Endpoint, Step(x, answer, next), next.at # "execute",
         next.at \in Writing => end[x].at \in Writing,
         next.at \in {"syn_ack", "header_ack"} =>
           end[x].at \in {"syn_ack", "header_ack"} /\ next.id = end[x].id,
         UNCHANGED <<call, commands, RETRY_COUNT, faults, begun, executed, reported>>
  PROVE  IInv'
<1> USE DEF IInv
<1>1. /\ end' \in [{"obc", "pi"} -> Endpoint]
      /\ wire' \in [{"obc", "pi"} -> Seq(Byte)]
      /\ Len(wire'["obc"]) <= QueueSize
      /\ end'[x] = next /\ end'[Other(x)] = end[Other(x)]
  BY StepTypes
<1>2. TypeOK'
  BY <1>1 DEF TypeOK
<1>3. CommandInv'
  <2>1. CASE x = "obc"
    BY <1>1, <2>1 DEF CommandInv
  <2>2. CASE x = "pi"
    BY <1>1, <2>2 DEF CommandInv, Other
  <2> QED
    BY <2>1, <2>2
<1>4. OrderInv'
  <2>1. CASE x = "obc"
    BY <2>1, ObcStepOrder
  <2>2. CASE x = "pi"
    BY <2>2, PiStepOrder
  <2> QED
    BY <2>1, <2>2
<1> QED
  BY <1>2, <1>3, <1>4

LEMMA WriteStep ==
  ASSUME IInv, NEW x \in {"obc", "pi"}, Write(x)
  PROVE  IInv'
<1> USE DEF IInv
<1>1. end[x] \in Endpoint /\ end[x].id \in Nat /\ end[x].n \in Nat
  BY DEF TypeOK, Endpoint
<1>2. UNCHANGED <<call, faults, begun, executed>>
  BY DEF Write
<1>3. CASE AwaitSynAck(x)
  <2>1. end[x].at = "syn_ack"
    BY <1>3 DEF AwaitSynAck
  <2>2. CASE WriteGoesOn(x, <<Start, Header(end[x].id)>>, [end[x] EXCEPT !.at = "header_ack"])
    <3>1. /\ [end[x] EXCEPT !.at = "header_ack"] \in Endpoint
          /\ [end[x] EXCEPT !.at = "header_ack"].at = "header_ack"
          /\ [end[x] EXCEPT !.at = "header_ack"].id = end[x].id
      BY <1>1, EndpointUpdates
    <3> QED
      BY <1>1, <1>2, <2>1, <2>2, <3>1, QuietAnswers, HandshakeStep DEF WriteGoesOn, Writing
  <2>3. CASE WriteGoesOn(x, SynBytes, [end[x] EXCEPT !.n = @ + 1])
    <3>1. /\ [end[x] EXCEPT !.n = @ + 1] \in Endpoint
          /\ [end[x] EXCEPT !.n = @ + 1].at = end[x].at
          /\ [end[x] EXCEPT !.n = @ + 1].id = end[x].id
      BY <1>1, EndpointUpdates
    <3> QED
      BY <1>1, <1>2, <2>1, <2>3, <3>1, QuietAnswers, HandshakeStep DEF WriteGoesOn, Writing
  <2>4. CASE WriteReturns(x, FALSE)
    BY <1>2, <2>1, <2>4, ReturnStep DEF Writing
  <2> QED
    BY <1>3, <2>2, <2>3, <2>4 DEF AwaitSynAck
<1>4. CASE AwaitHeaderAck(x)
  <2>1. end[x].at = "header_ack"
    BY <1>4 DEF AwaitHeaderAck
  <2>2. CASE WriteReturns(x, FALSE)
    BY <1>2, <2>1, <2>2, ReturnStep DEF Writing
  <2>3. CASE \E body \in Sent(x) : WriteGoesOn(x, body, [end[x] EXCEPT !.at = "body_ack"])
    <3> DEFINE next == [end[x] EXCEPT !.at = "body_ack"]
    <3>1. next \in Endpoint /\ next.at = "body_ack"
      BY <1>1, EndpointUpdates
    <3> HIDE DEF next
    <3>2. PICK body \in Sent(x) : WriteGoesOn(x, body, next)
      BY <2>3 DEF next
    <3>3. body \in {<<>>, <<Body(end[x].id)>>} /\ body \in Seq(Byte)
      <4>1. <<Body(end[x].id)>> \in Seq(Byte) /\ <<>> \in Seq(Byte)
        BY <1>1, ByteTypes
      <4>2. body \in {<<>>, <<Body(end[x].id)>>}
        BY <3>2 DEF Sent
      <4> QED
        BY <4>1, <4>2
    <3>4. Step(x, body, next) /\ UNCHANGED <<commands, RETRY_COUNT, reported>>
      BY <3>2 DEF WriteGoesOn
    <3>5. CASE body = <<>>
      BY <1>2, <2>1, <3>1, <3>3, <3>4, <3>5, QuietAnswers, HandshakeStep DEF Writing
    <3>6. CASE x = "pi"
      <4>1. /\ end' \in [{"obc", "pi"} -> Endpoint]
            /\ wire' \in [{"obc", "pi"} -> Seq(Byte)]
            /\ Len(wire'["obc"]) <= QueueSize
            /\ end'["obc"] = end["obc"]
        BY <3>1, <3>3, <3>4, <3>6, StepTypes, Other("pi") = "obc" DEF Other
      <4>2. TypeOK'
        BY <1>2, <3>4, <4>1 DEF TypeOK
      <4>3. CommandInv'
        BY <1>2, <3>4, <4>1 DEF CommandInv
      <4> QED
        BY <1>2, <3>1, <3>3, <3>4, <3>6, <4>2, <4>3, PiStepOrder
    <3>7. CASE x = "obc" /\ body = <<Body(end["obc"].id)>>
      <4>1. /\ end' \in [{"obc", "pi"} -> Endpoint]
            /\ wire' \in [{"obc", "pi"} -> Seq(Byte)]
            /\ Len(wire'["obc"]) <= QueueSize
        BY <3>1, <3>3, <3>4, StepTypes
      <4>2. TypeOK'
        BY <1>2, <3>4, <4>1 DEF TypeOK
      <4>3. CommandInv'
        BY <1>2, <2>1, <3>4, <3>7 DEF CommandInv, Writing
      <4> QED
        BY <1>2, <2>1, <3>4, <3>7, <4>2, <4>3, SendOrder DEF next
    <3> QED
      BY <3>3, <3>5, <3>6, <3>7
  <2> QED
    BY <1>4, <2>2, <2>3 DEF AwaitHeaderAck
<1>5. CASE AwaitBodyAck(x)
  BY <1>2, <1>5, ReturnStep DEF AwaitBodyAck, Writing
<1> QED
  BY <1>3, <1>4, <1>5 DEF Write

(* Giving up and going on reading send nothing.                            *)
LEMMA ReadStep ==
  ASSUME IInv, NEW x \in {"obc", "pi"}, Read(x)
  PROVE  IInv'
<1> USE DEF IInv
<1>1. /\ end[x] \in Endpoint /\ Received(x) \in Byte
  <2>1. wire[x] \in Seq(Byte)
    BY DEF TypeOK
  <2> QED
    BY <2>1, TailBytes, ByteTypes DEF TypeOK, Received
<1>2. UNCHANGED <<call, commands, RETRY_COUNT, faults, begun, executed, reported>>
  BY DEF Read, task
<1>3. /\ GiveUp(x) \in Endpoint /\ GiveUp(x).at \in {"idle", "sync"}
      /\ ReadPacket \in Endpoint /\ ReadPacket.at = "sync"
      /\ Idle \in Endpoint /\ Idle.at = "idle"
  BY NewEndpoints DEF GiveUp, ReadPacket, Idle, Ats, Reading
<1>4. ASSUME NEW answer \in {<<>>, <<Ack>>}, NEW next \in Endpoint,
             next.at \notin Writing, next.at # "execute", Step(x, answer, next)
      PROVE  IInv'
  BY <1>2, <1>4, QuietAnswers, HandshakeStep DEF Writing
<1>5. CASE AwaitSync(x)
  <2>1. /\ [end[x] EXCEPT !.n = @ + 1] \in Endpoint
        /\ [end[x] EXCEPT !.n = @ + 1].at = end[x].at
        /\ [end[x] EXCEPT !.at = "start", !.n = 0] \in Endpoint
        /\ [end[x] EXCEPT !.at = "start", !.n = 0].at = "start"
    BY <1>1, EndpointUpdates
  <2>2. end[x].at = "sync"
    BY <1>5 DEF AwaitSync
  <2>3. \/ Step(x, <<>>, [end[x] EXCEPT !.n = @ + 1])
        \/ Step(x, <<Ack>>, [end[x] EXCEPT !.at = "start", !.n = 0])
        \/ Step(x, <<>>, end[x]) \/ Step(x, <<>>, ReadPacket)
        \/ Step(x, <<>>, GiveUp(x))
    BY <1>5 DEF AwaitSync
  <2> QED
    BY <1>1, <1>3, <1>4, <2>1, <2>2, <2>3 DEF Writing
<1>6. CASE AwaitStart(x)
  <2>1. /\ [end[x] EXCEPT !.n = @ + 1] \in Endpoint
        /\ [end[x] EXCEPT !.n = @ + 1].at = end[x].at
        /\ [end[x] EXCEPT !.at = "header"] \in Endpoint
        /\ [end[x] EXCEPT !.at = "header"].at = "header"
    BY <1>1, EndpointUpdates
  <2>2. end[x].at = "start"
    BY <1>6 DEF AwaitStart
  <2>3. \/ Step(x, <<>>, [end[x] EXCEPT !.n = @ + 1])
        \/ Step(x, <<>>, [end[x] EXCEPT !.at = "header"])
        \/ Step(x, <<>>, GiveUp(x))
    BY <1>6 DEF AwaitStart
  <2> QED
    BY <1>3, <1>4, <2>1, <2>2, <2>3 DEF Writing
<1>7. CASE AwaitHeader(x)
  <2>1. /\ [end[x] EXCEPT !.at = "body", !.header = Received(x)] \in Endpoint
        /\ [end[x] EXCEPT !.at = "body", !.header = Received(x)].at = "body"
    <3>1. \A b \in Byte : /\ [end[x] EXCEPT !.at = "body", !.header = b] \in Endpoint
                           /\ [end[x] EXCEPT !.at = "body", !.header = b].at = "body"
      BY <1>1, EndpointUpdates
    <3> QED
      BY Zenon, <1>1, <3>1
  <2>2. \/ Step(x, <<Ack>>, [end[x] EXCEPT !.at = "body", !.header = Received(x)])
        \/ Step(x, <<>>, GiveUp(x)) \/ Step(x, <<Ack>>, GiveUp(x))
    BY <1>7 DEF AwaitHeader
  <2> QED
    BY <1>3, <1>4, <2>1, <2>2 DEF Writing
<1>8. CASE AwaitBody(x)
  <2>1. CASE Step(x, <<>>, GiveUp(x))
    BY <1>3, <1>4, <2>1 DEF Writing
  <2>2. CASE x = "obc" /\ Step(x, <<Ack>>, Idle)
    BY <1>3, <1>4, <2>2 DEF Writing
  <2>3. CASE x = "pi" /\ end["pi"].at = "body" /\ Received("pi").kind = "body"
             /\ Step("pi", <<Ack>>, At("execute", Received("pi").id))
    <3>1. At("execute", Received("pi").id) \in Endpoint
      BY <1>1, <2>3, NewEndpoints DEF Byte, Ats
    <3>2. /\ end' \in [{"obc", "pi"} -> Endpoint]
          /\ wire' \in [{"obc", "pi"} -> Seq(Byte)]
          /\ Len(wire'["obc"]) <= QueueSize
          /\ end'["obc"] = end["obc"]
      BY <2>3, <3>1, QuietAnswers, StepTypes, Other("pi") = "obc" DEF Other
    <3>3. TypeOK'
      BY <1>2, <3>2 DEF TypeOK
    <3>4. CommandInv'
      BY <1>2, <3>2 DEF CommandInv
    <3> QED
      BY <1>2, <2>3, <3>3, <3>4, AcceptOrder
  <2> QED
    BY <1>8, <2>1, <2>2, <2>3 DEF AwaitBody, ChecksumFits
<1> QED
  BY <1>5, <1>6, <1>7, <1>8 DEF Read

-----------------------------------------------------------------------------
(* The invariant.                                                          *)

LEMMA InitIInv == Init => IInv
<1> SUFFICES ASSUME Init PROVE IInv
  OBVIOUS
<1>1. /\ Idle \in Endpoint /\ Idle.at = "idle"
      /\ ReadPacket \in Endpoint /\ ReadPacket.at = "sync"
  BY NewEndpoints DEF Idle, ReadPacket, Ats, Reading
<1>2. /\ end \in [{"obc", "pi"} -> Endpoint]
      /\ end["obc"].at = "idle" /\ end["pi"].at = "sync"
      /\ wire \in [{"obc", "pi"} -> Seq(Byte)]
      /\ wire["obc"] = <<>> /\ wire["pi"] = <<>>
  BY <1>1 DEF Init
<1>3. commands \in Seq(1..NCommands)
  BY BoundsAssumption DEF Init
<1>4. TypeOK
  BY <1>2, <1>3, ProtocolAssumption, BoundsAssumption DEF Init, TypeOK
<1>5. CommandInv
  BY <1>2 DEF CommandInv, Writing
<1>6. OrderInv
  BY <1>2 DEF Init, OrderInv, LineInOrder, PendingInOrder, BodyNotSent, ExecutedAsWritten, Bodies
<1> QED
  BY <1>4, <1>5, <1>6 DEF IInv

LEMMA TaskStep == IInv /\ Task => IInv'
<1> SUFFICES ASSUME IInv, Task PROVE IInv'
  OBVIOUS
<1>1. CASE try_execute_payload_command
  <2>1. commands # <<>> /\ commands \in Seq(1..NCommands)
    BY <1>1 DEF try_execute_payload_command, IInv, TypeOK
  <2>2. Head(commands) \in Packets
    <3>1. ASSUME NEW S, NEW s \in Seq(S), s # <<>> PROVE Head(s) \in S
      BY <3>1
    <3>2. Head(commands) \in 1..NCommands
      BY <2>1, <3>1
    <3> QED
      BY <3>2 DEF Packets
  <2> QED
    BY <1>1, <2>1, <2>2, BeginStep DEF try_execute_payload_command
<1>2. CASE ping_command
  BY <1>2, BeginStep, Ping \in Packets DEF ping_command, Packets
<1>3. CASE payload_uart_write_on_test
  BY <1>3, BeginStep, Ping \in Packets DEF payload_uart_write_on_test, Packets
<1> QED
  BY <1>1, <1>2, <1>3 DEF Task

LEMMA NextIInv == IInv /\ [Next]_vars => IInv'
<1> SUFFICES ASSUME IInv, [Next]_vars PROVE IInv'
  OBVIOUS
<1>1. CASE Obc
  BY <1>1, WriteStep, ReadStep DEF Obc
<1>2. CASE Pi
  BY <1>2, WriteStep, ReadStep, DispatchStep DEF Pi
<1>3. CASE Task
  BY <1>3, TaskStep
<1>4. CASE Fault("obc") \/ Fault("pi")
  BY <1>4, FaultStep
<1>5. CASE UNCHANGED vars
  BY <1>5 DEF vars, task, IInv, TypeOK, CommandInv, OrderInv, LineInOrder, PendingInOrder,
              BodyNotSent, ExecutedAsWritten, Bodies
<1> QED
  BY <1>1, <1>2, <1>3, <1>4, <1>5 DEF Next

LEMMA Invariance == Spec => []IInv
BY InitIInv, NextIInv, PTL DEF Spec

(* Endpoints, line and counters have their types, and the flight           *)
(* computer's receive queue its bound.                                     *)
THEOREM TypeCorrect == Spec => []TypeOK
<1>1. IInv => TypeOK
  BY DEF IInv
<1> QED
  BY <1>1, Invariance, PTL

(* The payload runs what payload_uart_write_packet wrote, in that order    *)
(* and each write at most once, for any pattern of time-outs, stale bytes, *)
(* losses and garbled bytes.                                               *)
THEOREM ExecutedInOrder == Spec => []ExecutedAsWritten
<1>1. IInv => ExecutedAsWritten
  BY DEF IInv, OrderInv
<1> QED
  BY <1>1, Invariance, PTL

-----------------------------------------------------------------------------
(* How often a command is written.                                         *)

(* The command at the head of the queue, and whether it is being written.  *)
Current == NCommands + 1 - Len(commands)
Underway == end["obc"].at \in Writing /\ call = "execute"

(* The commands leave the queue in order and without a gap; RETRY_COUNT is *)
(* the number of times the one at its head has been written, those behind  *)
(* it have not been, and those before it had their turn.                   *)
AttemptInv ==
  /\ Len(commands) <= NCommands
  /\ \A i \in DOMAIN commands : commands[i] = NCommands - Len(commands) + i
  /\ RETRY_COUNT <= MaxRetry + 1
  /\ \A k \in 1..NCommands :
       /\ k < Current => Cardinality(Attempts(k)) <= MaxRetry + 2
       /\ k = Current =>
            Cardinality(Attempts(k)) = RETRY_COUNT + (IF Underway THEN 1 ELSE 0)
       /\ k > Current => Cardinality(Attempts(k)) = 0

(* One more write counts for its own packet and for no other.              *)
LEMMA AttemptsCounted ==
  ASSUME begun \in Seq(Packets), NEW p \in Packets, NEW k \in Packets,
         begun' = Append(begun, p)
  PROVE  /\ Cardinality(Attempts(k)) \in Nat
         /\ k = p => Cardinality(Attempts(k)') = Cardinality(Attempts(k)) + 1
         /\ k # p => Attempts(k)' = Attempts(k)
<1>1. /\ Len(begun) \in Nat /\ DOMAIN begun = 1..Len(begun)
      /\ DOMAIN begun' = 1..(Len(begun) + 1)
      /\ \A i \in 1..Len(begun) : begun'[i] = begun[i]
      /\ begun'[Len(begun) + 1] = p
  OBVIOUS
<1>2. Attempts(k) \subseteq 1..Len(begun)
  BY <1>1 DEF Attempts
<1>3. IsFiniteSet(Attempts(k)) /\ Cardinality(Attempts(k)) \in Nat
  <2>1. IsFiniteSet(1..Len(begun))
    BY <1>1, FS_Interval
  <2> QED
    BY <1>2, <2>1, FS_Subset, FS_CardinalityType
<1>4. CASE k = p
  <2>1. Attempts(k)' = Attempts(k) \cup {Len(begun) + 1}
    BY <1>1, <1>4 DEF Attempts
  <2>2. Len(begun) + 1 \notin Attempts(k)
    BY <1>1, <1>2
  <2> QED
    BY <1>3, <1>4, <2>1, <2>2, FS_AddElement
<1>5. CASE k # p
  BY <1>1, <1>3, <1>5 DEF Attempts
<1> QED
  BY <1>3, <1>4, <1>5

(* A step that is no caller's: the queue, the count and the write underway *)
(* are as they were.                                                       *)
LEMMA AttemptsKept ==
  ASSUME AttemptInv, UNCHANGED <<commands, RETRY_COUNT, begun>>, Underway' = Underway
  PROVE  AttemptInv'
<1>1. Current' = Current /\ \A k \in 1..NCommands : Attempts(k)' = Attempts(k)
  BY DEF Current, Attempts
<1> QED
  BY <1>1 DEF AttemptInv

LEMMA InitAttempts == Init => AttemptInv
<1> SUFFICES ASSUME Init PROVE AttemptInv
  OBVIOUS
<1>1. /\ NCommands \in Nat /\ MaxRetry \in Nat
      /\ commands = [k \in 1..NCommands |-> k] /\ Len(commands) = NCommands
      /\ RETRY_COUNT = 0 /\ begun = <<>> /\ call = "test"
  BY BoundsAssumption DEF Init
<1>2. Current = 1 /\ ~Underway
  BY <1>1 DEF Current, Underway
<1>3. \A k \in 1..NCommands : Cardinality(Attempts(k)) = 0
  <2>1. \A k \in 1..NCommands : Attempts(k) = {}
    BY <1>1 DEF Attempts
  <2> QED
    BY <2>1, FS_EmptySet
<1>4. \A i \in DOMAIN commands : commands[i] = NCommands - Len(commands) + i
  BY <1>1
<1> QED
  BY <1>1, <1>2, <1>3, <1>4 DEF AttemptInv

(* A command begun again counts, and any other packet does not.            *)
LEMMA BeginAttempts ==
  ASSUME IInv, AttemptInv, Task
  PROVE  AttemptInv'
<1>1. /\ begun \in Seq(Packets) /\ commands \in Seq(1..NCommands)
      /\ NCommands \in Nat /\ MaxRetry \in Nat /\ RETRY_COUNT \in Nat
      /\ end \in [{"obc", "pi"} -> Endpoint]
  BY BoundsAssumption DEF IInv, TypeOK
<1>2. /\ end["obc"].at = "idle" /\ ~Underway
      /\ end'["obc"].at = "syn_ack"
      /\ UNCHANGED <<commands, RETRY_COUNT>>
  <2>1. /\ end["obc"].at = "idle"
        /\ end' = [end EXCEPT !["obc"] = WritePacket(Len(begun) + 1)]
        /\ UNCHANGED <<commands, RETRY_COUNT>>
    BY DEF Task, try_execute_payload_command, ping_command, payload_uart_write_on_test, BeginWrite
  <2> QED
    BY <1>1, <2>1 DEF WritePacket, At, Underway, Writing
<1>3. /\ Current' = Current
      /\ Underway' <=> call' = "execute"
  BY <1>2 DEF Current, Underway, Writing
<1>4. CASE try_execute_payload_command
  <2>1. /\ commands # <<>> /\ call' = "execute" /\ begun' = Append(begun, Head(commands))
    BY <1>4 DEF try_execute_payload_command, BeginWrite
  <2>2. /\ Head(commands) = Current /\ Current \in 1..NCommands
        /\ Current \in Packets
    <3>1. Head(commands) = commands[1] /\ 1 \in DOMAIN commands /\ Len(commands) \in Nat \ {0}
      BY <1>1, <2>1
    <3> QED
      BY <1>1, <3>1 DEF AttemptInv, Current, Packets
  <2>3. ASSUME NEW k \in 1..NCommands
        PROVE  /\ k = Current => Cardinality(Attempts(k)') = Cardinality(Attempts(k)) + 1
               /\ k # Current => Attempts(k)' = Attempts(k)
    BY <1>1, <2>1, <2>2, AttemptsCounted DEF Packets
  <2>4. Cardinality(Attempts(Current)) = RETRY_COUNT
    <3>1. \A k \in 1..NCommands : k = Current => Cardinality(Attempts(k)) = RETRY_COUNT
      BY <1>1, <1>2 DEF AttemptInv
    <3> QED
      BY Zenon, <2>2, <3>1
  <2>5. ASSUME NEW k \in 1..NCommands
        PROVE  /\ k < Current => Cardinality(Attempts(k)') <= MaxRetry + 2
               /\ k = Current => Cardinality(Attempts(k)') = RETRY_COUNT + 1
               /\ k > Current => Cardinality(Attempts(k)') = 0
    BY <1>1, <2>2, <2>3, <2>4 DEF AttemptInv
  <2> QED
    BY <1>2, <1>3, <2>1, <2>5 DEF AttemptInv
<1>5. CASE ping_command \/ payload_uart_write_on_test
  <2>1. call' # "execute" /\ begun' = Append(begun, Ping)
    BY <1>5 DEF ping_command, payload_uart_write_on_test, BeginWrite
  <2>2. \A k \in 1..NCommands : Attempts(k)' = Attempts(k)
    BY <1>1, <2>1, AttemptsCounted DEF Packets, Ping
  <2> QED
    BY <1>2, <1>3, <2>1, <2>2 DEF AttemptInv
<1> QED
  BY <1>4, <1>5 DEF Task

(* A write that returns ends a turn, or leaves the next try to be made.    *)
LEMMA ReturnAttempts ==
  ASSUME IInv, AttemptInv, NEW ok \in BOOLEAN, WriteReturns("obc", ok),
         end["obc"].at \in Writing, UNCHANGED <<call, faults, begun, executed>>
  PROVE  AttemptInv'
<1>1. /\ commands \in Seq(1..NCommands)
      /\ NCommands \in Nat /\ MaxRetry \in Nat /\ RETRY_COUNT \in Nat
  BY BoundsAssumption DEF IInv, TypeOK
<1>2. ~Underway'
  <2>1. AfterWrite("obc", ok) \in Endpoint /\ AfterWrite("obc", ok).at \in {"idle", "sync"}
    BY NewEndpoints DEF AfterWrite, ReadPacket, Idle, Ats, Reading
  <2>2. Step("obc", <<>>, AfterWrite("obc", ok))
    BY DEF WriteReturns
  <2>3. end'["obc"] = AfterWrite("obc", ok)
    BY <2>1, <2>2, QuietAnswers, StepTypes DEF IInv
  <2> QED
    BY <2>1, <2>3 DEF Underway, Writing
<1>3. Written(ok)
  BY DEF WriteReturns
<1>4. \A k \in 1..NCommands : Attempts(k)' = Attempts(k)
  BY DEF Attempts
<1>5. CASE call = "execute" /\ (ok \/ RETRY_COUNT > MaxRetry)
  <2>1. commands' = Tail(commands) /\ RETRY_COUNT' = 0
    BY Zenon, <1>3, <1>5 DEF Written
  <2>2. commands # <<>> /\ Underway
    BY <1>5 DEF IInv, CommandInv, Underway
  <2>3. /\ Len(commands) \in Nat \ {0} /\ Len(commands') = Len(commands) - 1
        /\ \A i \in DOMAIN commands' : i + 1 \in DOMAIN commands /\ commands'[i] = commands[i + 1]
    BY <1>1, <2>1, <2>2
  <2>4. /\ Current' = Current + 1 /\ Current \in 1..NCommands
    BY <1>1, <2>3 DEF Current, AttemptInv
  <2>5. Cardinality(Attempts(Current)) = RETRY_COUNT + 1 /\ RETRY_COUNT <= MaxRetry + 1
    BY <2>2, <2>4 DEF AttemptInv
  <2>6. \A i \in DOMAIN commands' : commands'[i] = NCommands - Len(commands') + i
    <3> SUFFICES ASSUME NEW i \in DOMAIN commands'
                 PROVE  commands'[i] = NCommands - Len(commands') + i
      OBVIOUS
    <3>1. i \in Nat /\ commands'[i] = NCommands - Len(commands) + (i + 1)
      BY <1>1, <2>1, <2>2, <2>3 DEF AttemptInv
    <3> QED
      BY <1>1, <2>3, <3>1
  <2>7. ASSUME NEW k \in 1..NCommands
        PROVE  /\ k < Current + 1 => Cardinality(Attempts(k)) <= MaxRetry + 2
               /\ k >= Current + 1 => Cardinality(Attempts(k)) = 0
    BY <1>1, <2>4, <2>5 DEF AttemptInv
  <2>8. /\ Len(commands') <= NCommands
        /\ RETRY_COUNT' <= MaxRetry + 1
    BY <1>1, <2>1, <2>3 DEF AttemptInv
  <2> QED
    BY <1>2, <1>4, <2>1, <2>4, <2>6, <2>7, <2>8 DEF AttemptInv
<1>6. CASE call = "execute" /\ ~(ok \/ RETRY_COUNT > MaxRetry)
  <2>1. RETRY_COUNT' = RETRY_COUNT + 1 /\ commands' = commands /\ RETRY_COUNT <= MaxRetry
    <3>1. RETRY_COUNT' = RETRY_COUNT + 1 /\ commands' = commands
      BY Zenon, <1>3, <1>6 DEF Written
    <3> QED
      BY <1>1, <1>6, <3>1
  <2>2. Underway /\ Current' = Current
    BY <1>6, <2>1 DEF Underway, Current
  <2> QED
    BY <1>1, <1>2, <1>4, <2>1, <2>2 DEF AttemptInv
<1>7. CASE call # "execute"
  <2>1. RETRY_COUNT' = RETRY_COUNT /\ commands' = commands
    BY Zenon, <1>3, <1>7 DEF Written
  <2> QED
    BY <1>2, <1>7, <2>1, AttemptsKept DEF Underway
<1> QED
  BY <1>5, <1>6, <1>7

(* The flight computer's handshakes, apart from a write's return.          *)
LEMMA ObcAttempts ==
  ASSUME IInv, AttemptInv, Obc
  PROVE  AttemptInv'
<1>1. /\ end["obc"] \in Endpoint /\ Received("obc") \in Byte
  <2>1. wire["obc"] \in Seq(Byte)
    BY DEF IInv, TypeOK
  <2> QED
    BY <2>1, TailBytes, ByteTypes DEF IInv, TypeOK, Received
<1>2. \A next : end' = [end EXCEPT !["obc"] = next] => end'["obc"] = next
  BY DEF IInv, TypeOK
<1>3. CASE Write("obc")
  <2>1. UNCHANGED <<call, faults, begun, executed>> /\ end["obc"].at \in Writing
    BY <1>3 DEF Write, AwaitSynAck, AwaitHeaderAck, AwaitBodyAck, Writing
  <2>2. CASE \E ok \in BOOLEAN : WriteReturns("obc", ok)
    BY <2>1, <2>2, ReturnAttempts
  <2>3. CASE \E bytes, next : WriteGoesOn("obc", bytes, next) /\ next.at \in Writing
    <3>1. end'["obc"].at \in Writing /\ UNCHANGED <<commands, RETRY_COUNT>>
      BY <1>2, <2>3 DEF WriteGoesOn, Step
    <3> QED
      BY <2>1, <3>1, AttemptsKept DEF Underway
  <2>4. /\ [end["obc"] EXCEPT !.at = "header_ack"].at \in Writing
        /\ [end["obc"] EXCEPT !.n = @ + 1].at = end["obc"].at
        /\ [end["obc"] EXCEPT !.at = "body_ack"].at \in Writing
    BY <1>1, EndpointUpdates DEF Writing
  <2>5. CASE AwaitSynAck("obc")
    BY <2>1, <2>2, <2>3, <2>4, <2>5 DEF AwaitSynAck
  <2>6. CASE AwaitHeaderAck("obc")
    BY <2>2, <2>3, <2>4, <2>6 DEF AwaitHeaderAck
  <2>7. CASE AwaitBodyAck("obc")
    BY <2>2, <2>7 DEF AwaitBodyAck
  <2> QED
    BY <1>3, <2>5, <2>6, <2>7 DEF Write
<1>4. CASE Read("obc")
  <2>1. UNCHANGED <<call, commands, RETRY_COUNT, begun>> /\ end["obc"].at \notin Writing
    BY <1>4 DEF Read, task, AwaitSync, AwaitStart, AwaitHeader, AwaitBody, Writing
  <2>2. \E bytes, next : Step("obc", bytes, next) /\ next.at \notin Writing
    <3>1. /\ Idle.at = "idle" /\ GiveUp("obc") = Idle
          /\ [end["obc"] EXCEPT !.n = @ + 1].at = end["obc"].at
          /\ [end["obc"] EXCEPT !.at = "start", !.n = 0].at = "start"
          /\ [end["obc"] EXCEPT !.at = "header"].at = "header"
          /\ [end["obc"] EXCEPT !.at = "body", !.header = Received("obc")].at = "body"
      BY <1>1, EndpointUpdates, NewEndpoints, ZenonT(60) DEF GiveUp, Idle, Ats, Endpoint
    <3> DEFINE next == [end["obc"] EXCEPT !.n = @ + 1]
               started == [end["obc"] EXCEPT !.at = "start", !.n = 0]
               called == [end["obc"] EXCEPT !.at = "header"]
    <3>5. /\ next.at \notin Writing /\ started.at \notin Writing /\ called.at \notin Writing
          /\ GiveUp("obc").at \notin Writing
      BY <2>1, <3>1 DEF Writing
    <3>2. CASE AwaitSync("obc")
      <4>1. \/ Step("obc", <<>>, next) \/ Step("obc", <<Ack>>, started)
            \/ Step("obc", <<>>, end["obc"]) \/ Step("obc", <<>>, GiveUp("obc"))
        BY <3>2, ZenonT(60) DEF AwaitSync
      <4> HIDE DEF next, started
      <4> QED
        BY <2>1, <3>5, <4>1, ZenonT(60)
    <3>3. CASE AwaitStart("obc")
      <4>1. \/ Step("obc", <<>>, called) \/ Step("obc", <<>>, GiveUp("obc"))
            \/ Step("obc", <<>>, next)
        BY <3>3, ZenonT(60) DEF AwaitStart
      <4> HIDE DEF next, called
      <4> QED
        BY <3>5, <4>1, ZenonT(60)
    <3>4. CASE AwaitHeader("obc")
      BY <3>1, <3>4 DEF AwaitHeader, Writing
    <3>6. CASE AwaitBody("obc")
      BY <3>1, <3>6 DEF AwaitBody, Writing
    <3> QED
      BY <1>4, <3>2, <3>3, <3>4, <3>6 DEF Read
  <2>3. end'["obc"].at \notin Writing
    BY <1>2, <2>2 DEF Step
  <2> QED
    BY <2>1, <2>3, AttemptsKept DEF Underway
<1> QED
  BY <1>3, <1>4 DEF Obc

LEMMA NextAttempts == IInv /\ AttemptInv /\ [Next]_vars => AttemptInv'
<1> SUFFICES ASSUME IInv, AttemptInv, [Next]_vars PROVE AttemptInv'
  OBVIOUS
<1>1. CASE Pi
  <2>1. \E bytes, next : Step("pi", bytes, next) \/ end' = [end EXCEPT !["pi"] = next]
    BY <1>1 DEF Pi, Write, Read, AwaitSynAck, AwaitHeaderAck, AwaitBodyAck, AwaitSync,
                AwaitStart, AwaitHeader, AwaitBody, DispatchCommand, WriteGoesOn, WriteReturns
  <2>2. end'["obc"] = end["obc"]
    BY <2>1 DEF Step, IInv, TypeOK
  <2>3. UNCHANGED <<call, commands, RETRY_COUNT, begun>>
    BY <1>1 DEF Pi, Write, Read, AwaitSynAck, AwaitHeaderAck, AwaitBodyAck, DispatchCommand,
                WriteGoesOn, WriteReturns, task
  <2> QED
    BY <2>2, <2>3, AttemptsKept DEF Underway
<1>2. CASE Fault("obc") \/ Fault("pi") \/ UNCHANGED vars
  BY <1>2, AttemptsKept DEF Fault, vars, task, Underway
<1> QED
  BY <1>1, <1>2, ObcAttempts, BeginAttempts DEF Next

(* payload_task_dispatch writes no command more often than its retries     *)
(* allow, whatever is lost: RETRY_COUNT is set back when a command leaves  *)
(* the queue, and only then.                                               *)
THEOREM RetriesBounded == Spec => []AttemptsBounded
<1>1. IInv /\ AttemptInv => AttemptsBounded
  <2> SUFFICES ASSUME IInv, AttemptInv, NEW k \in 1..NCommands
               PROVE  Cardinality(Attempts(k)) <= MaxRetry + 2
    BY DEF AttemptsBounded
  <2>1. /\ Current \in Int /\ RETRY_COUNT \in Nat /\ MaxRetry \in Nat /\ NCommands \in Nat
    BY BoundsAssumption DEF IInv, TypeOK, Current
  <2>2. CASE k < Current
    BY <2>1, <2>2 DEF AttemptInv
  <2>3. CASE k = Current
    BY <2>1, <2>3 DEF AttemptInv
  <2>4. CASE k > Current
    BY <2>1, <2>4 DEF AttemptInv
  <2> QED
    BY <2>1, <2>2, <2>3, <2>4
<1>2. Init => AttemptInv
  BY InitAttempts
<1>3. IInv /\ AttemptInv /\ [Next]_vars => AttemptInv'
  BY NextAttempts
<1> QED
  BY <1>1, <1>2, <1>3, Invariance, PTL DEF Spec
=============================================================================
