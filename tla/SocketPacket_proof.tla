-------------------------- MODULE SocketPacket_proof --------------------------
(***************************************************************************)
(* Packets of any size, commands of any length, any number of calls: the   *)
(* types, the handshakes, and that calls are those of RequestReply.  The   *)
(* last needs to know where every unit of a command and of an answer is:   *)
(* Sized and CInv hold whatever fails, Unfailed until the first call       *)
(* does.                                                                   *)
(***************************************************************************)
EXTENDS SocketPacket, SequenceTheorems, TLAPS

Noise  == {"SEQUENCE_HANDSHAKE", "BLANK"}
Pieces == {"DB_FRAGMENTED", "DB_DATA"}
Ends   == {"DB_DATA", "DB_DONE", "JL_ACK", "JL_NOT_SUPPORTED"}
Final  == {"DB_DATA", "JL_DATA"}

Unit == (1..MaxCalls) \X Nat
Troubles == {"none", "error", "out of sequence", "timeout"}
Calls == [pc : {"idle", "fragmenting", "sending", "reading", "command", "data"},
          whole : UnitSeq, offset : Nat, receive : UnitSeq, frag : BOOLEAN,
          blankCount : 0..(BlankLimit - 1), trouble : Troubles]
Devices == [id : Nat, part : UnitSeq, size : {0, Full}]
Orders ==
  {p \in [command : {"SIZE", "DB_DATA", "DB_FRAGMENTED", "JL_DATA", "JL_COMMAND"}, payload : UnitSeq] :
     /\ p.command = "SIZE" => Len(p.payload) = Full
     /\ p.command \in Final => p.payload # <<>>}
Answers == [command : Noise \cup Pieces \cup Ends, id : Nat, payload : UnitSeq]

Typed ==
  /\ hide \in BOOLEAN /\ sequenceId \in Nat /\ skipped \in Nat
  /\ call \in Calls /\ device \in Devices
  /\ down \in Seq(Orders) /\ up \in Seq(Answers)
  /\ sent \in Seq(UnitSeq) /\ executed \in Seq(UnitSeq) /\ answers \in Seq(UnitSeq)

\* A command in progress is that of the last call, and not yet sent to its end while
\* the host is at its fragments.
Called ==
  /\ call.pc # "idle" => call.whole # <<>> /\ call.whole = Units(Len(sent), Len(call.whole))
  /\ call.pc \in {"fragmenting", "sending"} => call.offset < Len(call.whole)

\* The packets that make commands whole are on their way in the order of the commands,
\* and each is of one that the device has not answered.
Number(p) == p.payload[1][1]
Rising(q, low, high) ==
  /\ \A i \in 1..Len(q) : q[i].command \in Final => Number(q[i]) \in low..high
  /\ \A i, j \in 1..Len(q) : i < j /\ q[i].command \in Final /\ q[j].command \in Final => Number(q[i]) < Number(q[j])

Sending == {"fragmenting", "sending", "command"}
Reached == IF call.pc \in Sending THEN Len(sent) - 1 ELSE Len(sent)
Counted ==
  /\ Len(sent) <= MaxCalls /\ Len(answers) <= Reached
  /\ Rising(down, Len(answers) + 1, Reached)

TInv == Typed /\ Called /\ Counted

-----------------------------------------------------------------------------
(***************************************************************************)
(* Sequences that lose their head or grow at their end.                    *)
(***************************************************************************)
LEMMA Taking ==
  ASSUME NEW D, NEW q \in Seq(D), q # << >>
  PROVE  /\ Tail(q) \in Seq(D) /\ Head(q) \in D /\ Head(q) = q[1]
         /\ Len(q) \in Nat \ {0} /\ Len(Tail(q)) = Len(q) - 1
         /\ \A i \in 1..Len(q) - 1 : Tail(q)[i] = q[i + 1]
BY HeadTailProperties, EmptySeq

LEMMA Adding ==
  ASSUME NEW D, NEW q \in Seq(D), NEW e \in D
  PROVE  /\ Append(q, e) \in Seq(D) /\ Len(Append(q, e)) = Len(q) + 1 /\ Len(q) \in Nat
         /\ \A i \in 1..Len(q) : Append(q, e)[i] = q[i]
         /\ Append(q, e)[Len(q) + 1] = e
BY AppendProperties

LEMMA Joining ==
  ASSUME NEW D, NEW q \in Seq(D), NEW r \in Seq(D)
  PROVE  /\ q \o r \in Seq(D) /\ Len(q \o r) = Len(q) + Len(r) /\ Len(q) \in Nat /\ Len(r) \in Nat
         /\ \A i \in 1..Len(q) : (q \o r)[i] = q[i]
         /\ \A i \in 1..Len(r) : (q \o r)[Len(q) + i] = r[i]
<1>1. /\ q \o r \in Seq(D) /\ Len(q \o r) = Len(q) + Len(r) /\ Len(q) \in Nat /\ Len(r) \in Nat
      /\ \A i \in 1..Len(q) + Len(r) : (q \o r)[i] = IF i <= Len(q) THEN q[i] ELSE r[i - Len(q)]
  BY ConcatProperties
<1>2. \A i \in 1..Len(q) : i \in 1..Len(q) + Len(r) /\ i <= Len(q)
  BY <1>1
<1>3. \A i \in 1..Len(r) : Len(q) + i \in 1..Len(q) + Len(r) /\ ~(Len(q) + i <= Len(q)) /\ Len(q) + i - Len(q) = i
  BY <1>1
<1>. QED BY <1>1, <1>2, <1>3

\* A part of a sequence, position by position.
Part(q, from, n) == SubSeq(q, from + 1, from + n)

LEMMA Cutting ==
  ASSUME NEW D, NEW q \in Seq(D), NEW from \in Nat, NEW n \in Nat, from + n <= Len(q),
         NEW r, r = Part(q, from, n)
  PROVE  r \in Seq(D) /\ Len(r) = n /\ \A i \in 1..n : r[i] = q[from + i]
<1>1. from + 1 \in Int /\ from + n \in Int /\ \A i \in (from + 1)..(from + n) : i \in 1..Len(q)
  OBVIOUS
<1>2. \A i \in (from + 1)..(from + n) : q[i] \in D
  BY <1>1, ElementOfSeq
<1>3. /\ Part(q, from, n) \in Seq(D)
      /\ Len(Part(q, from, n)) = IF from + 1 <= from + n THEN from + n - (from + 1) + 1 ELSE 0
      /\ \A i \in 1 .. from + n - (from + 1) + 1 : Part(q, from, n)[i] = q[from + 1 + i - 1]
  BY <1>1, <1>2, SubSeqProperties DEF Part
<1>4. from + n - (from + 1) + 1 = n /\ (~(from + 1 <= from + n) => n = 0)
      /\ \A i \in 1..n : from + 1 + i - 1 = from + i
  OBVIOUS
<1>. QED BY <1>3, <1>4

\* A packet, perhaps with another before it, at the end of a wire.
Grown(q, r, two, a, b) ==
  /\ \A i \in 1..Len(q) : r[i] = q[i]
  /\ IF two THEN Len(r) = Len(q) + 2 /\ r[Len(q) + 1] = a ELSE Len(r) = Len(q) + 1
  /\ r[Len(r)] = b

LEMMA Growing ==
  ASSUME NEW D, NEW q \in Seq(D), NEW two \in BOOLEAN, NEW a, two => a \in D, NEW b \in D
  PROVE  /\ q \o (IF two THEN <<a>> ELSE << >>) \o <<b>> \in Seq(D)
         /\ Grown(q, q \o (IF two THEN <<a>> ELSE << >>) \o <<b>>, two, a, b)
<1>1. CASE two
  <2>1. <<a>> \in Seq(D) /\ Len(<<a>>) = 1 /\ <<a>>[1] = a
    BY <1>1
  <2>2. <<b>> \in Seq(D) /\ Len(<<b>>) = 1 /\ <<b>>[1] = b
    OBVIOUS
  <2>3. /\ q \o <<a>> \in Seq(D) /\ Len(q \o <<a>>) = Len(q) + 1 /\ Len(q) \in Nat
        /\ \A i \in 1..Len(q) : (q \o <<a>>)[i] = q[i]
        /\ (q \o <<a>>)[Len(q) + 1] = a
    BY <2>1, Joining
  <2>4. /\ (q \o <<a>>) \o <<b>> \in Seq(D) /\ Len((q \o <<a>>) \o <<b>>) = Len(q) + 2
        /\ \A i \in 1..Len(q) + 1 : ((q \o <<a>>) \o <<b>>)[i] = (q \o <<a>>)[i]
        /\ ((q \o <<a>>) \o <<b>>)[Len(q) + 2] = b
    BY <2>2, <2>3, Joining
  <2>5. Len(q) + 1 \in 1..Len(q) + 1 /\ \A i \in 1..Len(q) : i \in 1..Len(q) + 1
    BY <2>3
  <2>. QED BY <1>1, <2>3, <2>4, <2>5 DEF Grown
<1>2. CASE ~two
  <2>1. <<b>> \in Seq(D) /\ Len(<<b>>) = 1 /\ <<b>>[1] = b
    OBVIOUS
  <2>2. q \o << >> = q
    BY ConcatEmptySeq
  <2>3. /\ q \o <<b>> \in Seq(D) /\ Len(q \o <<b>>) = Len(q) + 1
        /\ \A i \in 1..Len(q) : (q \o <<b>>)[i] = q[i]
        /\ (q \o <<b>>)[Len(q) + 1] = b
    BY <2>1, Joining
  <2>. QED BY <1>2, <2>2, <2>3 DEF Grown
<1>. QED BY <1>1, <1>2

LEMMA UnitsTyped ==
  ASSUME NEW n \in 1..MaxCalls, NEW length \in Nat
  PROVE  /\ Units(n, length) \in UnitSeq /\ Len(Units(n, length)) = length
         /\ \A i \in 1..length : Units(n, length)[i] = <<n, i>>
<1>1. \A i \in 1..length : <<n, i>> \in Unit
  BY DEF Unit
<1>2. Units(n, length) = [i \in 1..length |-> <<n, i>>]
  BY DEF Units
<1>3. Units(n, length) \in Seq(Unit) /\ Len(Units(n, length)) = length
  BY <1>1, <1>2
<1>. QED BY <1>2, <1>3 DEF Unit, UnitSeq

-----------------------------------------------------------------------------
(***************************************************************************)
(* Types.                                                                  *)
(***************************************************************************)
LEMMA RisingTail ==
  ASSUME NEW q \in Seq(Orders), q # << >>, NEW low \in Nat, NEW high \in Int, Rising(q, low, high)
  PROVE  /\ Rising(Tail(q), low, high)
         /\ Head(q).command \in Final => Rising(Tail(q), low + 1, high) /\ low <= high
<1> DEFINE r == Tail(q)
<1>1. /\ r \in Seq(Orders) /\ Len(q) \in Nat \ {0} /\ Len(r) = Len(q) - 1 /\ Head(q) = q[1]
      /\ \A i \in 1..Len(r) : r[i] = q[i + 1] /\ i + 1 \in 1..Len(q)
  BY Taking
<1> HIDE DEF r
<1>2. Rising(r, low, high)
  <2>1. ASSUME NEW i \in 1..Len(r), r[i].command \in Final PROVE Number(r[i]) \in low..high
    <3>1. r[i] = q[i + 1] /\ i + 1 \in 1..Len(q)
      BY <1>1
    <3>. QED BY <2>1, <3>1 DEF Rising
  <2>2. ASSUME NEW i \in 1..Len(r), NEW j \in 1..Len(r), i < j, r[i].command \in Final, r[j].command \in Final
        PROVE  Number(r[i]) < Number(r[j])
    <3>1. r[i] = q[i + 1] /\ i + 1 \in 1..Len(q) /\ r[j] = q[j + 1] /\ j + 1 \in 1..Len(q) /\ i + 1 < j + 1
      BY <1>1, <2>2
    <3>. QED BY <2>2, <3>1 DEF Rising
  <2>. QED BY <2>1, <2>2 DEF Rising
<1>3. ASSUME Head(q).command \in Final
      PROVE  Rising(r, low + 1, high) /\ low <= high
  <2>1. 1 \in 1..Len(q) /\ Number(q[1]) \in low..high
    BY <1>1, <1>3 DEF Rising
  <2>2. ASSUME NEW i \in 1..Len(r), r[i].command \in Final
        PROVE  Number(r[i]) \in (low + 1)..high
    <3>1. r[i] = q[i + 1] /\ i + 1 \in 1..Len(q) /\ 1 < i + 1
      BY <1>1
    <3>2. Number(q[1]) < Number(q[i + 1]) /\ Number(q[i + 1]) \in low..high
      BY <1>1, <1>3, <2>1, <2>2, <3>1 DEF Rising
    <3>. QED BY <2>1, <3>1, <3>2
  <2>. QED BY <1>2, <2>1, <2>2 DEF Rising
<1>. QED BY <1>2, <1>3 DEF r

LEMMA RisingWider ==
  ASSUME NEW q, NEW low \in Nat, NEW high \in Int, NEW higher \in Int, high <= higher, Rising(q, low, high)
  PROVE  Rising(q, low, higher)
BY DEF Rising

\* A packet is sent, and if it makes a command whole it is that of the next number.
LEMMA RisingGrown ==
  ASSUME NEW q \in Seq(Orders), NEW r \in Seq(Orders), NEW two \in BOOLEAN, NEW a, NEW b,
         Grown(q, r, two, a, b), two => a.command = "SIZE",
         NEW low \in Nat, NEW high \in Nat, low <= high, Rising(q, low, high - 1),
         b.command \in Final => Number(b) = high
  PROVE  Rising(r, low, high)
<1>1. Len(q) \in Nat /\ Len(r) \in Nat
  OBVIOUS
<1>2. ASSUME NEW i \in 1..Len(r), r[i].command \in Final
      PROVE  (i \in 1..Len(q) /\ r[i] = q[i]) \/ (i = Len(r) /\ r[i] = b)
  <2>1. "SIZE" \notin Final
    BY DEF Final
  <2>2. CASE two
    <3>1. Len(r) = Len(q) + 2 /\ r[Len(q) + 1].command \notin Final /\ r[Len(r)] = b
      BY <2>1, <2>2 DEF Grown
    <3>2. i \in 1..Len(q) \/ i = Len(r)
      BY <1>1, <1>2, <3>1
    <3>. QED BY <3>1, <3>2 DEF Grown
  <2>3. CASE ~two
    <3>1. Len(r) = Len(q) + 1 /\ r[Len(r)] = b
      BY <2>3 DEF Grown
    <3>2. i \in 1..Len(q) \/ i = Len(r)
      BY <1>1, <3>1
    <3>. QED BY <3>1, <3>2 DEF Grown
  <2>. QED BY <2>2, <2>3
<1>3. \A i \in 1..Len(r) : r[i].command \in Final => Number(r[i]) \in low..high
  BY <1>2 DEF Rising
<1>4. ASSUME NEW i \in 1..Len(r), NEW j \in 1..Len(r), i < j, r[i].command \in Final, r[j].command \in Final
      PROVE  Number(r[i]) < Number(r[j])
  <2>1. i \in 1..Len(q) /\ r[i] = q[i]
    BY <1>1, <1>2, <1>4
  <2>2. Number(q[i]) \in low..(high - 1)
    BY <1>4, <2>1 DEF Rising
  <2>3. CASE j \in 1..Len(q) /\ r[j] = q[j]
    BY <1>4, <2>1, <2>3 DEF Rising
  <2>4. CASE r[j] = b
    BY <1>4, <2>1, <2>2, <2>4
  <2>. QED BY <1>2, <1>4, <2>3, <2>4
<1>. QED BY <1>3, <1>4 DEF Rising

\* A call that ends, and one that goes on.
LEMMA Idle == NoCall \in Calls
BY BoundsAssumption, EmptySeq DEF NoCall, Calls, Troubles, UnitSeq

LEMMA Finishing ==
  ASSUME Typed, NEW receive \in UnitSeq, Finish(receive)
  PROVE  /\ call' \in Calls /\ call'.pc = "idle" /\ call'.receive = receive /\ call'.trouble = call.trouble
         /\ ~call'.frag
BY Idle DEF Typed, Finish, Calls, NoCall

LEMMA Throwing ==
  ASSUME Typed, NEW trouble \in Troubles, Throw(trouble)
  PROVE  /\ call' \in Calls /\ call'.pc = "idle" /\ call'.receive = << >> /\ call'.trouble = trouble
         /\ ~call'.frag
BY Idle DEF Typed, Throw, Calls, NoCall

\* Everything in the call but its place and the count of blank packets is as it was.
Same == UNCHANGED <<call.whole, call.offset, call.receive, call.frag, call.trouble>>

LEMMA ReadingOn ==
  ASSUME Typed, ReadOn
  PROVE  call' \in Calls /\ call'.pc = call.pc /\ Same
<1>1. 0 \in 0..(BlankLimit - 1)
  BY BoundsAssumption
<1>. QED BY <1>1 DEF Typed, ReadOn, Calls, Same

LEMMA Blanking ==
  ASSUME Typed, IF call.blankCount + 1 = BlankLimit THEN Throw("error")
                ELSE call' = [call EXCEPT !.blankCount = @ + 1]
  PROVE  /\ call' \in Calls
         /\ \/ call'.pc = "idle" /\ call'.receive = << >> /\ call'.trouble = "error" /\ ~call'.frag
            \/ call'.pc = call.pc /\ Same
<1>1. CASE Throw("error")
  BY <1>1, Throwing DEF Troubles
<1>2. CASE call.blankCount + 1 # BlankLimit /\ call' = [call EXCEPT !.blankCount = @ + 1]
  <2>1. call.blankCount \in 0..(BlankLimit - 1) /\ call \in Calls
    BY DEF Typed, Calls
  <2>2. call.blankCount + 1 \in 0..(BlankLimit - 1)
    BY <1>2, <2>1, BoundsAssumption
  <2>. QED BY <1>2, <2>1, <2>2 DEF Calls, Same
<1>. QED BY <1>1, <1>2

-----------------------------------------------------------------------------
\* What the host does with a packet, when it does not answer it with another.
AtData == handshake /\ call.pc # "command"
HostReads == \/ SequencePacket \/ fragment_sent \/ db_fragment \/ db_data \/ db_done \/ unhandled_packet
             \/ data_answer \/ not_supported \/ out_of_sequence \/ blank \/ AtData

Goes == call'.pc = call.pc \/ (call.pc = "sending" /\ call'.pc = "fragmenting")
Reads ==
  /\ up # << >> /\ up' = Tail(up) /\ call.pc # "idle"
  /\ UNCHANGED <<hide, down, device, sent, executed, answers>>
  /\ call' \in Calls /\ sequenceId' \in Nat /\ skipped' \in Nat
  /\ call'.pc = "idle" \/ (Goes /\ UNCHANGED <<call.whole, call.offset>>)

LEMMA Replies ==
  ASSUME Typed, up # << >>
  PROVE  /\ Reply \in Answers /\ Reply = up[1] /\ Len(up) \in Nat \ {0}
         /\ Reply.payload \in UnitSeq /\ AppendFragment \in UnitSeq
         /\ sequenceId + 1 \in Nat /\ skipped + 1 \in Nat /\ skipped + 0 = skipped
<1>1. Reply \in Answers /\ Reply = up[1] /\ Len(up) \in Nat \ {0}
  BY Taking DEF Typed, Reply
<1>2. Reply.payload \in UnitSeq /\ call.receive \in UnitSeq
  BY <1>1 DEF Typed, Answers, Calls
<1>3. AppendFragment \in UnitSeq
  BY <1>2, Joining DEF AppendFragment, UnitSeq
<1>. QED BY <1>1, <1>2, <1>3 DEF Typed

LEMMA ReadsStep ==
  ASSUME Typed, HostReads
  PROVE  Reads
<1>0. /\ \A pc : Receive(pc) => up # << >> /\ up' = Tail(up) /\ call.pc = pc
      /\ Advance => sequenceId' \in Nat
      /\ call \in Calls /\ sequenceId \in Nat /\ skipped \in Nat
  BY DEF Receive, Typed, Advance
<1>1. CASE SequencePacket
  BY <1>0, <1>1 DEF SequencePacket, Reads, history, Goes
<1>2. CASE fragment_sent
  <2>1. call' \in Calls /\ call'.pc = "fragmenting" /\ UNCHANGED <<call.whole, call.offset>>
    BY <1>0, <1>2 DEF fragment_sent, Calls
  <2>2. skipped' \in Nat
    BY <1>0, <1>2 DEF fragment_sent
  <2>. QED BY <1>0, <1>2, <2>1, <2>2 DEF fragment_sent, Reads, Goes
<1>3. CASE db_fragment
  <2>1. Receive("reading") /\ AppendFragment \in UnitSeq
    BY <1>0, <1>3, Replies DEF db_fragment
  <2>2. call' \in Calls /\ call'.pc = call.pc /\ UNCHANGED <<call.whole, call.offset>>
    <3>1. 0 \in 0..(BlankLimit - 1)
      BY BoundsAssumption
    <3>. QED BY <1>0, <1>3, <2>1, <3>1 DEF db_fragment, Calls
  <2>. QED BY <1>0, <1>3, <2>1, <2>2 DEF db_fragment, Reads, Goes, history
<1>4. CASE db_data
  <2>1. Receive("reading") /\ AppendFragment \in UnitSeq /\ Reply.payload \in UnitSeq
    BY <1>0, <1>4, Replies DEF db_data
  <2>2. call' \in Calls /\ call'.pc = "idle"
    BY <1>4, <2>1, Finishing DEF db_data
  <2>. QED BY <1>0, <1>4, <2>1, <2>2 DEF db_data, Reads, history
<1>5. CASE db_done \/ data_answer
  <2>1. \E pc \in {"reading", "data"} : Receive(pc)
    BY <1>5 DEF db_done, data_answer
  <2>2. Reply.payload \in UnitSeq
    BY <1>0, <2>1, Replies
  <2>3. call' \in Calls /\ call'.pc = "idle"
    BY <1>5, <2>2, Finishing DEF db_done, data_answer
  <2>. QED BY <1>0, <1>5, <2>1, <2>3 DEF db_done, data_answer, Reads, history
<1>6. CASE unhandled_packet \/ not_supported \/ out_of_sequence
  <2>1. \E pc \in {"reading", "data", "command"} : Receive(pc)
    BY <1>6 DEF unhandled_packet, not_supported, out_of_sequence
  <2>2. call' \in Calls /\ call'.pc = "idle"
    BY <1>6, Throwing DEF unhandled_packet, not_supported, out_of_sequence, Troubles
  <2>3. /\ sequenceId' = sequenceId /\ UNCHANGED <<hide, down, device, sent, executed, answers>>
        /\ skipped' \in {skipped, skipped + 1}
    BY <1>6 DEF unhandled_packet, not_supported, out_of_sequence, history
  <2>. QED BY <1>0, <2>1, <2>2, <2>3 DEF Reads
<1>7. CASE blank
  <2>1. \E pc \in {"reading", "data", "command"} : Receive(pc)
    BY <1>7 DEF blank
  <2>2. call' \in Calls /\ (call'.pc = "idle" \/ (call'.pc = call.pc /\ UNCHANGED <<call.whole, call.offset>>))
    BY <1>7, Blanking DEF blank, Same
  <2>. QED BY <1>0, <1>7, <2>1, <2>2 DEF blank, Reads, history, Goes
<1>8. CASE AtData
  <2>1. CASE Receive("reading") /\ ReadOn /\ UNCHANGED <<hide, down>>
    <3>1. call' \in Calls /\ call'.pc = call.pc /\ UNCHANGED <<call.whole, call.offset>>
      BY <2>1, ReadingOn DEF Same
    <3>. QED BY <1>0, <1>8, <2>1, <3>1 DEF AtData, handshake, Reads, history, Goes
  <2>2. CASE Receive("data") /\ Finish(<< >>) /\ UNCHANGED <<hide, down>>
    <3>1. call' \in Calls /\ call'.pc = "idle"
      BY <2>2, Finishing, EmptySeq DEF UnitSeq
    <3>. QED BY <1>0, <1>8, <2>2, <3>1 DEF AtData, handshake, Reads, history
  <2>. QED BY <1>0, <1>8, <2>1, <2>2 DEF AtData, handshake
<1>. QED BY <1>1, <1>2, <1>3, <1>4, <1>5, <1>6, <1>7, <1>8 DEF HostReads

\* What the host does that sends a packet.
Order(command, payload) == [command |-> command, payload |-> payload]
Sends(command, payload) ==
  /\ Order(command, payload) \in Orders /\ down' \in Seq(Orders)
  /\ Grown(down, down', Confusing(payload), Order("SIZE", payload), Order(command, payload))

LEMMA SendsStep ==
  ASSUME Typed, NEW command \in {"DB_DATA", "DB_FRAGMENTED", "JL_DATA", "JL_COMMAND"}, NEW payload \in UnitSeq,
         command \in Final => payload # << >>, RawSend(command, payload)
  PROVE  Sends(command, payload)
<1>1. Confusing(payload) \in BOOLEAN
  BY DEF Confusing
<1>2. Order(command, payload) \in Orders
  BY DEF Order, Orders
<1>3. Confusing(payload) => Order("SIZE", payload) \in Orders
  BY DEF Order, Orders, Confusing, Final
<1>4. PICK two \in BOOLEAN : two = Confusing(payload)
  BY <1>1
<1>5. PICK a : a = Order("SIZE", payload)
  OBVIOUS
<1>6. PICK b : b = Order(command, payload)
  OBVIOUS
<1>7. down' = down \o (IF two THEN <<a>> ELSE << >>) \o <<b>>
  BY <1>4, <1>5, <1>6 DEF RawSend, Packets, Order
<1>8. down' \in Seq(Orders) /\ Grown(down, down', two, a, b)
  BY <1>2, <1>3, <1>4, <1>5, <1>6, <1>7, Growing DEF Typed
<1>. QED BY <1>2, <1>4, <1>5, <1>6, <1>8 DEF Sends

\* The next part of the command, and how far it reaches.
Fragments ==
  /\ call.pc = "fragmenting" /\ UNCHANGED <<sequenceId, up, device, sent, executed, answers, skipped>>
  /\ call' \in Calls /\ UNCHANGED <<call.whole, call.receive, call.frag, call.trouble>>
  /\ \E payload \in UnitSeq, next \in Nat :
       /\ Len(payload) = next - call.offset /\ call.offset < next /\ next <= Len(call.whole)
       /\ \A k \in 1..Len(payload) : payload[k] = call.whole[call.offset + k]
       /\ \/ /\ Sends("DB_FRAGMENTED", payload) /\ call'.pc = "sending"
             /\ call'.offset = next /\ next < Len(call.whole)
          \/ Sends("DB_DATA", payload) /\ call'.pc = "reading" /\ hide' /\ next = Len(call.whole)
  /\ hide' \in BOOLEAN

LEMMA FragmentsStep ==
  ASSUME TInv, MakeNextFragment
  PROVE  Fragments
<1>0. /\ Typed /\ call \in Calls /\ call.whole \in Seq(Unit) /\ call.offset \in Nat /\ Len(call.whole) \in Nat
      /\ call.pc = "fragmenting" /\ call.offset < Len(call.whole) /\ Full \in Nat \ {0}
  BY FullAssumption DEF TInv, Typed, Called, Calls, MakeNextFragment, UnitSeq, Unit
<1>1. PICK todo \in Nat : todo = Len(call.whole) - call.offset
  BY <1>0
<1>2. PICK next \in Nat : next = NextOffset(todo)
  BY <1>0 DEF NextOffset
<1>3. PICK length \in Nat : length = IF next > 0 THEN Full ELSE todo
  BY <1>0
<1>4. PICK payload : payload = SubSeq(call.whole, call.offset + 1, call.offset + length)
  OBVIOUS
<1>5. /\ RawSend(IF next > 0 THEN "DB_FRAGMENTED" ELSE "DB_DATA", payload)
      /\ hide' = (next = 0)
      /\ call' = [call EXCEPT !.offset = next, !.pc = IF next > 0 THEN "sending" ELSE "reading"]
  BY <1>1, <1>2, <1>3, <1>4 DEF MakeNextFragment
<1>6. /\ next > 0 => todo > Full /\ next = call.offset + Full /\ length = Full
      /\ ~(next > 0) => next = 0 /\ length = todo
      /\ length > 0 /\ call.offset + length <= Len(call.whole)
      /\ next > 0 => next < Len(call.whole)
      /\ ~(next > 0) => call.offset + length = Len(call.whole)
  BY <1>0, <1>1, <1>2, <1>3 DEF NextOffset
<1>7. /\ payload \in Seq(Unit) /\ Len(payload) = length
      /\ \A k \in 1..length : payload[k] = call.whole[call.offset + k]
  <2>1. call.whole \in Seq(Unit) /\ call.offset \in Nat /\ call.offset + length <= Len(call.whole)
    BY <1>0, <1>6
  <2>2. payload = Part(call.whole, call.offset, length)
    BY <1>4 DEF Part
  <2>3. length \in Nat
    BY <1>3
  <2>4. PICK whole \in Seq(Unit) : whole = call.whole
    BY <2>1
  <2>5. PICK from \in Nat : from = call.offset
    BY <2>1
  <2>6. payload = Part(whole, from, length) /\ from + length <= Len(whole)
    BY <2>1, <2>2, <2>4, <2>5
  <2>7. payload \in Seq(Unit)
    BY <2>3, <2>6, Cutting
  <2>8. Len(payload) = length
    BY <2>3, <2>6, Cutting
  <2>9. \A k \in 1..length : payload[k] = whole[from + k]
    BY <2>3, <2>6, Cutting
  <2>. QED BY <2>4, <2>5, <2>7, <2>8, <2>9
<1>8. payload \in UnitSeq /\ payload # << >>
  BY <1>6, <1>7 DEF UnitSeq, Unit
<1>9. call' \in Calls /\ UNCHANGED <<call.whole, call.receive, call.frag, call.trouble>>
  BY <1>0, <1>5 DEF Calls
<1>10. UNCHANGED <<sequenceId, up, device, sent, executed, answers, skipped>>
  BY DEF MakeNextFragment, history
<1>11. CASE next > 0
  <2>1. Sends("DB_FRAGMENTED", payload)
    BY <1>0, <1>5, <1>8, <1>11, SendsStep
  <2>2. call'.pc = "sending" /\ call'.offset = next /\ hide' \in BOOLEAN
    BY <1>0, <1>5, <1>11 DEF Calls
  <2>3. Len(payload) = next - call.offset /\ call.offset < next /\ next <= Len(call.whole) /\ next < Len(call.whole)
    BY <1>0, <1>6, <1>7, <1>11
  <2>. QED BY <1>0, <1>7, <1>8, <1>9, <1>10, <2>1, <2>2, <2>3 DEF Fragments
<1>12. CASE ~(next > 0)
  <2>1. Sends("DB_DATA", payload)
    BY <1>0, <1>5, <1>8, <1>12, SendsStep
  <2>2. call'.pc = "reading" /\ hide'
    BY <1>0, <1>5, <1>6, <1>12 DEF Calls
  <2>3. Len(payload) = Len(call.whole) - call.offset
    BY <1>0, <1>6, <1>7, <1>12
  <2>. QED BY <1>0, <1>7, <1>8, <1>9, <1>10, <2>1, <2>2, <2>3 DEF Fragments
<1>. QED BY <1>11, <1>12

\* The data of a command that has announced them.
HostSends == command_answer \/ (handshake /\ call.pc = "command")
SendsOn ==
  /\ call.pc = "command" /\ up # << >> /\ up' = Tail(up)
  /\ Reply.command \notin {"BLANK", "JL_NOT_SUPPORTED"}
  /\ UNCHANGED <<device, sent, executed, answers, skipped>>
  /\ Sends("JL_DATA", call.whole)
  /\ call' \in Calls /\ call'.pc = "data" /\ Same /\ hide'
  /\ hide' \in BOOLEAN /\ sequenceId' \in Nat

LEMMA SendsOnStep ==
  ASSUME TInv, HostSends
  PROVE  SendsOn
<1>0. Typed /\ call \in Calls /\ 0 \in 0..(BlankLimit - 1)
  BY BoundsAssumption DEF TInv, Typed
<1>1. Receive("command") /\ SendData /\ Reply.command \notin {"BLANK", "JL_NOT_SUPPORTED"}
  BY DEF HostSends, command_answer, handshake, Receive, IsHandshake
<1>2. UNCHANGED <<device, sent, executed, answers, skipped>> /\ sequenceId' \in Nat
  BY <1>0 DEF HostSends, command_answer, handshake, Advance, history, Typed
<1>3. call' \in Calls /\ call'.pc = "data" /\ Same /\ hide'
  BY <1>0, <1>1 DEF SendData, Calls, Same
<1>4. call.whole # << >> /\ call.whole \in UnitSeq
  BY <1>0, <1>1 DEF TInv, Called, Receive, Calls
<1>5. Sends("JL_DATA", call.whole)
  BY <1>0, <1>1, <1>4, SendsStep DEF SendData
<1>6. hide' \in BOOLEAN
  BY <1>1 DEF SendData
<1>. QED BY <1>1, <1>2, <1>3, <1>5, <1>6 DEF SendsOn, Receive

\* A call begins: with the first packet, or with nothing sent.
Begins ==
  /\ call.pc = "idle" /\ UNCHANGED <<sequenceId, up, device, executed, answers, skipped>>
  /\ hide' \in BOOLEAN
  /\ call' \in Calls /\ call'.offset = 0 /\ call'.receive = << >> /\ ~call'.frag /\ call'.trouble = call.trouble
  /\ call'.whole # << >> /\ call'.whole = Units(Len(sent) + 1, Len(call'.whole))
  /\ Len(sent) + 1 <= MaxCalls /\ sent' = Append(sent, call'.whole)
  /\ \/ call'.pc = "reading" /\ Sends("DB_DATA", call'.whole) /\ UNCHANGED hide
     \/ call'.pc = "data" /\ Sends("JL_DATA", call'.whole) /\ UNCHANGED hide
     \/ call'.pc = "command" /\ Sends("JL_COMMAND", << >>)
     \/ call'.pc = "fragmenting" /\ UNCHANGED down

LEMMA BeginsStep ==
  ASSUME TInv, Call
  PROVE  Begins
<1>0. Typed /\ Len(sent) \in Nat /\ call \in Calls /\ NoCall \in Calls /\ hide \in BOOLEAN
  BY Idle DEF TInv, Typed
<1>1. ASSUME NEW length \in Nat \ {0}, NEW pc \in {"fragmenting", "reading", "command", "data"},
             Begin(Command(length), pc)
      PROVE  /\ call.pc = "idle" /\ UNCHANGED <<sequenceId, up, device, executed, answers, skipped>>
             /\ call' \in Calls /\ call'.offset = 0 /\ call'.receive = << >> /\ ~call'.frag
             /\ call'.trouble = call.trouble /\ call'.pc = pc
             /\ Command(length) \in UnitSeq /\ call'.whole = Command(length)
             /\ call'.whole # << >> /\ call'.whole = Units(Len(sent) + 1, Len(call'.whole))
             /\ Len(sent) + 1 <= MaxCalls /\ sent' = Append(sent, call'.whole)
  <2>1. /\ call.pc = "idle" /\ Len(sent) < MaxCalls /\ UNCHANGED <<sequenceId, up, device, executed, answers, skipped>>
        /\ sent' = Append(sent, Command(length))
        /\ call' = [NoCall EXCEPT !.pc = pc, !.whole = Command(length), !.trouble = call.trouble]
    BY <1>1 DEF Begin
  <2>2. Len(sent) + 1 \in 1..MaxCalls
    BY <1>0, <2>1, BoundsAssumption
  <2>3. /\ Command(length) \in UnitSeq /\ Len(Command(length)) = length
        /\ Command(length) = Units(Len(sent) + 1, length)
    BY <2>2, UnitsTyped DEF Command
  <2>4. Command(length) # << >>
    BY <2>3 DEF UnitSeq
  <2>5. call' \in Calls /\ call'.pc = pc /\ call'.whole = Command(length) /\ call'.trouble = call.trouble
    BY <1>0, <2>1, <2>3 DEF Calls
  <2>6. call'.offset = 0 /\ call'.receive = << >> /\ ~call'.frag
    BY <2>1 DEF NoCall
  <2>. QED BY <2>1, <2>2, <2>3, <2>4, <2>5, <2>6
<1>2. CASE \E length \in Lengths : Packet(length)
  <2>1. PICK length \in Nat \ {0} : Packet(length)
    BY <1>2, LengthsAssumption
  <2>2. CASE length <= Full
    <3>1. Begin(Command(length), "reading") /\ RawSend("DB_DATA", Command(length)) /\ UNCHANGED hide
      BY <2>1, <2>2 DEF Packet
    <3>2. Sends("DB_DATA", call'.whole)
      BY <1>0, <1>1, <3>1, SendsStep
    <3>. QED BY <1>0, <1>1, <3>1, <3>2 DEF Begins
  <2>3. CASE ~(length <= Full)
    <3>1. Begin(Command(length), "fragmenting") /\ hide' = FALSE /\ UNCHANGED down
      BY <2>1, <2>3 DEF Packet
    <3>. QED BY <1>0, <1>1, <3>1 DEF Begins
  <2>. QED BY <2>2, <2>3
<1>3. CASE JLCommand
  <2>1. Begin(Command(1), "data") /\ RawSend("JL_DATA", Command(1)) /\ UNCHANGED hide
    BY <1>3 DEF JLCommand
  <2>2. Sends("JL_DATA", call'.whole)
    BY <1>0, <1>1, <2>1, SendsStep
  <2>. QED BY <1>0, <1>1, <2>1, <2>2 DEF Begins
<1>4. CASE JLCommandWithData
  <2>1. Begin(Command(1), "command") /\ hide' = FALSE /\ RawSend("JL_COMMAND", << >>)
    BY <1>4 DEF JLCommandWithData
  <2>2. << >> \in UnitSeq
    BY EmptySeq DEF UnitSeq
  <2>3. Sends("JL_COMMAND", << >>)
    BY <1>0, <2>1, <2>2, SendsStep DEF Final
  <2>4. hide' \in BOOLEAN
    BY <2>1
  <2>. QED BY <1>0, <1>1, <2>1, <2>3, <2>4 DEF Begins
<1>. QED BY <1>2, <1>3, <1>4 DEF Call

-----------------------------------------------------------------------------
\* What the device does.
Takes == down # << >> /\ down' = Tail(down)
Shake == [command |-> "SEQUENCE_HANDSHAKE", id |-> device.id, payload |-> << >>]

TakesPart ==
  /\ Takes /\ Request.command \in {"DB_FRAGMENTED", "JL_COMMAND"}
  /\ UNCHANGED <<hide, sequenceId, call, sent, executed, answers, skipped>>
  /\ device' \in Devices /\ device'.id = device.id + 1 /\ device'.part = device.part \o Understood
  /\ device'.size = 0
  /\ up' \in Seq(Answers) /\ up' = Append(up, Shake) /\ Shake \in Answers

Piece(n, k) == <<<<n, k>>>>
Replying(n, answer, packets) ==
  \/ /\ Request.command = "DB_DATA" /\ Len(answer) = 0 /\ Len(packets) = 1
     /\ packets[1] = Message("DB_DONE", << >>)
  \/ /\ Request.command = "DB_DATA" /\ Len(answer) > 0 /\ Len(packets) = Len(answer)
     /\ \A i \in 1..Len(packets) :
          packets[i] = Message(IF i < Len(answer) THEN "DB_FRAGMENTED" ELSE "DB_DATA", Piece(n, i))
  \/ /\ Request.command = "JL_DATA" /\ Len(answer) = 1 /\ Len(packets) = 1
     /\ packets[1] = Message("JL_ACK", Piece(n, 1))
  \/ /\ Request.command = "JL_DATA" /\ Len(answer) = 0 /\ Len(packets) = 1
     /\ packets[1] = Message("JL_NOT_SUPPORTED", << >>)

Completes(n, answer, packets) ==
  /\ Takes /\ Request.command \in Final /\ UNCHANGED <<hide, sequenceId, call, sent, skipped>>
  /\ executed' = Append(executed, device.part \o Understood) /\ device.part \o Understood \in UnitSeq
  /\ answers' = Append(answers, answer)
  /\ answer \in UnitSeq /\ answer = Units(Len(answers) + 1, Len(answer))
  /\ device' \in Devices /\ device'.id = device.id + n /\ device'.part = << >> /\ device'.size = 0
  /\ packets \in Seq(Answers) /\ Replying(Len(answers) + 1, answer, packets)
  /\ up' = up \o (IF n = 1 THEN Handshake ELSE << >>) \o packets
  /\ n = 1 => Shake \in Answers

LEMMA RequestsTyped ==
  ASSUME Typed, down # << >>
  PROVE  /\ Request \in Orders /\ Request = down[1] /\ Len(down) \in Nat \ {0}
         /\ Understood \in UnitSeq /\ device.part \o Understood \in UnitSeq
         /\ Tail(down) \in Seq(Orders)
<1>1. Request \in Orders /\ Request = down[1] /\ Len(down) \in Nat \ {0} /\ Tail(down) \in Seq(Orders)
  BY Taking DEF Typed, Request
<1>2. Request.payload \in UnitSeq /\ << >> \in UnitSeq
  BY <1>1, EmptySeq DEF Orders, UnitSeq
<1>3. Understood \in UnitSeq
  BY <1>2 DEF Understood
<1>4. device.part \in UnitSeq
  BY DEF Typed, Devices
<1>5. device.part \o Understood \in UnitSeq
  BY <1>3, <1>4, Joining DEF UnitSeq
<1>. QED BY <1>1, <1>3, <1>5

LEMMA TakesPartStep ==
  ASSUME Typed, take_part
  PROVE  TakesPart
<1>1. Takes /\ Request.command \in {"DB_FRAGMENTED", "JL_COMMAND"}
  BY DEF take_part, Take, Takes
<1>2. device \in Devices /\ device.part \o Understood \in UnitSeq
  BY <1>1, RequestsTyped DEF Takes, Typed
<1>3. device' = [id |-> device.id + 1, part |-> device.part \o Understood, size |-> 0]
  BY DEF take_part
<1>4. device.id + 1 \in Nat
  BY <1>2 DEF Devices
<1>5. device' \in Devices /\ device'.id = device.id + 1 /\ device'.part = device.part \o Understood /\ device'.size = 0
  BY <1>2, <1>3, <1>4 DEF Devices
<1>6. Shake \in Answers
  BY <1>2, EmptySeq DEF Shake, Answers, Devices, Noise, UnitSeq
<1>7. up' = Append(up, Shake)
  BY <1>6, AppendIsConcat DEF take_part, Handshake, Shake, Typed
<1>8. up' \in Seq(Answers)
  BY <1>6, <1>7, Adding DEF Typed
<1>9. UNCHANGED <<hide, sequenceId, call, sent, executed, answers, skipped>>
  BY DEF take_part, history
<1>. QED BY <1>1, <1>5, <1>6, <1>7, <1>8, <1>9 DEF TakesPart

LEMMA Answering ==
  ASSUME Typed, Takes, Request.command \in Final, UNCHANGED hide,
         NEW packets \in Seq(Answers), NEW answer \in UnitSeq, Answer(packets, answer),
         answer = Units(Len(answers) + 1, Len(answer)), Replying(Len(answers) + 1, answer, packets)
  PROVE  \E n \in {0, 1} : Completes(n, answer, packets)
<1>1. PICK n \in {0, 1} : /\ up' = up \o (IF n = 1 THEN Handshake ELSE << >>) \o packets
                          /\ device' = [id |-> device.id + n, part |-> << >>, size |-> 0]
  BY DEF Answer
<1>2. device.id + n \in Nat /\ << >> \in UnitSeq
  BY <1>1, EmptySeq DEF Typed, Devices, UnitSeq
<1>3. device' \in Devices /\ device'.id = device.id + n /\ device'.part = << >> /\ device'.size = 0
  BY <1>1, <1>2 DEF Devices
<1>4. Shake \in Answers
  BY <1>2 DEF Shake, Answers, Devices, Noise, Typed
<1>5. device.part \o Understood \in UnitSeq
  BY RequestsTyped DEF Takes
<1>6. /\ executed' = Append(executed, device.part \o Understood) /\ answers' = Append(answers, answer)
      /\ UNCHANGED <<hide, sequenceId, call, sent, skipped>>
  BY DEF Answer
<1>7. Completes(n, answer, packets)
  BY <1>1, <1>3, <1>4, <1>5, <1>6 DEF Completes
<1>. QED BY <1>1, <1>7

LEMMA CompletesStep ==
  ASSUME TInv, answer_database \/ answer_loader
  PROVE  \E n \in {0, 1}, answer \in UnitSeq, packets \in Seq(Answers) : Completes(n, answer, packets)
<1>0. Typed /\ Takes /\ Request.command \in Final
  BY DEF TInv, answer_database, answer_loader, Take, Takes, Final
<1>1. PICK n \in Nat : n = Len(answers) + 1
  BY <1>0 DEF Typed
<1>2. n \in 1..MaxCalls /\ UNCHANGED hide
  <2>1. UNCHANGED hide
    BY DEF answer_database, answer_loader, Answer
  <2>2. Len(sent) \in Nat /\ Len(answers) \in Nat
    BY <1>0 DEF Typed
  <2>3. Len(answers) + 1 \in Nat /\ Reached \in Int /\ Reached <= Len(sent) /\ Len(sent) <= MaxCalls
    BY <2>2 DEF TInv, Counted, Reached
  <2>4. down \in Seq(Orders) /\ down # << >> /\ Rising(down, Len(answers) + 1, Reached)
    BY <1>0 DEF TInv, Counted, Typed, Takes
  <2>5. Len(answers) + 1 <= Reached
    BY <1>0, <2>3, <2>4, RisingTail DEF Request
  <2>. QED BY <1>1, <2>1, <2>2, <2>3, <2>5, BoundsAssumption
<1>3. /\ << >> \in UnitSeq /\ Len(<< >>) = 0 /\ << >> = Units(n, 0)
      /\ \A k \in Nat : Piece(n, k) \in UnitSeq
  <2>1. << >> \in UnitSeq /\ Len(<< >>) = 0
    BY EmptySeq DEF UnitSeq
  <2>2. Units(n, 0) \in UnitSeq /\ Len(Units(n, 0)) = 0
    BY <1>2, UnitsTyped
  <2>3. << >> = Units(n, 0)
    BY <2>2, EmptySeq DEF UnitSeq
  <2>4. ASSUME NEW k \in Nat PROVE Piece(n, k) \in UnitSeq
    <3>1. <<n, k>> \in Unit
      BY <1>2 DEF Unit
    <3>2. <<<<n, k>>>> \in Seq(Unit)
      BY <3>1
    <3>. QED BY <3>2 DEF Piece, UnitSeq, Unit
  <2>. QED BY <2>1, <2>3, <2>4
<1>4. ASSUME NEW command \in Noise \cup Pieces \cup Ends, NEW payload \in UnitSeq
      PROVE  Message(command, payload) \in Answers
  BY DEF Message, Answers
<1>5. ASSUME NEW message \in Answers
      PROVE  <<message>> \in Seq(Answers) /\ Len(<<message>>) = 1 /\ <<message>>[1] = message
  OBVIOUS
<1>6. ASSUME NEW command \in {"DB_DONE", "JL_NOT_SUPPORTED"}, Answer(<<Message(command, << >>)>>, << >>),
             Request.command = IF command = "DB_DONE" THEN "DB_DATA" ELSE "JL_DATA"
      PROVE  \E m \in {0, 1}, answer \in UnitSeq, packets \in Seq(Answers) : Completes(m, answer, packets)
  <2>1. PICK message \in Answers : message = Message(command, << >>)
    BY <1>3, <1>4 DEF Ends
  <2>2. PICK packets \in Seq(Answers) : packets = <<message>>
    BY <1>5
  <2>3. Len(packets) = 1 /\ packets[1] = Message(command, << >>)
    BY <1>5, <2>1, <2>2
  <2>4. Replying(Len(answers) + 1, << >>, packets)
    BY <1>3, <1>6, <2>3 DEF Replying
  <2>5. << >> = Units(Len(answers) + 1, Len(<< >>))
    BY <1>1, <1>3
  <2>6. Answer(packets, << >>)
    BY <1>6, <2>1, <2>2
  <2>. QED BY <1>0, <1>2, <1>3, <2>4, <2>5, <2>6, Answering
<1>7. ASSUME NEW length \in Nat, length > 0, NEW answer, answer = Units(n, length), NEW packets \in Seq(Answers),
             Answer(packets, answer), Replying(n, answer, packets)
      PROVE  \E m \in {0, 1}, a \in UnitSeq, p \in Seq(Answers) : Completes(m, a, p)
  <2>1. answer \in UnitSeq /\ answer = Units(Len(answers) + 1, Len(answer))
    BY <1>1, <1>2, <1>7, UnitsTyped
  <2>2. Replying(Len(answers) + 1, answer, packets)
    BY <1>1, <1>7
  <2>. QED BY <1>0, <1>2, <1>7, <2>1, <2>2, Answering
<1>8. ASSUME NEW length \in 1..MaxAnswer, answer_database,
             Answer([i \in 1..length |-> Message(IF i < length THEN "DB_FRAGMENTED" ELSE "DB_DATA",
                                                 <<Units(n, length)[i]>>)], Units(n, length))
      PROVE  \E m \in {0, 1}, a \in UnitSeq, p \in Seq(Answers) : Completes(m, a, p)
  <2>1. length \in Nat /\ length > 0 /\ Request.command = "DB_DATA"
    BY <1>8, BoundsAssumption DEF answer_database, Take
  <2>2. PICK answer \in UnitSeq : /\ answer = Units(n, length) /\ Len(answer) = length
                                  /\ \A i \in 1..length : answer[i] = <<n, i>>
    BY <1>2, <2>1, UnitsTyped
  <2>3. PICK packets : packets = [i \in 1..length |-> Message(IF i < length THEN "DB_FRAGMENTED" ELSE "DB_DATA",
                                                              <<answer[i]>>)]
    OBVIOUS
  <2>4. \A i \in 1..length :
          packets[i] = Message(IF i < length THEN "DB_FRAGMENTED" ELSE "DB_DATA", Piece(n, i))
    BY <2>2, <2>3 DEF Piece
  <2>5. \A i \in 1..length : packets[i] \in Answers
    BY <1>3, <1>4, <2>1, <2>4 DEF Pieces
  <2>6. packets \in Seq(Answers) /\ Len(packets) = length
    BY <2>1, <2>3, <2>5
  <2>7. Replying(n, answer, packets)
    BY <2>1, <2>2, <2>4, <2>6 DEF Replying
  <2>8. Answer(packets, answer)
    BY <1>8, <2>2, <2>3
  <2>. QED BY <1>7, <2>1, <2>2, <2>6, <2>7, <2>8
<1>9. ASSUME answer_loader, Answer(<<Message("JL_ACK", Units(n, 1))>>, Units(n, 1))
      PROVE  \E m \in {0, 1}, a \in UnitSeq, p \in Seq(Answers) : Completes(m, a, p)
  <2>0. Units(n, 1) \in UnitSeq /\ Len(Units(n, 1)) = 1 /\ \A i \in 1..1 : Units(n, 1)[i] = <<n, i>>
    <3>1. 1 \in Nat
      OBVIOUS
    <3>. QED BY <1>2, <3>1, UnitsTyped
  <2>1. PICK answer \in UnitSeq : answer = Units(n, 1) /\ Len(answer) = 1 /\ answer[1] = <<n, 1>>
    BY <2>0
  <2>2. answer = Piece(n, 1)
    <3>1. Piece(n, 1) \in UnitSeq /\ Len(Piece(n, 1)) = 1 /\ Piece(n, 1)[1] = <<n, 1>>
      BY <1>3 DEF Piece
    <3>2. \A i \in 1..1 : answer[i] = Piece(n, 1)[i]
      BY <2>1, <3>1
    <3>. QED BY <2>1, <3>1, <3>2, SeqEqual DEF UnitSeq
  <2>3. PICK packets \in Seq(Answers) : packets = <<Message("JL_ACK", answer)>> /\ Len(packets) = 1
                                        /\ packets[1] = Message("JL_ACK", Piece(n, 1))
    BY <1>4, <1>5, <2>1, <2>2 DEF Ends
  <2>4. Replying(n, answer, packets)
    BY <1>9, <2>1, <2>3 DEF Replying, answer_loader, Take
  <2>5. Answer(packets, answer)
    BY <1>9, <2>1, <2>3
  <2>. QED BY <1>7, <2>1, <2>4, <2>5
<1>10. CASE answer_database
  <2>1. \/ Answer(<<Message("DB_DONE", << >>)>>, << >>)
        \/ \E length \in 1..MaxAnswer :
             Answer([i \in 1..length |-> Message(IF i < length THEN "DB_FRAGMENTED" ELSE "DB_DATA",
                                                 <<Units(n, length)[i]>>)], Units(n, length))
    BY <1>1, <1>10 DEF answer_database
  <2>2. Request.command = "DB_DATA"
    BY <1>10 DEF answer_database, Take
  <2>. QED BY <1>6, <1>8, <1>10, <2>1, <2>2
<1>11. CASE answer_loader
  <2>1. \/ Answer(<<Message("JL_ACK", Units(n, 1))>>, Units(n, 1))
        \/ Answer(<<Message("JL_NOT_SUPPORTED", << >>)>>, << >>)
    BY <1>1, <1>11 DEF answer_loader
  <2>2. Request.command = "JL_DATA"
    BY <1>11 DEF answer_loader, Take
  <2>. QED BY <1>6, <1>9, <1>11, <2>1, <2>2
<1>. QED BY <1>10, <1>11

\* The answer of the device at the end of the wire.
LEMMA Arriving ==
  ASSUME Typed, NEW n \in {0, 1}, NEW answer \in UnitSeq, NEW packets \in Seq(Answers), Completes(n, answer, packets)
  PROVE  /\ up' \in Seq(Answers) /\ Len(up') = Len(up) + n + Len(packets) /\ Len(packets) \in Nat \ {0}
         /\ Len(up) \in Nat
         /\ \A i \in 1..Len(up) : up'[i] = up[i]
         /\ n = 1 => up'[Len(up) + 1] = Shake
         /\ \A i \in 1..Len(packets) : up'[Len(up) + n + i] = packets[i]
<1>1. Len(packets) \in Nat \ {0} /\ up \in Seq(Answers) /\ Len(up) \in Nat
  <2>1. Len(packets) \in Nat /\ Len(answer) \in Nat /\ up \in Seq(Answers) /\ Len(up) \in Nat
    BY DEF Typed, UnitSeq
  <2>2. Len(packets) > 0
    BY <2>1 DEF Completes, Replying
  <2>. QED BY <2>1, <2>2
<1>2. CASE n = 1
  <2>0. Shake \in Answers
    BY <1>2 DEF Completes
  <2>a. <<Shake>> \in Seq(Answers) /\ Len(<<Shake>>) = 1 /\ <<Shake>>[1] = Shake
    BY <2>0
  <2>1. PICK one \in Seq(Answers) : one = <<Shake>> /\ Len(one) = 1 /\ one[1] = Shake
    BY <2>a
  <2>2. up' = (up \o one) \o packets
    BY <1>2, <2>1 DEF Completes, Handshake, Shake
  <2>3. /\ up \o one \in Seq(Answers) /\ Len(up \o one) = Len(up) + 1
        /\ \A i \in 1..Len(up) : (up \o one)[i] = up[i]
        /\ (up \o one)[Len(up) + 1] = Shake
    BY <1>1, <2>1, Joining
  <2>b. PICK longer \in Seq(Answers) : longer = up \o one
    BY <2>3
  <2>c. /\ up' \in Seq(Answers) /\ Len(up') = Len(longer) + Len(packets)
        /\ \A i \in 1..Len(longer) : up'[i] = longer[i]
        /\ \A i \in 1..Len(packets) : up'[Len(longer) + i] = packets[i]
    BY <2>2, <2>b, Joining
  <2>4. /\ up' \in Seq(Answers) /\ Len(up') = Len(up) + 1 + Len(packets)
        /\ \A i \in 1..Len(up) + 1 : up'[i] = (up \o one)[i]
        /\ \A i \in 1..Len(packets) : up'[Len(up) + 1 + i] = packets[i]
    BY <2>3, <2>b, <2>c
  <2>5. Len(up) + 1 \in 1..Len(up) + 1 /\ \A i \in 1..Len(up) : i \in 1..Len(up) + 1
    BY <1>1
  <2>. QED BY <1>1, <1>2, <2>3, <2>4, <2>5
<1>3. CASE n = 0
  <2>1. up' = up \o packets
    BY <1>1, <1>3, ConcatEmptySeq DEF Completes
  <2>2. /\ up' \in Seq(Answers) /\ Len(up') = Len(up) + Len(packets)
        /\ \A i \in 1..Len(up) : up'[i] = up[i]
        /\ \A i \in 1..Len(packets) : up'[Len(up) + i] = packets[i]
    BY <1>1, <2>1, Joining
  <2>3. \A i \in 1..Len(packets) : Len(up) + 0 + i = Len(up) + i
    BY <1>1
  <2>. QED BY <1>1, <1>3, <2>2, <2>3
<1>. QED BY <1>2, <1>3

-----------------------------------------------------------------------------
LEMMA TypeInit == Init => TInv
<1> SUFFICES ASSUME Init PROVE TInv
  OBVIOUS
<1>1. << >> \in UnitSeq /\ 0 \in Nat
  BY EmptySeq DEF UnitSeq
<1>2. down \in Seq(Orders) /\ up \in Seq(Answers) /\ Len(down) = 0
  BY DEF Init
<1>3. sent \in Seq(UnitSeq) /\ executed \in Seq(UnitSeq) /\ answers \in Seq(UnitSeq) /\ Len(sent) = 0 /\ Len(answers) = 0
  BY DEF Init
<1>4. call \in Calls /\ call.pc = "idle"
  BY Idle DEF Init, NoCall
<1>5. device \in Devices
  BY <1>1 DEF Init, Devices
<1>6. Typed
  BY <1>2, <1>3, <1>4, <1>5 DEF Init, Typed
<1>7. Called /\ Counted
  BY <1>2, <1>3, <1>4, BoundsAssumption DEF Called, Counted, Reached, Sending, Rising
<1>. QED BY <1>6, <1>7 DEF TInv

LEMMA TypeReads == ASSUME TInv, Reads PROVE TInv'
<1>1. Typed /\ up' \in Seq(Answers)
  BY Taking DEF TInv, Typed, Reads
<1>2. Typed'
  BY <1>1 DEF Typed, Reads
<1>3. Called'
  BY DEF TInv, Called, Reads, Goes
<1>4. Counted'
  <2>1. Len(sent) \in Nat /\ down \in Seq(Orders) /\ Len(answers) \in Nat
    BY <1>1 DEF Typed
  <2>2. Reached \in Int /\ Reached' \in Int /\ Reached <= Reached' /\ Len(answers) + 1 \in Nat
    BY <2>1 DEF Reached, Reads, Goes, Sending
  <2>3. Rising(down, Len(answers) + 1, Reached')
    BY <2>2, RisingWider DEF TInv, Counted
  <2>. QED BY <2>1, <2>2, <2>3 DEF TInv, Counted, Reads
<1>. QED BY <1>2, <1>3, <1>4 DEF TInv

\* The packet that makes a command whole has its number.
LEMMA FirstUnit ==
  ASSUME Typed, Called, call.pc # "idle", NEW offset \in Nat, offset < Len(call.whole),
         NEW payload \in UnitSeq, payload # << >>, \A k \in 1..Len(payload) : payload[k] = call.whole[offset + k]
  PROVE  payload[1][1] = Len(sent)
<1>1. PICK length \in Nat : length = Len(call.whole)
  BY DEF Typed, Calls, UnitSeq
<1>2. call.whole = Units(Len(sent), length)
  BY <1>1 DEF Called
<1>3. offset + 1 \in 1..length
  BY <1>1
<1>4. call.whole[offset + 1] = <<Len(sent), offset + 1>>
  BY <1>2, <1>3 DEF Units
<1>5. 1 \in 1..Len(payload)
  BY EmptySeq DEF UnitSeq
<1>. QED BY <1>4, <1>5

\* A packet is sent in the call that is in progress afterwards.
LEMMA TypeSends ==
  ASSUME TInv, Typed', Called', UNCHANGED answers,
         NEW command \in {"DB_DATA", "DB_FRAGMENTED", "JL_DATA", "JL_COMMAND"}, NEW payload \in UnitSeq,
         Sends(command, payload), Reached' \in {Reached, Reached + 1},
         command \in Final => Number(Order(command, payload)) = Reached' /\ Reached' = Reached + 1,
         Len(sent') <= MaxCalls
  PROVE  TInv'
<1>1. /\ Len(answers) \in Nat /\ Len(sent) \in Nat /\ Reached \in Int /\ Len(answers) <= Reached
      /\ down \in Seq(Orders) /\ down' \in Seq(Orders) /\ Confusing(payload) \in BOOLEAN
      /\ Rising(down, Len(answers) + 1, Reached)
      /\ Order(command, payload) \in Orders
      /\ Confusing(payload) => Order("SIZE", payload).command = "SIZE"
  BY DEF TInv, Typed, Counted, Reached, Sends, Confusing, Order
<1>2. PICK high \in Nat : high = Reached + 1
  BY <1>1
<1>3. PICK low \in Nat : low = Len(answers) + 1
  BY <1>1
<1>4. Rising(down', low, high) /\ (command \notin Final => Rising(down', low, Reached))
  <2>1. ASSUME command \in Final
        PROVE  Rising(down', low, high)
    <3>1. Number(Order(command, payload)) = high /\ low <= high /\ Rising(down, low, high - 1)
      BY <1>1, <1>2, <1>3, <2>1
    <3>. QED BY <1>1, <3>1, RisingGrown DEF Sends
  <2>2. ASSUME command \notin Final
        PROVE  Rising(down', low, Reached)
    <3>1. Order(command, payload).command \notin Final /\ "SIZE" \notin Final
      BY <2>2 DEF Order, Final
    <3>2. ASSUME NEW i \in 1..Len(down'), down'[i].command \in Final
          PROVE  i \in 1..Len(down) /\ down'[i] = down[i]
      <4>1. Len(down) \in Nat /\ Len(down') \in Nat
        BY <1>1
      <4>2. CASE Confusing(payload)
        <5>1. /\ Len(down') = Len(down) + 2 /\ down'[Len(down) + 1].command \notin Final
              /\ down'[Len(down')].command \notin Final
          BY <1>1, <3>1, <4>2 DEF Sends, Grown
        <5>2. i \in 1..Len(down)
          BY <3>2, <4>1, <5>1
        <5>. QED BY <5>2 DEF Sends, Grown
      <4>3. CASE ~Confusing(payload)
        <5>1. Len(down') = Len(down) + 1 /\ down'[Len(down')].command \notin Final
          BY <3>1, <4>3 DEF Sends, Grown
        <5>2. i \in 1..Len(down)
          BY <3>2, <4>1, <5>1
        <5>. QED BY <5>2 DEF Sends, Grown
      <4>. QED BY <4>2, <4>3
    <3>. QED BY <1>1, <1>3, <3>2 DEF Rising
  <2>3. Rising(down', low, Reached) => Rising(down', low, high)
    BY <1>1, <1>2, RisingWider
  <2>. QED BY <2>1, <2>2, <2>3
<1>5. Rising(down', low, Reached')
  <2>1. CASE command \in Final
    BY <1>2, <1>4, <2>1
  <2>2. CASE command \notin Final
    BY <1>2, <1>4, <2>2
  <2>. QED BY <2>1, <2>2
<1>6. Len(answers') <= Reached'
  BY <1>1
<1>7. Counted'
  BY <1>3, <1>5, <1>6 DEF Counted
<1>. QED BY <1>7 DEF TInv

LEMMA TypeFragments == ASSUME TInv, Fragments PROVE TInv'
<1>0. /\ Typed /\ Called /\ Len(sent) \in Nat /\ Len(sent) <= MaxCalls /\ UNCHANGED answers
      /\ call.offset \in Nat
  BY DEF TInv, Typed, Counted, Fragments, Calls
<1>1. PICK payload \in UnitSeq, next \in Nat :
        /\ Len(payload) = next - call.offset /\ call.offset < next /\ next <= Len(call.whole)
        /\ \A k \in 1..Len(payload) : payload[k] = call.whole[call.offset + k]
        /\ \/ /\ Sends("DB_FRAGMENTED", payload) /\ call'.pc = "sending"
              /\ call'.offset = next /\ next < Len(call.whole)
           \/ Sends("DB_DATA", payload) /\ call'.pc = "reading" /\ hide' /\ next = Len(call.whole)
  BY DEF Fragments
<1>2. Typed'
  BY <1>0, <1>1 DEF Typed, Fragments, Sends
<1>3. Called'
  BY <1>0, <1>1 DEF Called, Fragments
<1>4. Reached = Len(sent) - 1
  BY DEF Fragments, Reached, Sending
<1>5. CASE Sends("DB_FRAGMENTED", payload) /\ call'.pc = "sending"
  <2>1. Reached' = Reached /\ "DB_FRAGMENTED" \notin Final /\ Len(sent') <= MaxCalls
    BY <1>0, <1>4, <1>5 DEF Fragments, Reached, Sending, Final
  <2>. QED BY <1>0, <1>2, <1>3, <1>5, <2>1, TypeSends
<1>6. CASE Sends("DB_DATA", payload) /\ call'.pc = "reading"
  <2>1. Reached' = Len(sent) /\ Reached' = Reached + 1 /\ Len(sent') <= MaxCalls
    BY <1>0, <1>4, <1>6 DEF Fragments, Reached, Sending
  <2>2. payload # << >> /\ call.offset < Len(call.whole) /\ call.pc # "idle"
    <3>1. Len(payload) > 0
      BY <1>0, <1>1
    <3>. QED BY <3>1, EmptySeq DEF UnitSeq, TInv, Called, Fragments
  <2>3. payload[1][1] = Len(sent)
    BY <1>0, <1>1, <2>2, FirstUnit
  <2>4. Number(Order("DB_DATA", payload)) = Reached'
    BY <2>1, <2>3 DEF Number, Order
  <2>. QED BY <1>0, <1>2, <1>3, <1>6, <2>1, <2>4, TypeSends
<1>. QED BY <1>1, <1>5, <1>6

LEMMA TypeSendsOn == ASSUME TInv, SendsOn PROVE TInv'
<1>0. /\ Typed /\ Called /\ Len(sent) \in Nat /\ Len(sent) <= MaxCalls /\ UNCHANGED answers
      /\ call.whole \in UnitSeq /\ call.pc # "idle" /\ call.whole # << >>
  BY DEF TInv, Typed, Counted, Called, SendsOn, Calls
<1>1. up' \in Seq(Answers)
  BY <1>0, Taking DEF SendsOn, Typed
<1>2. Typed'
  BY <1>0, <1>1 DEF Typed, SendsOn, Sends
<1>3. Called'
  BY <1>0 DEF Called, SendsOn, Same
<1>4. Reached = Len(sent) - 1 /\ Reached' = Len(sent) /\ Reached' = Reached + 1 /\ Len(sent') <= MaxCalls
  BY <1>0 DEF SendsOn, Reached, Sending
<1>5. call.whole[1][1] = Len(sent)
  <2>1. Len(call.whole) \in Nat /\ Len(call.whole) # 0
    BY <1>0, EmptySeq DEF UnitSeq
  <2>2. 0 \in Nat /\ 0 < Len(call.whole) /\ \A k \in 1..Len(call.whole) : call.whole[k] = call.whole[0 + k]
    BY <2>1
  <2>. QED BY <1>0, <2>2, FirstUnit
<1>6. Number(Order("JL_DATA", call.whole)) = Reached'
  BY <1>4, <1>5 DEF Number, Order
<1>7. Sends("JL_DATA", call.whole)
  BY DEF SendsOn
<1>. QED BY <1>0, <1>2, <1>3, <1>4, <1>6, <1>7, TypeSends

LEMMA TypeBegins == ASSUME TInv, Begins PROVE TInv'
<1>0. /\ Typed /\ Len(sent) \in Nat /\ Len(answers) \in Nat /\ UNCHANGED answers
      /\ call'.whole \in UnitSeq /\ call'.whole # << >> /\ << >> \in UnitSeq
  BY EmptySeq DEF TInv, Typed, Begins, Calls, UnitSeq
<1>1. sent' \in Seq(UnitSeq) /\ Len(sent') = Len(sent) + 1 /\ Len(sent') <= MaxCalls
  BY <1>0, Adding DEF Begins, Typed
<1>2. Typed'
  <2>1. down' \in Seq(Orders)
    BY <1>0 DEF Begins, Sends, Typed
  <2>. QED BY <1>0, <1>1, <2>1 DEF Begins, Typed
<1>3. Called'
  <2>1. call'.whole = Units(Len(sent'), Len(call'.whole))
    BY <1>1 DEF Begins
  <2>2. Len(call'.whole) \in Nat \ {0}
    BY <1>0, EmptySeq DEF UnitSeq
  <2>3. call'.offset < Len(call'.whole)
    BY <2>2 DEF Begins
  <2>. QED BY <1>0, <2>1, <2>3 DEF Called
<1>4. Reached = Len(sent)
  BY DEF Begins, Reached, Sending
<1>5. ASSUME NEW command \in {"DB_DATA", "JL_DATA"}, NEW pc \in {"reading", "data"}, call'.pc = pc,
             Sends(command, call'.whole)
      PROVE  TInv'
  <2>1. Reached' = Reached + 1 /\ Reached' = Len(sent')
    BY <1>0, <1>1, <1>4, <1>5 DEF Reached, Sending
  <2>2. PICK whole \in UnitSeq : whole = call'.whole /\ whole # << >> /\ whole = Units(Len(sent'), Len(whole))
    BY <1>0, <1>1 DEF Begins
  <2>3. 1 \in 1..Len(whole)
    BY <2>2, EmptySeq DEF UnitSeq
  <2>4. whole[1] = <<Len(sent'), 1>>
    BY <2>2, <2>3 DEF Units
  <2>5. Number(Order(command, whole)) = Reached'
    BY <2>1, <2>4 DEF Number, Order
  <2>6. Sends(command, whole)
    BY <1>5, <2>2
  <2>. QED BY <1>0, <1>1, <1>2, <1>3, <1>5, <2>1, <2>5, <2>6, TypeSends
<1>6. CASE call'.pc = "command" /\ Sends("JL_COMMAND", << >>)
  <2>1. Reached' = Reached /\ "JL_COMMAND" \notin Final
    BY <1>0, <1>1, <1>4, <1>6 DEF Reached, Sending, Final
  <2>. QED BY <1>0, <1>1, <1>2, <1>3, <1>6, <2>1, TypeSends
<1>7. CASE call'.pc = "fragmenting" /\ UNCHANGED down
  <2>1. Reached' = Reached
    BY <1>0, <1>1, <1>4, <1>7 DEF Reached, Sending
  <2>2. Counted'
    BY <1>0, <1>1, <1>7, <2>1 DEF TInv, Counted
  <2>. QED BY <1>2, <1>3, <2>2 DEF TInv
<1>. QED BY <1>5, <1>6, <1>7 DEF Begins

\* The device takes a packet that makes nothing whole.
LEMMA TypeDown ==
  ASSUME TInv, Takes, device' \in Devices, up' \in Seq(Answers),
         UNCHANGED <<hide, sequenceId, call, sent, executed, answers, skipped>>
  PROVE  TInv'
<1>0. Typed /\ Tail(down) \in Seq(Orders) /\ Len(answers) \in Nat /\ Len(sent) \in Nat /\ Reached \in Int
      /\ down \in Seq(Orders) /\ down # << >>
  BY RequestsTyped DEF TInv, Typed, Takes, Reached
<1>1. Typed'
  BY <1>0 DEF Typed, Takes
<1>2. Called'
  BY DEF TInv, Called
<1>3. Rising(Tail(down), Len(answers) + 1, Reached)
  <2>1. Len(answers) + 1 \in Nat
    BY <1>0
  <2>. QED BY <1>0, <2>1, RisingTail DEF TInv, Counted
<1>4. Counted'
  BY <1>3 DEF TInv, Counted, Takes, Reached
<1>. QED BY <1>1, <1>2, <1>4 DEF TInv

LEMMA TypeCompletes ==
  ASSUME TInv, NEW n \in {0, 1}, NEW answer \in UnitSeq, NEW packets \in Seq(Answers), Completes(n, answer, packets)
  PROVE  TInv'
<1>0. /\ Typed /\ Takes /\ Request.command \in Final /\ Tail(down) \in Seq(Orders)
      /\ Len(answers) \in Nat /\ Len(sent) \in Nat /\ Reached \in Int /\ down \in Seq(Orders) /\ down # << >>
  BY RequestsTyped DEF TInv, Typed, Takes, Reached, Completes
<1>1. up' \in Seq(Answers)
  BY <1>0, Arriving
<1>2. /\ answers' \in Seq(UnitSeq) /\ Len(answers') = Len(answers) + 1
      /\ executed' \in Seq(UnitSeq)
  BY <1>0, Adding DEF Completes, Typed
<1>3. Typed'
  BY <1>0, <1>1, <1>2 DEF Typed, Takes, Completes
<1>4. Called'
  BY DEF TInv, Called, Completes
<1>5. Rising(Tail(down), (Len(answers) + 1) + 1, Reached) /\ Len(answers) + 1 <= Reached
  <2>1. Len(answers) + 1 \in Nat
    BY <1>0
  <2>. QED BY <1>0, <2>1, RisingTail DEF TInv, Counted, Request
<1>6. Reached' = Reached /\ UNCHANGED sent
  BY DEF Reached, Completes
<1>7. Counted'
  BY <1>0, <1>2, <1>5, <1>6 DEF TInv, Counted, Takes
<1>. QED BY <1>3, <1>4, <1>7 DEF TInv

LEMMA TypeOthers == ASSUME TInv, timeout \/ take_size \/ send_blank PROVE TInv'
<1>0. Typed /\ call \in Calls
  BY DEF TInv, Typed
<1>1. CASE timeout
  <2>1. call' \in Calls /\ call'.pc = "idle" /\ UNCHANGED <<hide, sequenceId, down, up, device, sent, executed, answers, skipped>>
    BY <1>0, <1>1, Throwing DEF timeout, Troubles, wires, history
  <2>2. Typed' /\ Called'
    BY <1>0, <2>1 DEF Typed, Called
  <2>3. Len(sent) \in Nat /\ Reached \in Int /\ Reached' = Len(sent) /\ Reached <= Reached' /\ Len(answers) + 1 \in Nat
    BY <1>0, <2>1 DEF Typed, Reached, Sending
  <2>4. Rising(down, Len(answers) + 1, Reached')
    BY <2>3, RisingWider DEF TInv, Counted
  <2>5. Counted'
    BY <1>0, <2>1, <2>3, <2>4 DEF TInv, Counted, Typed
  <2>. QED BY <2>2, <2>5 DEF TInv
<1>2. CASE take_size
  <2>1. Takes /\ Request.command = "SIZE" /\ device' = [device EXCEPT !.size = Len(Request.payload)]
        /\ UNCHANGED <<hide, sequenceId, call, up, sent, executed, answers, skipped>>
    BY <1>2 DEF take_size, Take, Takes, history
  <2>2. Len(Request.payload) = Full
    BY <1>0, <2>1, RequestsTyped DEF Takes, Orders
  <2>3. device' \in Devices
    BY <1>0, <2>1, <2>2 DEF Typed, Devices
  <2>. QED BY <1>0, <2>1, <2>3, TypeDown DEF Typed
<1>3. CASE send_blank
  <2>1. << >> \in UnitSeq
    BY EmptySeq DEF UnitSeq
  <2>2. Message("BLANK", << >>) \in Answers
    BY <2>1 DEF Message, Answers, Noise
  <2>3. up' \in Seq(Answers)
    BY <1>3, <2>2 DEF send_blank
  <2>4. UNCHANGED <<hide, sequenceId, call, down, device, sent, executed, answers, skipped>>
    BY <1>3 DEF send_blank, history
  <2>. QED BY <2>3, <2>4 DEF TInv, Typed, Called, Counted, Reached
<1>. QED BY <1>1, <1>2, <1>3

LEMMA TypeSame == ASSUME TInv, UNCHANGED vars PROVE TInv'
BY DEF TInv, Typed, Called, Counted, Reached, vars, wires, history

\* The steps of the system, each by what it does.
LEMMA Steps ==
  ASSUME TInv, [Next]_vars
  PROVE  \/ HostReads \/ (Fragments /\ MakeNextFragment) \/ (SendsOn /\ HostSends) \/ (Begins /\ Call)
         \/ timeout \/ take_size \/ send_blank \/ (TakesPart /\ take_part)
         \/ \E n \in {0, 1}, answer \in UnitSeq, packets \in Seq(Answers) : Completes(n, answer, packets)
         \/ UNCHANGED vars
<1>1. \/ HostReads \/ MakeNextFragment \/ HostSends \/ Call \/ timeout \/ take_size \/ send_blank
      \/ take_part \/ answer_database \/ answer_loader \/ UNCHANGED vars
  BY DEF Next, Host, HostReads, HostSends, AtData, Device, at_rest
<1>. QED BY <1>1, FragmentsStep, SendsOnStep, BeginsStep, TakesPartStep, CompletesStep DEF TInv

LEMMA TypeStep == TInv /\ [Next]_vars => TInv'
<1> SUFFICES ASSUME TInv, [Next]_vars PROVE TInv'
  OBVIOUS
<1>1. ASSUME TakesPart PROVE TInv'
  BY <1>1, TypeDown DEF TakesPart
<1>2. ASSUME HostReads PROVE TInv'
  BY <1>2, ReadsStep, TypeReads DEF TInv
<1>. QED BY <1>1, <1>2, Steps, TypeFragments, TypeSendsOn, TypeBegins, TypeCompletes, TypeOthers, TypeSame

LEMMA TypeInvariant == Spec => []TInv
<1>1. Init => TInv
  BY TypeInit
<1>2. TInv /\ [Next]_vars => TInv'
  BY TypeStep
<1>. QED BY <1>1, <1>2, PTL DEF Spec

\* The state keeps its types for any sizes, commands and numbers of calls; in
\* particular ten blank packets in a row end every call, and what an answer is put
\* together from are units of the answers to the calls that were made.
THEOREM TypeCorrect == Spec => []TypeOK
<1>1. TInv => TypeOK
  BY DEF TInv, Typed, TypeOK, Calls, Devices, Troubles
<1>. QED BY <1>1, TypeInvariant, PTL

-----------------------------------------------------------------------------
(***************************************************************************)
(* The handshakes on their way are those from the host's count on to that  *)
(* of the device.  This is inductive: the first of them is the one the     *)
(* host waits for, but for those it has skipped.                           *)
(***************************************************************************)
Shaking(q) == {i \in 1..Len(q) : q[i].command = "SEQUENCE_HANDSHAKE"}
Kept(q, base, top) ==
  /\ base <= top
  /\ {q[i].id : i \in Shaking(q)} = {id \in 0..top : base <= id /\ id < top}
  /\ \A i, j \in Shaking(q) : i < j => q[i].id < q[j].id

LEMMA KeptParts == Typed => (SequenceKept <=> Kept(up, sequenceId + skipped, device.id))
<1> SUFFICES ASSUME Typed PROVE SequenceKept <=> Kept(up, sequenceId + skipped, device.id)
  OBVIOUS
<1>1. DOMAIN up = 1..Len(up)
  BY DEF Typed
<1>2. Handshakes = Shaking(up)
  BY <1>1 DEF Handshakes, Shaking
<1>. QED BY <1>2 DEF SequenceKept, Kept

LEMMA KeptTail ==
  ASSUME NEW q \in Seq(Answers), q # << >>, NEW base \in Nat, NEW top \in Nat, Kept(q, base, top)
  PROVE  /\ Head(q).command # "SEQUENCE_HANDSHAKE" => Kept(Tail(q), base, top)
         /\ Head(q).command = "SEQUENCE_HANDSHAKE" => Head(q).id = base /\ Kept(Tail(q), base + 1, top)
<1>1. PICK r \in Seq(Answers) : r = Tail(q)
  BY Taking
<1>2. /\ Len(q) \in Nat \ {0} /\ Len(r) = Len(q) - 1 /\ Head(q) = q[1]
      /\ \A i \in 1..Len(r) : r[i] = q[i + 1]
  BY <1>1, Taking
<1>3. ASSUME NEW i \in Shaking(r)
      PROVE  i + 1 \in Shaking(q) /\ q[i + 1] = r[i] /\ i \in Nat /\ i + 1 # 1
  BY <1>2 DEF Shaking
<1>4. ASSUME NEW i \in Shaking(q), i # 1
      PROVE  i - 1 \in Shaking(r) /\ r[i - 1] = q[i]
  <2>1. i \in 1..Len(q) /\ i - 1 \in 1..Len(r) /\ (i - 1) + 1 = i
    BY <1>2, <1>4 DEF Shaking
  <2>2. r[i - 1] = q[(i - 1) + 1]
    BY <1>2, <2>1
  <2>. QED BY <2>1, <2>2 DEF Shaking
<1>5. \A i, j \in Shaking(r) : i < j => r[i].id < r[j].id
  <2> SUFFICES ASSUME NEW i \in Shaking(r), NEW j \in Shaking(r), i < j PROVE r[i].id < r[j].id
    OBVIOUS
  <2>1. i + 1 < j + 1
    BY <1>3
  <2>. QED BY <1>3, <2>1 DEF Kept
<1>6. ASSUME Head(q).command # "SEQUENCE_HANDSHAKE"
      PROVE  Kept(r, base, top)
  <2>1. 1 \notin Shaking(q)
    BY <1>2, <1>6 DEF Shaking
  <2>2. {r[i].id : i \in Shaking(r)} = {q[i].id : i \in Shaking(q)}
    BY <1>3, <1>4, <2>1
  <2>. QED BY <1>5, <2>2 DEF Kept
<1>7. ASSUME Head(q).command = "SEQUENCE_HANDSHAKE"
      PROVE  Head(q).id = base /\ Kept(r, base + 1, top)
  <2>1. 1 \in Shaking(q)
    BY <1>2, <1>7 DEF Shaking
  <2>2. PICK h : h = q[1].id
    OBVIOUS
  <2>3. h \in 0..top /\ base <= h /\ h < top
    BY <2>1, <2>2 DEF Kept
  <2>4. ASSUME NEW i \in Shaking(q), i # 1 PROVE h < q[i].id
    <3>1. 1 < i
      BY <1>2, <2>4 DEF Shaking
    <3>. QED BY <2>1, <2>2, <2>4, <3>1 DEF Kept
  <2>5. base \in {q[i].id : i \in Shaking(q)}
    <3>1. base \in {id \in 0..top : base <= id /\ id < top}
      BY <2>3
    <3>. QED BY <3>1 DEF Kept
  <2>6. h = base
    <3>1. PICK i \in Shaking(q) : q[i].id = base
      BY <2>5
    <3>2. CASE i = 1
      BY <2>2, <3>1, <3>2
    <3>3. CASE i # 1
      <4>1. h < base
        BY <2>4, <3>1, <3>3
      <4>. QED BY <2>3, <4>1
    <3>. QED BY <3>2, <3>3
  <2>7. ASSUME NEW x PROVE x \in {r[i].id : i \in Shaking(r)} <=> x \in {id \in 0..top : base + 1 <= id /\ id < top}
    <3>1. ASSUME x \in {r[i].id : i \in Shaking(r)} PROVE x \in {id \in 0..top : base + 1 <= id /\ id < top}
      <4>1. PICK i \in Shaking(r) : x = r[i].id
        BY <3>1
      <4>2. x = q[i + 1].id /\ i + 1 \in Shaking(q) /\ base < x
        BY <1>3, <2>4, <2>6, <4>1
      <4>3. x \in {id \in 0..top : base <= id /\ id < top}
        BY <4>2 DEF Kept
      <4>. QED BY <4>2, <4>3
    <3>2. ASSUME x \in {id \in 0..top : base + 1 <= id /\ id < top} PROVE x \in {r[i].id : i \in Shaking(r)}
      <4>1. x \in {id \in 0..top : base <= id /\ id < top} /\ x # base
        BY <3>2
      <4>2. PICK i \in Shaking(q) : x = q[i].id
        BY <4>1 DEF Kept
      <4>3. i # 1
        BY <2>2, <2>6, <4>1, <4>2
      <4>. QED BY <1>4, <4>2, <4>3
    <3>. QED BY <3>1, <3>2
  <2>8. base + 1 <= top
    BY <2>3
  <2>9. {r[i].id : i \in Shaking(r)} = {id \in 0..top : base + 1 <= id /\ id < top}
    BY <2>7
  <2>. QED BY <1>2, <1>5, <2>2, <2>6, <2>8, <2>9 DEF Kept
<1>. QED BY <1>1, <1>6, <1>7

\* A handshake of the device or none, and then other packets.
LEMMA KeptGrown ==
  ASSUME NEW q \in Seq(Answers), NEW r \in Seq(Answers), NEW base \in Nat, NEW top \in Nat, Kept(q, base, top),
         NEW n \in {0, 1}, Len(r) >= Len(q) + n, \A i \in 1..Len(q) : r[i] = q[i],
         n = 1 => r[Len(q) + 1].command = "SEQUENCE_HANDSHAKE" /\ r[Len(q) + 1].id = top,
         \A i \in 1..Len(r) : i > Len(q) + n => r[i].command # "SEQUENCE_HANDSHAKE"
  PROVE  Kept(r, base, top + n)
<1>1. Len(q) \in Nat /\ Len(r) \in Nat
  OBVIOUS
<1>2. ASSUME NEW i \in Shaking(q) PROVE i \in Shaking(r) /\ r[i] = q[i] /\ i \in 1..Len(q)
  BY <1>1 DEF Shaking
<1>3. ASSUME NEW i \in Shaking(r)
      PROVE  (i \in Shaking(q) /\ r[i] = q[i]) \/ (n = 1 /\ i = Len(q) + 1 /\ r[i].id = top)
  <2>1. i \in 1..Len(r) /\ r[i].command = "SEQUENCE_HANDSHAKE" /\ i <= Len(q) + n
    BY <1>1, <1>3 DEF Shaking
  <2>2. CASE i \in 1..Len(q)
    BY <2>1, <2>2 DEF Shaking
  <2>3. CASE i \notin 1..Len(q)
    <3>1. n = 1 /\ i = Len(q) + 1
      BY <1>1, <2>1, <2>3
    <3>. QED BY <3>1
  <2>. QED BY <2>2, <2>3
<1>4. n = 1 => Len(q) + 1 \in Shaking(r)
  BY <1>1 DEF Shaking
<1>5. \A i \in Shaking(q) : q[i].id \in 0..top /\ base <= q[i].id /\ q[i].id < top
  BY DEF Kept
<1>6. \A i, j \in Shaking(r) : i < j => r[i].id < r[j].id
  <2> SUFFICES ASSUME NEW i \in Shaking(r), NEW j \in Shaking(r), i < j PROVE r[i].id < r[j].id
    OBVIOUS
  <2>1. CASE j \in Shaking(q) /\ r[j] = q[j]
    <3>1. i \in Shaking(q) /\ r[i] = q[i]
      BY <1>1, <1>2, <1>3, <2>1
    <3>. QED BY <2>1, <3>1 DEF Kept
  <2>2. CASE n = 1 /\ j = Len(q) + 1 /\ r[j].id = top
    <3>1. i # Len(q) + 1
      BY <1>1, <2>2 DEF Shaking
    <3>2. i \in Shaking(q) /\ r[i] = q[i]
      BY <1>3, <3>1
    <3>. QED BY <1>5, <2>2, <3>2
  <2>. QED BY <1>3, <2>1, <2>2
<1>7. ASSUME NEW x PROVE x \in {r[i].id : i \in Shaking(r)} <=> x \in {id \in 0..(top + n) : base <= id /\ id < top + n}
  <2>0. base <= top
    BY DEF Kept
  <2>1. ASSUME x \in {r[i].id : i \in Shaking(r)} PROVE x \in {id \in 0..(top + n) : base <= id /\ id < top + n}
    <3>1. PICK i \in Shaking(r) : x = r[i].id
      BY <2>1
    <3>2. (x \in 0..top /\ base <= x /\ x < top) \/ (n = 1 /\ x = top)
      BY <1>3, <1>5, <3>1
    <3>. QED BY <2>0, <3>2
  <2>2. ASSUME x \in {id \in 0..(top + n) : base <= id /\ id < top + n} PROVE x \in {r[i].id : i \in Shaking(r)}
    <3>1. CASE x < top
      <4>1. x \in {id \in 0..top : base <= id /\ id < top}
        BY <2>2, <3>1
      <4>2. PICK i \in Shaking(q) : x = q[i].id
        BY <4>1 DEF Kept
      <4>. QED BY <1>2, <4>2
    <3>2. CASE ~(x < top)
      <4>1. n = 1 /\ x = top
        BY <2>2, <3>2
      <4>. QED BY <1>4, <4>1
    <3>. QED BY <3>1, <3>2
  <2>. QED BY <2>1, <2>2
<1>8. {r[i].id : i \in Shaking(r)} = {id \in 0..(top + n) : base <= id /\ id < top + n} /\ base <= top + n
  BY <1>7 DEF Kept
<1>. QED BY <1>6, <1>8 DEF Kept

\* A handshake that is read counts for the host, or as one that was skipped.
LEMMA Counting ==
  ASSUME Typed, HostReads \/ HostSends
  PROVE  /\ up # << >> /\ up' = Tail(up) /\ UNCHANGED device
         /\ IF IsHandshake
              THEN \/ Advance /\ UNCHANGED skipped
                   \/ skipped' = skipped + 1 /\ UNCHANGED sequenceId
              ELSE UNCHANGED <<sequenceId, skipped>>
<1>0. /\ \A pc : Receive(pc) => up # << >> /\ up' = Tail(up)
      /\ skipped \in Nat /\ skipped + 0 = skipped
  BY DEF Receive, Typed
<1>1. CASE SequencePacket
  BY <1>1 DEF SequencePacket, history
<1>2. CASE fragment_sent
  BY <1>0, <1>2 DEF fragment_sent
<1>3. CASE db_fragment \/ db_data \/ db_done
  <2>1. Receive("reading") /\ ~IsHandshake
    BY <1>3 DEF db_fragment, db_data, db_done, IsHandshake
  <2>. QED BY <1>0, <1>3, <2>1 DEF db_fragment, db_data, db_done, history
<1>4. CASE unhandled_packet \/ data_answer \/ not_supported
  <2>1. (\E pc \in {"reading", "command", "data"} : Receive(pc)) /\ ~IsHandshake
    BY <1>4 DEF unhandled_packet, data_answer, not_supported, IsHandshake
  <2>. QED BY <1>0, <1>4, <2>1 DEF unhandled_packet, data_answer, not_supported, history
<1>5. CASE out_of_sequence
  BY <1>0, <1>5 DEF out_of_sequence
<1>6. CASE blank
  <2>1. (\E pc \in {"reading", "command", "data"} : Receive(pc)) /\ ~IsHandshake
    BY <1>6 DEF blank, IsHandshake
  <2>. QED BY <1>0, <1>6, <2>1 DEF blank, history
<1>7. CASE handshake
  <2>1. \E pc \in {"reading", "command", "data"} : Receive(pc)
    BY <1>7 DEF handshake
  <2>. QED BY <1>0, <1>7, <2>1 DEF handshake, history
<1>8. CASE command_answer
  <2>1. Receive("command") /\ ~IsHandshake
    BY <1>8 DEF command_answer, IsHandshake
  <2>. QED BY <1>0, <1>8, <2>1 DEF command_answer, history
<1>. QED BY <1>1, <1>2, <1>3, <1>4, <1>5, <1>6, <1>7, <1>8 DEF HostReads, HostSends, AtData

LEMMA KeptCounting ==
  ASSUME Typed, Typed', Kept(up, sequenceId + skipped, device.id), HostReads \/ HostSends
  PROVE  Kept(up', sequenceId' + skipped', device.id')
<1>0. /\ sequenceId + skipped \in Nat /\ sequenceId \in Nat /\ skipped \in Nat
      /\ device.id \in Nat /\ up \in Seq(Answers) /\ Reply = Head(up)
  BY DEF Typed, Devices, Reply
<1>1. CASE ~IsHandshake
  <2>1. up # << >> /\ up' = Tail(up) /\ UNCHANGED <<device, sequenceId, skipped>> /\ Head(up).command # "SEQUENCE_HANDSHAKE"
    BY <1>0, <1>1, Counting DEF IsHandshake
  <2>. QED BY <1>0, <2>1, KeptTail
<1>2. CASE IsHandshake
  <2>1. up # << >> /\ up' = Tail(up) /\ UNCHANGED device /\ Head(up).command = "SEQUENCE_HANDSHAKE"
    BY <1>0, <1>2, Counting DEF IsHandshake
  <2>2. Reply.id = sequenceId + skipped /\ Kept(up', (sequenceId + skipped) + 1, device.id)
    BY <1>0, <2>1, KeptTail
  <2>3. CASE Advance /\ UNCHANGED skipped
    <3>1. sequenceId' + skipped' = (sequenceId + skipped) + 1
      BY <1>0, <2>2, <2>3 DEF Advance
    <3>. QED BY <2>1, <2>2, <3>1
  <2>4. CASE skipped' = skipped + 1 /\ UNCHANGED sequenceId
    <3>1. sequenceId' + skipped' = (sequenceId + skipped) + 1
      BY <1>0, <2>4
    <3>. QED BY <2>1, <2>2, <3>1
  <2>. QED BY <1>2, <2>3, <2>4, Counting
<1>. QED BY <1>1, <1>2

LEMMA KeptStep ==
  TInv /\ Kept(up, sequenceId + skipped, device.id) /\ [Next]_vars => Kept(up', sequenceId' + skipped', device.id')
<1> SUFFICES ASSUME TInv, Kept(up, sequenceId + skipped, device.id), [Next]_vars
             PROVE  Kept(up', sequenceId' + skipped', device.id')
  OBVIOUS
<1>0. Typed /\ Typed' /\ sequenceId + skipped \in Nat /\ device.id \in Nat /\ up \in Seq(Answers) /\ Len(up) \in Nat
      /\ device.id + 0 = device.id
  BY TypeStep DEF TInv, Typed, Devices
<1>1. CASE HostReads \/ HostSends
  BY <1>0, <1>1, KeptCounting
<1>2. CASE Fragments \/ Begins \/ timeout \/ UNCHANGED vars
  BY <1>2 DEF Fragments, Begins, timeout, vars, wires, history
<1>3. CASE take_size
  BY <1>3 DEF take_size, history
<1>4. CASE send_blank
  <2>1. UNCHANGED <<sequenceId, skipped, device>> /\ up = << >> /\ up' = <<Message("BLANK", << >>)>>
    BY <1>4 DEF send_blank, history
  <2>2. up' \in Seq(Answers) /\ Len(up) = 0 /\ Len(up') = 1 /\ up'[1].command = "BLANK"
    BY <1>0, <2>1 DEF Typed, Message
  <2>3. PICK n \in {0, 1} : n = 0
    OBVIOUS
  <2>4. /\ Len(up') >= Len(up) + n /\ n # 1 /\ \A i \in 1..Len(up) : up'[i] = up[i]
        /\ \A i \in 1..Len(up') : i > Len(up) + n => up'[i].command # "SEQUENCE_HANDSHAKE"
    BY <2>2, <2>3
  <2>5. Kept(up', sequenceId + skipped, device.id + n)
    BY <1>0, <2>2, <2>4, KeptGrown
  <2>. QED BY <1>0, <2>1, <2>3, <2>5
<1>5. CASE TakesPart
  <2>1. UNCHANGED <<sequenceId, skipped>> /\ device'.id = device.id + 1 /\ up' = Append(up, Shake) /\ Shake \in Answers
    BY <1>5 DEF TakesPart
  <2>2. /\ up' \in Seq(Answers) /\ Len(up') = Len(up) + 1 /\ up'[Len(up) + 1] = Shake
        /\ \A i \in 1..Len(up) : up'[i] = up[i]
    BY <1>0, <2>1, Adding
  <2>3. /\ up'[Len(up) + 1].command = "SEQUENCE_HANDSHAKE" /\ up'[Len(up) + 1].id = device.id
        /\ \A i \in 1..Len(up') : i > Len(up) + 1 => up'[i].command # "SEQUENCE_HANDSHAKE"
    BY <1>0, <2>2 DEF Shake
  <2>4. PICK n \in {0, 1} : n = 1
    OBVIOUS
  <2>5. /\ Len(up') >= Len(up) + n
        /\ \A i \in 1..Len(up') : i > Len(up) + n => up'[i].command # "SEQUENCE_HANDSHAKE"
    BY <1>0, <2>2, <2>3, <2>4
  <2>6. Kept(up', sequenceId + skipped, device.id + n)
    BY <1>0, <2>2, <2>3, <2>4, <2>5, KeptGrown
  <2>. QED BY <2>1, <2>4, <2>6
<1>6. ASSUME NEW n \in {0, 1}, NEW answer \in UnitSeq, NEW packets \in Seq(Answers), Completes(n, answer, packets)
      PROVE  Kept(up', sequenceId' + skipped', device.id')
  <2>1. UNCHANGED <<sequenceId, skipped>> /\ device'.id = device.id + n
    BY <1>6 DEF Completes
  <2>2. /\ up' \in Seq(Answers) /\ Len(up') = Len(up) + n + Len(packets) /\ Len(packets) \in Nat \ {0}
        /\ \A i \in 1..Len(up) : up'[i] = up[i]
        /\ n = 1 => up'[Len(up) + 1] = Shake
        /\ \A i \in 1..Len(packets) : up'[Len(up) + n + i] = packets[i]
    BY <1>0, <1>6, Arriving
  <2>3. \A i \in 1..Len(packets) : packets[i].command # "SEQUENCE_HANDSHAKE"
    <3>1. Replying(Len(answers) + 1, answer, packets)
      BY <1>6 DEF Completes
    <3>2. CASE Len(packets) = 1 /\ packets[1].command # "SEQUENCE_HANDSHAKE"
      BY <3>2
    <3>3. CASE \A i \in 1..Len(packets) : packets[i].command \in Pieces
      BY <3>3 DEF Pieces
    <3>4. (Len(packets) = 1 /\ packets[1].command # "SEQUENCE_HANDSHAKE")
          \/ \A i \in 1..Len(packets) :
               packets[i] = Message(IF i < Len(answer) THEN "DB_FRAGMENTED" ELSE "DB_DATA", Piece(Len(answers) + 1, i))
      BY <3>1 DEF Replying, Message
    <3>5. ASSUME NEW i \in 1..Len(packets), NEW c \in BOOLEAN,
                 packets[i] = Message(IF c THEN "DB_FRAGMENTED" ELSE "DB_DATA", Piece(Len(answers) + 1, i))
          PROVE  packets[i].command \in Pieces
      BY <3>5 DEF Message, Pieces
    <3>. QED BY <3>2, <3>3, <3>4, <3>5
  <2>4. \A i \in 1..Len(up') : i > Len(up) + n => up'[i].command # "SEQUENCE_HANDSHAKE"
    <3> SUFFICES ASSUME NEW i \in 1..Len(up'), i > Len(up) + n PROVE up'[i].command # "SEQUENCE_HANDSHAKE"
      OBVIOUS
    <3>1. i - (Len(up) + n) \in 1..Len(packets) /\ Len(up) + n + (i - (Len(up) + n)) = i
      BY <1>0, <2>2
    <3>2. up'[i] = packets[i - (Len(up) + n)]
      BY <2>2, <3>1
    <3>. QED BY <2>3, <3>1, <3>2
  <2>5. n = 1 => up'[Len(up) + 1].command = "SEQUENCE_HANDSHAKE" /\ up'[Len(up) + 1].id = device.id
    BY <2>2 DEF Shake
  <2>6. Len(up') >= Len(up) + n
    BY <1>0, <2>2
  <2>7. Kept(up', sequenceId + skipped, device.id + n)
    BY <1>0, <2>2, <2>4, <2>5, <2>6, KeptGrown
  <2>. QED BY <2>1, <2>7
<1>. QED BY <1>1, <1>2, <1>3, <1>4, <1>5, <1>6, Steps

\* The handshakes on their way are in order and without a gap, and the host's count
\* is behind them by those it never checked or refused, in every state and however
\* many calls have failed: CheckSequence refuses one only after one was skipped.
THEOREM SequenceKeptAlways == Spec => []SequenceKept
<1>1. Init => Kept(up, sequenceId + skipped, device.id)
  <2> SUFFICES ASSUME Init PROVE Kept(up, sequenceId + skipped, device.id)
    OBVIOUS
  <2>1. up = << >> /\ Len(up) = 0 /\ sequenceId + skipped = 0 /\ device.id = 0
    BY DEF Init
  <2>2. Shaking(up) = {}
    BY <2>1 DEF Shaking
  <2>. QED BY <2>1, <2>2 DEF Kept
<1>2. TInv /\ Kept(up, sequenceId + skipped, device.id) /\ [Next]_vars => Kept(up, sequenceId + skipped, device.id)'
  BY KeptStep
<1>3. TInv /\ Kept(up, sequenceId + skipped, device.id) => SequenceKept
  BY KeptParts DEF TInv
<1>. QED BY <1>1, <1>2, <1>3, TypeInvariant, PTL DEF Spec

-----------------------------------------------------------------------------
(***************************************************************************)
(* A packet that would confuse the device has its size before it, whatever *)
(* has failed: the device understands everything it takes.                 *)
(***************************************************************************)
Sized(q, size) ==
  /\ \A i \in 1..Len(q) : q[i].command = "SIZE" => i < Len(q) /\ q[i + 1].command # "SIZE"
  /\ \A i \in 1..Len(q) : q[i].command # "SIZE" /\ Confusing(q[i].payload) =>
       IF i = 1 THEN size = Full ELSE q[i - 1].command = "SIZE"

LEMMA SizedTail ==
  ASSUME NEW q \in Seq(Orders), q # << >>, NEW size, NEW other, Sized(q, size),
         Head(q).command = "SIZE" => other = Full
  PROVE  /\ Sized(Tail(q), other)
         /\ Head(q).command # "SIZE" /\ Confusing(Head(q).payload) => size = Full
<1>1. PICK r \in Seq(Orders) : r = Tail(q)
  BY Taking
<1>2. /\ Len(q) \in Nat \ {0} /\ Len(r) = Len(q) - 1 /\ Head(q) = q[1]
      /\ \A i \in 1..Len(r) : r[i] = q[i + 1]
  BY <1>1, Taking
<1>3. ASSUME NEW i \in 1..Len(r) PROVE i + 1 \in 1..Len(q) /\ r[i] = q[i + 1] /\ i + 1 # 1 /\ i + 1 - 1 = i
  BY <1>2
<1>4. ASSUME NEW i \in 1..Len(r), r[i].command = "SIZE" PROVE i < Len(r) /\ r[i + 1].command # "SIZE"
  <2>1. i + 1 < Len(q) /\ q[(i + 1) + 1].command # "SIZE"
    BY <1>3, <1>4 DEF Sized
  <2>2. i + 1 \in 1..Len(r)
    BY <1>2, <2>1
  <2>. QED BY <1>2, <2>1, <2>2
<1>5. ASSUME NEW i \in 1..Len(r), r[i].command # "SIZE", Confusing(r[i].payload)
      PROVE  IF i = 1 THEN other = Full ELSE r[i - 1].command = "SIZE"
  <2>1. q[i].command = "SIZE"
    <3>1. q[(i + 1) - 1].command = "SIZE"
      BY <1>3, <1>5 DEF Sized
    <3>. QED BY <1>3, <3>1
  <2>2. CASE i = 1
    BY <1>2, <2>1, <2>2
  <2>3. CASE i # 1
    <3>1. i - 1 \in 1..Len(r) /\ (i - 1) + 1 = i
      BY <1>2, <2>3
    <3>2. r[i - 1] = q[(i - 1) + 1]
      BY <1>2, <3>1
    <3>. QED BY <2>1, <2>3, <3>1, <3>2
  <2>. QED BY <2>2, <2>3
<1>6. Head(q).command # "SIZE" /\ Confusing(Head(q).payload) => size = Full
  BY <1>2 DEF Sized
<1>7. Sized(r, other)
  BY <1>4, <1>5 DEF Sized
<1>. QED BY <1>1, <1>6, <1>7

LEMMA SizedGrown ==
  ASSUME Typed, Sized(down, device.size), NEW command \in {"DB_DATA", "DB_FRAGMENTED", "JL_DATA", "JL_COMMAND"},
         NEW payload, Sends(command, payload)
  PROVE  Sized(down', device.size)
<1>1. PICK q \in Seq(Orders) : q = down
  BY DEF Typed
<1>2. PICK r \in Seq(Orders) : r = down'
  BY DEF Sends
<1>3. Len(q) \in Nat /\ Len(r) \in Nat
  OBVIOUS
<1>4. PICK two \in BOOLEAN : two = Confusing(payload)
  BY DEF Confusing
<1>5. /\ \A i \in 1..Len(q) : r[i] = q[i]
      /\ two => Len(r) = Len(q) + 2 /\ r[Len(q) + 1].command = "SIZE"
      /\ ~two => Len(r) = Len(q) + 1
      /\ r[Len(r)].command # "SIZE" /\ r[Len(r)].payload = payload
  BY <1>1, <1>2, <1>4 DEF Sends, Grown, Order
<1>6. ASSUME NEW i \in 1..Len(r), r[i].command = "SIZE" PROVE i < Len(r) /\ r[i + 1].command # "SIZE"
  <2>1. CASE i \in 1..Len(q)
    <3>1. i < Len(q) /\ q[i + 1].command # "SIZE"
      BY <1>1, <1>5, <1>6, <2>1 DEF Sized
    <3>2. i + 1 \in 1..Len(q)
      BY <1>3, <3>1
    <3>. QED BY <1>3, <1>5, <3>1, <3>2
  <2>2. CASE i \notin 1..Len(q)
    <3>1. i # Len(r)
      BY <1>5, <1>6
    <3>2. two /\ i = Len(q) + 1 /\ i + 1 = Len(r)
      BY <1>3, <1>5, <2>2, <3>1
    <3>. QED BY <1>3, <1>5, <3>2
  <2>. QED BY <2>1, <2>2
<1>7. ASSUME NEW i \in 1..Len(r), r[i].command # "SIZE", Confusing(r[i].payload)
      PROVE  IF i = 1 THEN device.size = Full ELSE r[i - 1].command = "SIZE"
  <2>1. CASE i \in 1..Len(q)
    <3>1. IF i = 1 THEN device.size = Full ELSE q[i - 1].command = "SIZE"
      BY <1>1, <1>5, <1>7, <2>1 DEF Sized
    <3>2. i # 1 => i - 1 \in 1..Len(q)
      BY <1>3, <2>1
    <3>. QED BY <1>5, <3>1, <3>2
  <2>2. CASE i \notin 1..Len(q)
    <3>1. i # Len(q) + 1 \/ ~two
      BY <1>5, <1>7
    <3>2. i = Len(r)
      BY <1>3, <1>5, <2>2, <3>1
    <3>3. two /\ i - 1 = Len(q) + 1 /\ i # 1
      BY <1>3, <1>4, <1>5, <1>7, <3>2
    <3>. QED BY <1>5, <3>3
  <2>. QED BY <2>1, <2>2
<1>8. Sized(r, device.size)
  BY <1>6, <1>7 DEF Sized
<1>. QED BY <1>2, <1>8

LEMMA SizedStep == TInv /\ Sized(down, device.size) /\ [Next]_vars => Sized(down', device'.size)
<1> SUFFICES ASSUME TInv, Sized(down, device.size), [Next]_vars PROVE Sized(down', device'.size)
  OBVIOUS
<1>0. Typed /\ down \in Seq(Orders)
  BY DEF TInv, Typed
<1>1. CASE HostReads \/ timeout \/ send_blank \/ UNCHANGED vars
  <2>1. UNCHANGED <<down, device>>
    BY <1>0, <1>1, ReadsStep DEF Reads, timeout, send_blank, wires, vars
  <2>. QED BY <2>1
<1>2. CASE Fragments
  <2>1. \E payload \in UnitSeq : Sends("DB_DATA", payload) \/ Sends("DB_FRAGMENTED", payload)
    BY <1>2 DEF Fragments
  <2>2. UNCHANGED device
    BY <1>2 DEF Fragments
  <2>. QED BY <1>0, <2>1, <2>2, SizedGrown
<1>3. CASE SendsOn
  BY <1>0, <1>3, SizedGrown DEF SendsOn
<1>4. CASE Begins
  <2>1. UNCHANGED device /\ (Sends("DB_DATA", call'.whole) \/ Sends("JL_DATA", call'.whole)
                             \/ Sends("JL_COMMAND", << >>) \/ UNCHANGED down)
    BY <1>4 DEF Begins
  <2>2. CASE UNCHANGED down
    BY <2>1, <2>2
  <2>3. CASE Sends("JL_COMMAND", << >>)
    BY <1>0, <2>1, <2>3, SizedGrown
  <2>4. PICK payload : payload = call'.whole
    OBVIOUS
  <2>5. CASE Sends("DB_DATA", payload) \/ Sends("JL_DATA", payload)
    BY <1>0, <2>1, <2>5, SizedGrown
  <2>. QED BY <2>1, <2>2, <2>3, <2>4, <2>5
<1>5. CASE take_size
  <2>1. Takes /\ Request = Head(down) /\ Request.command = "SIZE" /\ device' = [device EXCEPT !.size = Len(Request.payload)]
    BY <1>5 DEF take_size, Take, Takes, Request
  <2>2. Len(Request.payload) = Full
    BY <1>0, <2>1, RequestsTyped DEF Takes, Orders
  <2>3. device'.size = Full
    BY <1>0, <2>1, <2>2 DEF Typed, Devices
  <2>. QED BY <1>0, <2>1, <2>3, SizedTail DEF Takes
<1>6. CASE TakesPart
  <2>1. Takes /\ Head(down).command # "SIZE"
    BY <1>6 DEF TakesPart, Request
  <2>. QED BY <1>0, <2>1, SizedTail DEF Takes
<1>7. ASSUME NEW n \in {0, 1}, NEW answer \in UnitSeq, NEW packets \in Seq(Answers), Completes(n, answer, packets)
      PROVE  Sized(down', device'.size)
  <2>1. Takes /\ Head(down).command # "SIZE"
    BY <1>7 DEF Completes, Request, Final
  <2>. QED BY <1>0, <2>1, SizedTail DEF Takes
<1>. QED BY <1>1, <1>2, <1>3, <1>4, <1>5, <1>6, <1>7, Steps

LEMMA UnderstoodWhole ==
  ASSUME Typed, Sized(down, device.size), Takes, Request.command # "SIZE"
  PROVE  Understood = Request.payload
<1>1. Confusing(Head(down).payload) => device.size = Full
  BY SizedTail DEF Typed, Takes, Request
<1>. QED BY <1>1 DEF Understood, Request

-----------------------------------------------------------------------------
(***************************************************************************)
(* Every unit on its way up is one of an answer, and a fragment is         *)
(* followed by the next: what the host has put together of an answer is a  *)
(* part of it, and the rest comes first, whatever has failed.              *)
(***************************************************************************)
Numerals(a) == \A n \in 1..Len(a) : a[n] = Units(n, Len(a[n]))

Follows(q, i, n, k) == i <= Len(q) /\ q[i].command \in Pieces /\ q[i].payload = Piece(n, k)
Link(q, i, a) ==
  /\ q[i].command \in Noise \cup {"DB_DONE", "JL_NOT_SUPPORTED"} => q[i].payload = << >>
  /\ q[i].command \in Pieces \cup {"JL_ACK"} =>
       \E n \in 1..Len(a) : \E k \in 1..Len(a[n]) :
         /\ q[i].payload = Piece(n, k)
         /\ q[i].command = "DB_FRAGMENTED" => k < Len(a[n]) /\ Follows(q, i + 1, n, k + 1)
         /\ q[i].command # "DB_FRAGMENTED" => k = Len(a[n])
Linked(q, a) == \A i \in 1..Len(q) : Link(q, i, a)

\* What the host has of the answer in progress.
Has(receive, q, a) ==
  \E n \in 1..Len(a) : \E from \in Nat, size \in Nat \ {0} :
    from + size < Len(a[n]) /\ receive = Part(a[n], from, size) /\ Follows(q, 1, n, from + size + 1)
Held ==
  /\ call.pc # "idle" /\ ~call.frag => call.receive = << >>
  /\ call.frag => call.pc = "reading" /\ Has(call.receive, up, answers)

CInv == Numerals(answers) /\ Linked(up, answers) /\ Held

LEMMA PieceOf ==
  ASSUME NEW n \in Nat, NEW size \in Nat, NEW a, a = Units(n, size), NEW from \in Nat, from < size
  PROVE  Piece(n, from + 1) = <<a[from + 1]>>
<1>1. from + 1 \in 1..size
  OBVIOUS
<1>2. a[from + 1] = <<n, from + 1>>
  BY <1>1 DEF Units
<1>. QED BY <1>2 DEF Piece

LEMMA PartGrows ==
  ASSUME NEW a \in UnitSeq, NEW from \in Nat, NEW size \in Nat, from + size < Len(a)
  PROVE  /\ Part(a, from, size) \o <<a[from + size + 1]>> = Part(a, from, size + 1)
         /\ Part(a, from, 0) = << >>
         /\ Part(a, from, 1) = <<a[from + 1]>>
<1>0. a \in Seq(Unit) /\ Len(a) \in Nat
  BY DEF UnitSeq, Unit
<1>1. PICK p : p = Part(a, from, size)
  OBVIOUS
<1>2. p \in Seq(Unit) /\ Len(p) = size /\ \A i \in 1..size : p[i] = a[from + i]
  <2>1. a \in Seq(Unit) /\ from + size <= Len(a) /\ p = Part(a, from, size)
    BY <1>0, <1>1
  <2>2. p \in Seq(Unit)
    BY <2>1, Cutting
  <2>3. Len(p) = size
    BY <2>1, Cutting
  <2>4. \A i \in 1..size : p[i] = a[from + i]
    BY <2>1, Cutting
  <2>. QED BY <2>2, <2>3, <2>4
<1>3. PICK more \in Nat : more = size + 1
  OBVIOUS
<1>4. PICK r : r = Part(a, from, more)
  OBVIOUS
<1>5. r \in Seq(Unit) /\ Len(r) = more /\ \A i \in 1..more : r[i] = a[from + i]
  <2>1. a \in Seq(Unit) /\ from + more <= Len(a) /\ r = Part(a, from, more)
    BY <1>0, <1>3, <1>4
  <2>2. r \in Seq(Unit)
    BY <1>3, <2>1, Cutting
  <2>3. Len(r) = more
    BY <1>3, <2>1, Cutting
  <2>4. \A i \in 1..more : r[i] = a[from + i]
    BY <1>3, <2>1, Cutting
  <2>. QED BY <2>2, <2>3, <2>4
<1>6. PICK u \in Unit : u = a[from + size + 1]
  <2>1. from + size + 1 \in 1..Len(a)
    BY <1>0
  <2>. QED BY <1>0, <2>1, ElementOfSeq
<1>7. /\ Append(p, u) \in Seq(Unit) /\ Len(Append(p, u)) = size + 1
      /\ \A i \in 1..size : Append(p, u)[i] = p[i]
      /\ Append(p, u)[size + 1] = u
  BY <1>2, Adding
<1>8. Append(p, u) = r
  <2>1. \A i \in 1..size + 1 : Append(p, u)[i] = r[i]
    <3> SUFFICES ASSUME NEW i \in 1..size + 1 PROVE Append(p, u)[i] = r[i]
      OBVIOUS
    <3>1. r[i] = a[from + i]
      BY <1>3, <1>5
    <3>2. CASE i \in 1..size
      BY <1>2, <1>7, <3>1, <3>2
    <3>3. CASE i = size + 1
      BY <1>6, <1>7, <3>1, <3>3
    <3>4. i \in 1..size \/ i = size + 1
      OBVIOUS
    <3>. QED BY <3>2, <3>3, <3>4
  <2>. QED BY <1>3, <1>5, <1>7, <2>1, SeqEqual
<1>9. p \o <<u>> = Append(p, u)
  BY <1>2, AppendIsConcat
<1>10. Part(a, from, 0) = << >>
  <2>1. PICK e : e = Part(a, from, 0)
    OBVIOUS
  <2>2. 0 \in Nat /\ from + 0 <= Len(a)
    BY <1>0
  <2>3. e \in Seq(Unit)
    BY <1>0, <2>1, <2>2, Cutting
  <2>4. Len(e) = 0
    BY <1>0, <2>1, <2>2, Cutting
  <2>. QED BY <2>1, <2>3, <2>4, EmptySeq
<1>11. Part(a, from, 1) = <<a[from + 1]>>
  <2>1. PICK e : e = Part(a, from, 1)
    OBVIOUS
  <2>a. PICK one \in Nat : one = 1
    OBVIOUS
  <2>2. a \in Seq(Unit) /\ from + one <= Len(a) /\ e = Part(a, from, one)
    BY <1>0, <2>1, <2>a
  <2>3. e \in Seq(Unit)
    BY <2>2, <2>a, Cutting
  <2>b. Len(e) = one
    <3>1. one \in Nat
      BY <2>a
    <3>. QED BY <2>2, <3>1, Cutting
  <2>4. Len(e) = 1 /\ from + 1 \in 1..Len(a)
    BY <1>0, <2>2, <2>a, <2>b
  <2>5. \A i \in 1..one : e[i] = a[from + i]
    BY <2>2, <2>a, Cutting
  <2>6. PICK v \in Unit : v = a[from + 1]
    BY <1>0, <2>4, ElementOfSeq
  <2>7. <<v>> \in Seq(Unit) /\ Len(<<v>>) = 1 /\ \A i \in 1..1 : <<v>>[i] = v
    OBVIOUS
  <2>8. \A i \in 1..1 : e[i] = <<v>>[i]
    BY <2>5, <2>6, <2>7, <2>a
  <2>9. e = <<v>>
    BY <2>3, <2>4, <2>7, <2>8, SeqEqual
  <2>. QED BY <2>1, <2>6, <2>9
<1>. QED BY <1>1, <1>3, <1>4, <1>6, <1>8, <1>9, <1>10, <1>11

LEMMA LinkedTail ==
  ASSUME NEW q \in Seq(Answers), q # << >>, NEW a \in Seq(UnitSeq), Linked(q, a)
  PROVE  Linked(Tail(q), a)
<1>1. PICK r \in Seq(Answers) : r = Tail(q)
  BY Taking
<1>2. /\ Len(q) \in Nat \ {0} /\ Len(r) = Len(q) - 1
      /\ \A i \in 1..Len(r) : r[i] = q[i + 1]
  BY <1>1, Taking
<1>3. ASSUME NEW i \in 1..Len(r) PROVE Link(r, i, a)
  <2>1. Link(q, i + 1, a) /\ r[i] = q[i + 1]
    BY <1>2 DEF Linked
  <2>2. ASSUME NEW n, NEW k, Follows(q, (i + 1) + 1, n, k) PROVE Follows(r, i + 1, n, k)
    <3>1. i + 1 \in 1..Len(r)
      BY <1>2, <2>2 DEF Follows
    <3>2. r[i + 1] = q[(i + 1) + 1]
      BY <1>2, <3>1
    <3>. QED BY <2>2, <3>1, <3>2 DEF Follows
  <2>. QED BY <2>1, <2>2 DEF Link
<1>. QED BY <1>1, <1>3 DEF Linked

\* What is linked stays so with other packets behind it.
LEMMA LinkedJoined ==
  ASSUME NEW q \in Seq(Answers), NEW p \in Seq(Answers), NEW r \in Seq(Answers), NEW a,
         Linked(q, a), Linked(p, a), Len(r) = Len(q) + Len(p),
         \A i \in 1..Len(q) : r[i] = q[i],
         \A i \in 1..Len(p) : r[Len(q) + i] = p[i]
  PROVE  Linked(r, a)
<1>1. Len(q) \in Nat /\ Len(p) \in Nat /\ Len(r) \in Nat
  OBVIOUS
<1>2. ASSUME NEW i \in 1..Len(q) PROVE Link(r, i, a)
  <2>1. Link(q, i, a) /\ r[i] = q[i]
    BY <1>2 DEF Linked
  <2>2. ASSUME NEW n, NEW k, Follows(q, i + 1, n, k) PROVE Follows(r, i + 1, n, k)
    <3>1. i + 1 \in 1..Len(q) /\ i + 1 <= Len(r)
      BY <1>1, <2>2 DEF Follows
    <3>. QED BY <2>2, <3>1 DEF Follows
  <2>. QED BY <2>1, <2>2 DEF Link
<1>3. ASSUME NEW j \in 1..Len(p) PROVE Link(r, Len(q) + j, a)
  <2>1. Link(p, j, a) /\ r[Len(q) + j] = p[j]
    BY DEF Linked
  <2>2. ASSUME NEW n, NEW k, Follows(p, j + 1, n, k) PROVE Follows(r, (Len(q) + j) + 1, n, k)
    <3>1. j + 1 \in 1..Len(p) /\ (Len(q) + j) + 1 <= Len(r) /\ (Len(q) + j) + 1 = Len(q) + (j + 1)
      BY <1>1, <2>2 DEF Follows
    <3>2. r[Len(q) + (j + 1)] = p[j + 1]
      BY <3>1
    <3>. QED BY <2>2, <3>1, <3>2 DEF Follows
  <2>. QED BY <2>1, <2>2 DEF Link
<1>4. ASSUME NEW i \in 1..Len(r) PROVE Link(r, i, a)
  <2>1. CASE i \in 1..Len(q)
    BY <1>2, <2>1
  <2>2. CASE i \notin 1..Len(q)
    <3>1. i - Len(q) \in 1..Len(p) /\ Len(q) + (i - Len(q)) = i
      BY <1>1, <2>2
    <3>. QED BY <1>3, <3>1
  <2>. QED BY <2>1, <2>2
<1>. QED BY <1>4 DEF Linked

\* A packet that brings nothing.
LEMMA LinkedNoise ==
  ASSUME NEW q \in Seq(Answers), NEW p \in Answers, NEW a, Linked(q, a), p.command \in Noise, p.payload = << >>
  PROVE  Linked(Append(q, p), a)
<1>1. Linked(<<p>>, a) /\ <<p>> \in Seq(Answers) /\ Len(<<p>>) = 1 /\ <<p>>[1] = p
  <2>1. <<p>> \in Seq(Answers) /\ Len(<<p>>) = 1 /\ <<p>>[1] = p
    OBVIOUS
  <2>2. p.command \notin Pieces \cup {"JL_ACK"}
    BY DEF Noise, Pieces
  <2>3. Link(<<p>>, 1, a)
    BY <2>1, <2>2 DEF Link
  <2>. QED BY <2>1, <2>3 DEF Linked
<1>2. /\ Append(q, p) \in Seq(Answers) /\ Len(Append(q, p)) = Len(q) + 1
      /\ \A i \in 1..Len(q) : Append(q, p)[i] = q[i]
      /\ Append(q, p)[Len(q) + 1] = p
  BY Adding
<1>3. \A i \in 1..Len(<<p>>) : Append(q, p)[Len(q) + i] = <<p>>[i]
  BY <1>1, <1>2
<1>. QED BY <1>1, <1>2, <1>3, LinkedJoined

\* One more answer leaves the links of those before.
LEMMA LinkedMore ==
  ASSUME NEW q, NEW a \in Seq(UnitSeq), NEW e \in UnitSeq
  PROVE  /\ Linked(q, a) => Linked(q, Append(a, e))
         /\ Numerals(a) /\ e = Units(Len(a) + 1, Len(e)) => Numerals(Append(a, e))
         /\ \A receive : Has(receive, q, a) => Has(receive, q, Append(a, e))
<1>1. PICK b \in Seq(UnitSeq) : b = Append(a, e)
  BY Adding
<1>2. /\ Len(b) = Len(a) + 1 /\ Len(a) \in Nat /\ b[Len(a) + 1] = e
      /\ \A n \in 1..Len(a) : b[n] = a[n] /\ n \in 1..Len(b)
  BY <1>1, Adding
<1>3. ASSUME NEW i, Link(q, i, a) PROVE Link(q, i, b)
  BY <1>2, <1>3 DEF Link
<1>4. Linked(q, a) => Linked(q, b)
  BY <1>3 DEF Linked
<1>5. Numerals(a) /\ e = Units(Len(a) + 1, Len(e)) => Numerals(b)
  <2> SUFFICES ASSUME Numerals(a), e = Units(Len(a) + 1, Len(e)), NEW n \in 1..Len(b) PROVE b[n] = Units(n, Len(b[n]))
    BY DEF Numerals
  <2>1. n \in 1..Len(a) \/ n = Len(a) + 1
    BY <1>2
  <2>2. CASE n \in 1..Len(a)
    <3>1. b[n] = a[n] /\ a[n] = Units(n, Len(a[n]))
      BY <1>2, <2>2 DEF Numerals
    <3>. QED BY <3>1
  <2>3. CASE n = Len(a) + 1
    BY <1>2, <2>3
  <2>. QED BY <2>1, <2>2, <2>3
<1>6. \A receive : Has(receive, q, a) => Has(receive, q, b)
  BY <1>2 DEF Has
<1>. QED BY <1>1, <1>4, <1>5, <1>6

LEMMA HasLonger ==
  ASSUME NEW q \in Seq(Answers), NEW r \in Seq(Answers), Len(r) >= Len(q), \A i \in 1..Len(q) : r[i] = q[i],
         NEW a, NEW receive, Has(receive, q, a)
  PROVE  Has(receive, r, a)
<1>1. ASSUME NEW n, NEW k, Follows(q, 1, n, k) PROVE Follows(r, 1, n, k)
  <2>1. 1 \in 1..Len(q) /\ 1 <= Len(r)
    BY <1>1 DEF Follows
  <2>. QED BY <1>1, <2>1 DEF Follows
<1>. QED BY <1>1 DEF Has

\* What becomes of the call when a packet is read: it goes on, it takes a fragment, it
\* fails, or it returns.
GoesOn ==
  /\ call'.pc # "idle" /\ ~call.frag /\ ~call'.frag /\ call'.receive = call.receive /\ call'.trouble = call.trouble
  /\ Reply.command \in Noise \/ call.pc = "sending"
TakesFragment ==
  /\ call.pc = "reading" /\ call'.pc = "reading" /\ call'.frag /\ call'.trouble = call.trouble
  /\ Reply.command = "DB_FRAGMENTED" /\ call'.receive = AppendFragment
Throws == call'.pc = "idle" /\ ~call'.frag /\ call'.receive = << >> /\ call'.trouble # "none"
Finishes ==
  /\ call'.pc = "idle" /\ ~call'.frag /\ call'.trouble = call.trouble
  /\ \/ call.pc = "reading" /\ Reply.command = "DB_DATA" /\ call.frag /\ call'.receive = AppendFragment
     \/ call.pc = "reading" /\ Reply.command = "DB_DATA" /\ ~call.frag /\ call'.receive = Reply.payload
     \/ call.pc \in {"reading", "data"} /\ Reply.command = "DB_DONE" /\ call'.receive = Reply.payload
     \/ call.pc = "data" /\ Reply.command \in Pieces \cup {"JL_ACK"} /\ call'.receive = Reply.payload
     \/ call.pc = "data" /\ IsHandshake /\ ~hide /\ call'.receive = << >>

\* The fragment that follows one is no handshake, nor blank.
LEMMA NotAmid ==
  ASSUME Held, up # << >>, Typed, Reply.command \in Noise \/ call.pc # "reading"
  PROVE  ~call.frag
<1> SUFFICES ASSUME call.frag PROVE FALSE
  OBVIOUS
<1>1. call.pc = "reading" /\ up[1].command \in Pieces
  BY DEF Held, Has, Follows
<1>2. up[1] = Reply
  BY Replies
<1>. QED BY <1>1, <1>2 DEF Noise, Pieces

LEMMA Outcomes ==
  ASSUME Typed, Held, HostReads
  PROVE  GoesOn \/ TakesFragment \/ Throws \/ Finishes
<1>0. /\ \A pc : Receive(pc) => call.pc = pc /\ up # << >> /\ ~(hide /\ IsHandshake)
      /\ call \in Calls /\ call.frag \in BOOLEAN
      /\ ("error" \in Troubles /\ "out of sequence" \in Troubles)
  BY DEF Receive, Typed, Calls, Troubles
<1>1. CASE SequencePacket
  <2>1. up # << >> /\ Reply.command \in Noise /\ call.pc # "idle" /\ call' = call
    BY <1>1 DEF SequencePacket, IsHandshake, Noise
  <2>2. ~call.frag
    BY <2>1, NotAmid
  <2>. QED BY <2>1, <2>2 DEF GoesOn
<1>2. CASE fragment_sent
  <2>1. up # << >> /\ call.pc = "sending" /\ call' = [call EXCEPT !.pc = "fragmenting"]
    BY <1>0, <1>2 DEF fragment_sent
  <2>2. ~call.frag
    BY <2>1, NotAmid
  <2>. QED BY <1>0, <2>1, <2>2 DEF GoesOn, Calls
<1>3. CASE db_fragment
  <2>1. Receive("reading") /\ Reply.command = "DB_FRAGMENTED"
        /\ call' = [call EXCEPT !.receive = AppendFragment, !.frag = TRUE, !.blankCount = 0]
    BY <1>3 DEF db_fragment
  <2>. QED BY <1>0, <2>1 DEF TakesFragment, Calls
<1>4. CASE db_data
  <2>1. Receive("reading") /\ Reply.command = "DB_DATA" /\ Finish(IF call.frag THEN AppendFragment ELSE Reply.payload)
    BY <1>4 DEF db_data
  <2>2. AppendFragment \in UnitSeq /\ Reply.payload \in UnitSeq
    BY <1>0, <2>1, Replies
  <2>3. CASE call.frag
    <3>1. Finish(AppendFragment)
      BY <2>1, <2>3
    <3>. QED BY <1>0, <2>1, <2>2, <2>3, <3>1, Finishing DEF Finishes
  <2>4. CASE ~call.frag
    <3>1. Finish(Reply.payload)
      BY <2>1, <2>4
    <3>. QED BY <1>0, <2>1, <2>2, <2>4, <3>1, Finishing DEF Finishes
  <2>. QED BY <1>0, <2>3, <2>4
<1>5. CASE db_done
  <2>1. Receive("reading") /\ Reply.command = "DB_DONE" /\ Finish(Reply.payload)
    BY <1>5 DEF db_done
  <2>2. Reply.payload \in UnitSeq
    BY <1>0, <2>1, Replies
  <2>. QED BY <1>0, <2>1, <2>2, Finishing DEF Finishes
<1>6. CASE data_answer
  <2>1. Receive("data") /\ Reply.command \in Pieces \cup {"JL_ACK", "DB_DONE"} /\ Finish(Reply.payload)
    BY <1>6 DEF data_answer, Pieces
  <2>2. Reply.payload \in UnitSeq
    BY <1>0, <2>1, Replies
  <2>. QED BY <1>0, <2>1, <2>2, Finishing DEF Finishes
<1>7. CASE unhandled_packet \/ not_supported \/ out_of_sequence
  <2>1. Throw("error") \/ Throw("out of sequence")
    BY <1>7 DEF unhandled_packet, not_supported, out_of_sequence
  <2>. QED BY <1>0, <2>1, Throwing DEF Throws
<1>8. CASE blank
  <2>1. (\E pc \in {"reading", "data", "command"} : Receive(pc)) /\ Reply.command \in Noise
    BY <1>8 DEF blank, Noise
  <2>2. ~call.frag /\ call.pc # "idle"
    BY <1>0, <2>1, NotAmid
  <2>3. \/ call'.pc = "idle" /\ call'.receive = << >> /\ call'.trouble = "error" /\ ~call'.frag
        \/ call'.pc = call.pc /\ Same
    BY <1>8, Blanking DEF blank
  <2>. QED BY <2>1, <2>2, <2>3 DEF GoesOn, Throws, Same
<1>9. CASE AtData
  <2>1. (Receive("reading") /\ ReadOn) \/ (Receive("data") /\ Finish(<< >>))
    BY <1>0, <1>9 DEF AtData, handshake
  <2>2. IsHandshake /\ Reply.command \in Noise
    BY <1>9 DEF AtData, handshake, IsHandshake, Noise
  <2>3. CASE Receive("reading") /\ ReadOn
    <3>1. ~call.frag /\ call.pc = "reading"
      BY <1>0, <2>2, <2>3, NotAmid
    <3>2. call'.pc = call.pc /\ Same
      BY <2>3, ReadingOn
    <3>. QED BY <2>2, <3>1, <3>2 DEF GoesOn, Same
  <2>4. CASE Receive("data") /\ Finish(<< >>)
    <3>1. << >> \in UnitSeq
      BY EmptySeq DEF UnitSeq
    <3>2. call'.pc = "idle" /\ call'.receive = << >> /\ call'.trouble = call.trouble /\ ~call'.frag
      BY <2>4, <3>1, Finishing
    <3>. QED BY <1>0, <2>2, <2>4, <3>2 DEF Finishes
  <2>. QED BY <2>1, <2>3, <2>4
<1>. QED BY <1>1, <1>2, <1>3, <1>4, <1>5, <1>6, <1>7, <1>8, <1>9 DEF HostReads

LEMMA PieceSame ==
  ASSUME NEW m, NEW j, NEW n, NEW k, Piece(m, j) = Piece(n, k)
  PROVE  m = n /\ j = k
<1>1. Piece(m, j)[1] = <<m, j>> /\ Piece(n, k)[1] = <<n, k>>
  BY DEF Piece
<1>2. <<m, j>> = <<n, k>>
  BY <1>1
<1>. QED BY <1>2

\* The piece at the head of the wire, and the one before it that the host has.
LEMMA HeadPiece ==
  ASSUME Typed, CInv, up # << >>, Reply.command \in Pieces \cup {"JL_ACK"}
  PROVE  \E n \in 1..Len(answers) : \E from \in Nat :
           /\ from < Len(answers[n]) /\ Reply.payload = Piece(n, from + 1)
           /\ Reply.payload = Part(answers[n], from, 1) /\ answers[n] \in UnitSeq
           /\ Reply.command = "DB_FRAGMENTED" =>
                from + 1 < Len(answers[n]) /\ Follows(Tail(up), 1, n, from + 2)
           /\ Reply.command # "DB_FRAGMENTED" => from + 1 = Len(answers[n])
<1>1. /\ Reply = up[1] /\ 1 \in 1..Len(up) /\ Len(up) \in Nat \ {0} /\ Len(Tail(up)) = Len(up) - 1
      /\ \A i \in 1..Len(up) - 1 : Tail(up)[i] = up[i + 1]
  BY Replies, Taking DEF Typed
<1>2. Link(up, 1, answers)
  BY <1>1 DEF CInv, Linked
<1>a. PICK n \in 1..Len(answers) : \E k \in 1..Len(answers[n]) :
        /\ Reply.payload = Piece(n, k)
        /\ Reply.command = "DB_FRAGMENTED" => k < Len(answers[n]) /\ Follows(up, 1 + 1, n, k + 1)
        /\ Reply.command # "DB_FRAGMENTED" => k = Len(answers[n])
  BY <1>1, <1>2 DEF Link
<1>3. PICK k \in 1..Len(answers[n]) :
        /\ Reply.payload = Piece(n, k)
        /\ Reply.command = "DB_FRAGMENTED" => k < Len(answers[n]) /\ Follows(up, 1 + 1, n, k + 1)
        /\ Reply.command # "DB_FRAGMENTED" => k = Len(answers[n])
  BY <1>a
<1>4. answers[n] \in UnitSeq /\ Len(answers[n]) \in Nat /\ n \in Nat
  <2>1. answers \in Seq(UnitSeq) /\ Len(answers) \in Nat
    BY DEF Typed
  <2>2. answers[n] \in UnitSeq
    BY <1>3, <2>1, ElementOfSeq
  <2>. QED BY <1>3, <2>1, <2>2 DEF UnitSeq
<1>5. PICK from \in Nat : k = from + 1
  <2>1. k - 1 \in Nat /\ k = (k - 1) + 1
    BY <1>3, <1>4
  <2>. QED BY <2>1
<1>6. from < Len(answers[n])
  BY <1>3, <1>4, <1>5
<1>7. Piece(n, from + 1) = <<answers[n][from + 1]>>
  <2>1. answers[n] = Units(n, Len(answers[n]))
    BY <1>3 DEF CInv, Numerals
  <2>. QED BY <1>4, <1>6, <2>1, PieceOf
<1>8. Part(answers[n], from, 1) = <<answers[n][from + 1]>>
  <2>1. 0 \in Nat /\ from + 0 < Len(answers[n])
    BY <1>6
  <2>. QED BY <1>4, <2>1, PartGrows
<1>9. ASSUME Reply.command = "DB_FRAGMENTED"
      PROVE  from + 1 < Len(answers[n]) /\ Follows(Tail(up), 1, n, from + 2)
  <2>1. from + 1 < Len(answers[n]) /\ Follows(up, 2, n, from + 2)
    BY <1>3, <1>5, <1>9
  <2>2. 2 <= Len(up) /\ 1 \in 1..Len(up) - 1
    BY <1>1, <2>1 DEF Follows
  <2>3. Tail(up)[1] = up[2] /\ 1 <= Len(Tail(up))
    BY <1>1, <2>2
  <2>. QED BY <2>1, <2>3 DEF Follows
<1>10. Reply.command # "DB_FRAGMENTED" => from + 1 = Len(answers[n])
  BY <1>3, <1>5
<1>. QED BY <1>3, <1>4, <1>5, <1>6, <1>7, <1>8, <1>9, <1>10

\* With the piece at the head of the wire, what the host has is still a part of one
\* answer: to its end, or the rest comes next.
LEMMA OnePart ==
  ASSUME Typed, CInv, up # << >>, call.pc = "reading", Reply.command \in Pieces
  PROVE  \E n \in 1..Len(answers) : \E from \in Nat, size \in Nat \ {0} :
           /\ from + size <= Len(answers[n]) /\ answers[n] \in UnitSeq
           /\ AppendFragment = Part(answers[n], from, size)
           /\ ~call.frag => Reply.payload = Part(answers[n], from, size)
           /\ Reply.command = "DB_FRAGMENTED" =>
                from + size < Len(answers[n]) /\ Follows(Tail(up), 1, n, from + size + 1)
<1>1. PICK n \in 1..Len(answers), from \in Nat :
           /\ from < Len(answers[n]) /\ Reply.payload = Piece(n, from + 1)
           /\ Reply.payload = Part(answers[n], from, 1) /\ answers[n] \in UnitSeq
           /\ Reply.command = "DB_FRAGMENTED" =>
                from + 1 < Len(answers[n]) /\ Follows(Tail(up), 1, n, from + 2)
           /\ Reply.command # "DB_FRAGMENTED" => from + 1 = Len(answers[n])
  BY HeadPiece
<1>2. Len(answers[n]) \in Nat /\ Reply.payload \in Seq(Unit) /\ n \in Nat
  BY <1>1, Replies DEF UnitSeq, Unit, Typed
<1>3. CASE ~call.frag
  <2>1. call.receive = << >>
    BY <1>3 DEF CInv, Held
  <2>2. AppendFragment = Reply.payload
    BY <1>2, <2>1, ConcatEmptySeq DEF AppendFragment
  <2>3. PICK size \in Nat \ {0} : size = 1
    OBVIOUS
  <2>4. /\ from + size <= Len(answers[n]) /\ from + size + 1 = from + 2
        /\ Reply.payload = Part(answers[n], from, size)
        /\ Reply.command = "DB_FRAGMENTED" => from + size < Len(answers[n])
    BY <1>1, <1>2, <2>3
  <2>. QED BY <1>1, <2>2, <2>3, <2>4
<1>4. CASE call.frag
  <2>1. PICK m \in 1..Len(answers), first \in Nat, size \in Nat \ {0} :
          /\ first + size < Len(answers[m]) /\ call.receive = Part(answers[m], first, size)
          /\ Follows(up, 1, m, first + size + 1)
    BY <1>4 DEF CInv, Held, Has
  <2>2. Reply.payload = Piece(m, first + size + 1)
    BY <2>1, Replies DEF Follows
  <2>3. m = n /\ from = first + size
    <3>1. m = n /\ from + 1 = first + size + 1
      BY <1>1, <2>2, PieceSame
    <3>. QED BY <1>1, <2>1, <3>1
  <2>4. Reply.payload = <<answers[n][first + size + 1]>>
    <3>1. answers[n] = Units(n, Len(answers[n]))
      BY <1>1 DEF CInv, Numerals
    <3>2. Piece(n, from + 1) = <<answers[n][from + 1]>>
      BY <1>1, <1>2, <3>1, PieceOf
    <3>. QED BY <1>1, <2>3, <3>2
  <2>5. first + size < Len(answers[n])
    BY <2>1, <2>3
  <2>6. Part(answers[n], first, size) \o <<answers[n][first + size + 1]>> = Part(answers[n], first, size + 1)
    BY <1>1, <2>5, PartGrows
  <2>7. AppendFragment = Part(answers[n], first, size + 1)
    BY <2>1, <2>3, <2>4, <2>6 DEF AppendFragment
  <2>8. PICK more \in Nat \ {0} : more = size + 1
    OBVIOUS
  <2>9. /\ first + more <= Len(answers[n]) /\ first + more + 1 = from + 2 /\ first + more = from + 1
        /\ AppendFragment = Part(answers[n], first, more)
    BY <1>2, <2>3, <2>5, <2>7, <2>8
  <2>10. Reply.command = "DB_FRAGMENTED" =>
           first + more < Len(answers[n]) /\ Follows(Tail(up), 1, n, first + more + 1)
    BY <1>1, <2>9
  <2>. QED BY <1>1, <1>4, <2>9, <2>10
<1>. QED BY <1>3, <1>4

\* What the device appends to its answers.
LEMMA LinkedReplies ==
  ASSUME NEW a \in Seq(UnitSeq), NEW n, n = Len(a), n \in Nat \ {0}, NEW packets \in Seq(Answers), Replying(n, a[n], packets)
  PROVE  Linked(packets, a)
<1>0. a[n] \in UnitSeq /\ Len(a[n]) \in Nat /\ n \in 1..Len(a)
  <2>1. n \in 1..Len(a)
    OBVIOUS
  <2>2. a[n] \in UnitSeq
    BY <2>1, ElementOfSeq
  <2>. QED BY <2>1, <2>2 DEF UnitSeq
<1>1. CASE Len(packets) = 1 /\ packets[1].command \in {"DB_DONE", "JL_NOT_SUPPORTED"} /\ packets[1].payload = << >>
  <2>1. Link(packets, 1, a)
    BY <1>1 DEF Link, Pieces
  <2>. QED BY <1>1, <2>1 DEF Linked
<1>2. CASE Len(packets) = 1 /\ packets[1].command = "JL_ACK" /\ packets[1].payload = Piece(n, 1) /\ Len(a[n]) = 1
  <2>1. 1 \in 1..Len(a[n])
    BY <1>2
  <2>2. Link(packets, 1, a)
    BY <1>0, <1>2, <2>1 DEF Link, Noise
  <2>. QED BY <1>2, <2>2 DEF Linked
<1>3. CASE /\ Len(a[n]) > 0 /\ Len(packets) = Len(a[n])
           /\ \A i \in 1..Len(packets) :
                packets[i] = Message(IF i < Len(a[n]) THEN "DB_FRAGMENTED" ELSE "DB_DATA", Piece(n, i))
  <2> SUFFICES ASSUME NEW i \in 1..Len(packets) PROVE Link(packets, i, a)
    BY DEF Linked
  <2>1. ASSUME NEW j \in 1..Len(packets)
        PROVE  /\ packets[j].payload = Piece(n, j)
               /\ j < Len(a[n]) => packets[j].command = "DB_FRAGMENTED"
               /\ ~(j < Len(a[n])) => packets[j].command = "DB_DATA"
    <3>1. packets[j] = Message(IF j < Len(a[n]) THEN "DB_FRAGMENTED" ELSE "DB_DATA", Piece(n, j))
      BY <1>3
    <3>. QED BY <3>1 DEF Message
  <2>2. i \in 1..Len(a[n]) /\ packets[i].command \in Pieces /\ packets[i].payload = Piece(n, i)
    BY <1>3, <2>1 DEF Pieces
  <2>3. ASSUME packets[i].command = "DB_FRAGMENTED"
        PROVE  i < Len(a[n]) /\ Follows(packets, i + 1, n, i + 1)
    <3>1. i < Len(a[n])
      BY <2>1, <2>3
    <3>2. i + 1 \in 1..Len(packets)
      BY <1>0, <1>3, <3>1
    <3>3. packets[i + 1].command \in Pieces /\ packets[i + 1].payload = Piece(n, i + 1)
      BY <2>1, <3>2 DEF Pieces
    <3>. QED BY <3>1, <3>2, <3>3 DEF Follows
  <2>4. packets[i].command # "DB_FRAGMENTED" => i = Len(a[n])
    BY <1>0, <2>1, <2>2
  <2>5. packets[i].command \notin Noise \cup {"DB_DONE", "JL_NOT_SUPPORTED"}
    BY <2>2 DEF Pieces, Noise
  <2>. QED BY <1>0, <2>2, <2>3, <2>4, <2>5 DEF Link
<1>. QED BY <1>0, <1>1, <1>2, <1>3 DEF Replying, Message

LEMMA ChainReads ==
  ASSUME TInv, CInv, HostReads
  PROVE  CInv'
<1>0. Typed /\ Reads /\ up \in Seq(Answers) /\ answers \in Seq(UnitSeq)
  BY ReadsStep DEF TInv, Typed
<1>1. up # << >> /\ up' = Tail(up) /\ UNCHANGED answers /\ call \in Calls /\ call' \in Calls
  BY <1>0 DEF Reads, Typed
<1>2. Numerals(answers') /\ Linked(up', answers')
  BY <1>0, <1>1, LinkedTail DEF CInv
<1>3. CASE GoesOn
  <2>1. call.pc # "idle" /\ call.receive = << >>
    BY <1>0, <1>3 DEF GoesOn, Reads, CInv, Held
  <2>. QED BY <1>2, <1>3, <2>1 DEF CInv, Held, GoesOn
<1>4. CASE TakesFragment
  <2>1. PICK n \in 1..Len(answers), from \in Nat, size \in Nat \ {0} :
           /\ from + size < Len(answers[n]) /\ AppendFragment = Part(answers[n], from, size)
           /\ Follows(Tail(up), 1, n, from + size + 1)
    <3>1. Reply.command \in Pieces /\ call.pc = "reading" /\ Reply.command = "DB_FRAGMENTED"
      BY <1>4 DEF TakesFragment, Pieces
    <3>. QED BY <1>0, <1>1, <3>1, OnePart
  <2>2. Has(AppendFragment, up', answers)
    BY <1>1, <2>1 DEF Has
  <2>3. call'.frag /\ call'.pc = "reading" /\ call'.receive = AppendFragment
    BY <1>4 DEF TakesFragment
  <2>4. Held'
    BY <1>1, <2>2, <2>3 DEF Held
  <2>. QED BY <1>2, <2>4 DEF CInv
<1>5. CASE Throws \/ Finishes
  BY <1>2, <1>5 DEF Throws, Finishes, CInv, Held
<1>6. GoesOn \/ TakesFragment \/ Throws \/ Finishes
  BY <1>0, Outcomes DEF CInv
<1>. QED BY <1>3, <1>4, <1>5, <1>6

\* A handshake of the device or none, then what it answers.
LEMMA ChainCompletes ==
  ASSUME TInv, CInv, NEW n \in {0, 1}, NEW answer \in UnitSeq, NEW packets \in Seq(Answers),
         Completes(n, answer, packets)
  PROVE  CInv'
<1>0. /\ Typed /\ up \in Seq(Answers) /\ Len(up) \in Nat /\ answers \in Seq(UnitSeq) /\ Len(answers) \in Nat
      /\ answer = Units(Len(answers) + 1, Len(answer)) /\ UNCHANGED call
  BY DEF TInv, Typed, Completes
<1>1. PICK a \in Seq(UnitSeq) : /\ a = answers' /\ a = Append(answers, answer)
                                /\ Len(a) = Len(answers) + 1 /\ a[Len(answers) + 1] = answer
  <2>1. /\ Append(answers, answer) \in Seq(UnitSeq) /\ Len(Append(answers, answer)) = Len(answers) + 1
        /\ Append(answers, answer)[Len(answers) + 1] = answer
    BY <1>0, Adding
  <2>2. answers' = Append(answers, answer)
    BY DEF Completes
  <2>. QED BY <2>1, <2>2
<1>2. Numerals(a) /\ Linked(up, a) /\ \A receive : Has(receive, up, answers) => Has(receive, up, a)
  BY <1>0, <1>1, LinkedMore DEF CInv
<1>3. Linked(packets, a)
  <2>1. PICK m \in Nat \ {0} : m = Len(a)
    BY <1>0, <1>1
  <2>2. Replying(m, a[m], packets)
    BY <1>1, <2>1 DEF Completes
  <2>. QED BY <2>1, <2>2, LinkedReplies
<1>4. /\ up' \in Seq(Answers) /\ Len(up') = Len(up) + n + Len(packets) /\ Len(packets) \in Nat \ {0}
      /\ \A i \in 1..Len(up) : up'[i] = up[i]
      /\ n = 1 => up'[Len(up) + 1] = Shake
      /\ \A i \in 1..Len(packets) : up'[Len(up) + n + i] = packets[i]
  BY <1>0, Arriving
<1>5. PICK r \in Seq(Answers) : r = up'
  BY <1>4
<1>6. Linked(r, a)
  <2>1. CASE n = 0
    <3>1. Len(r) = Len(up) + Len(packets) /\ \A i \in 1..Len(packets) : r[Len(up) + i] = packets[i]
      BY <1>0, <1>4, <1>5, <2>1
    <3>2. \A i \in 1..Len(up) : r[i] = up[i]
      BY <1>4, <1>5
    <3>. QED BY <1>0, <1>2, <1>3, <3>1, <3>2, LinkedJoined
  <2>2. CASE n = 1
    <3>1. Shake \in Answers /\ Shake.command \in Noise /\ Shake.payload = << >>
      BY <2>2 DEF Completes, Shake, Noise
    <3>2. PICK q \in Seq(Answers) : /\ q = Append(up, Shake) /\ Len(q) = Len(up) + 1 /\ q[Len(up) + 1] = Shake
                                    /\ \A i \in 1..Len(up) : q[i] = up[i]
      <4>1. /\ Append(up, Shake) \in Seq(Answers) /\ Len(Append(up, Shake)) = Len(up) + 1
            /\ Append(up, Shake)[Len(up) + 1] = Shake
            /\ \A i \in 1..Len(up) : Append(up, Shake)[i] = up[i]
        BY <1>0, <3>1, Adding
      <4>. QED BY <4>1
    <3>3. Linked(q, a)
      BY <1>0, <1>2, <3>1, <3>2, LinkedNoise
    <3>4. ASSUME NEW i \in 1..Len(q) PROVE r[i] = q[i]
      <4>1. CASE i \in 1..Len(up)
        BY <1>4, <1>5, <3>2, <4>1
      <4>2. CASE i = Len(up) + 1
        BY <1>4, <1>5, <2>2, <3>2, <4>2
      <4>3. i \in 1..Len(up) \/ i = Len(up) + 1
        BY <1>0, <3>2
      <4>. QED BY <4>1, <4>2, <4>3
    <3>5. Len(r) = Len(q) + Len(packets) /\ \A i \in 1..Len(packets) : r[Len(q) + i] = packets[i]
      BY <1>0, <1>4, <1>5, <2>2, <3>2
    <3>. QED BY <1>3, <3>3, <3>4, <3>5, LinkedJoined
  <2>. QED BY <2>1, <2>2
<1>7. \A receive : Has(receive, up, a) => Has(receive, r, a)
  <2>1. Len(r) >= Len(up) /\ \A i \in 1..Len(up) : r[i] = up[i]
    BY <1>0, <1>4, <1>5
  <2>. QED BY <1>0, <2>1, HasLonger
<1>8. Held'
  <2>1. call.frag => Has(call.receive, r, a)
    BY <1>2, <1>7 DEF CInv, Held
  <2>. QED BY <1>0, <1>1, <1>5, <2>1 DEF CInv, Held
<1>. QED BY <1>1, <1>2, <1>5, <1>6, <1>8 DEF CInv

\* A packet that brings nothing, behind the others.
LEMMA ChainNoise ==
  ASSUME Typed, CInv, NEW p \in Answers, p.command \in Noise, p.payload = << >>, up' = Append(up, p),
         UNCHANGED <<call, answers>>
  PROVE  CInv'
<1>1. PICK r \in Seq(Answers) : r = up' /\ Len(r) = Len(up) + 1 /\ \A i \in 1..Len(up) : r[i] = up[i]
  <2>1. up \in Seq(Answers)
    BY DEF Typed
  <2>2. /\ Append(up, p) \in Seq(Answers) /\ Len(Append(up, p)) = Len(up) + 1
        /\ \A i \in 1..Len(up) : Append(up, p)[i] = up[i]
    BY <2>1, Adding
  <2>. QED BY <2>2
<1>2. Linked(r, answers)
  BY <1>1, LinkedNoise DEF Typed, CInv
<1>3. Has(call.receive, up, answers) => Has(call.receive, r, answers)
  <2>1. up \in Seq(Answers) /\ Len(r) >= Len(up)
    BY <1>1 DEF Typed
  <2>. QED BY <1>1, <2>1, HasLonger
<1>. QED BY <1>1, <1>2, <1>3 DEF CInv, Held

LEMMA ChainStep == TInv /\ CInv /\ [Next]_vars => CInv'
<1> SUFFICES ASSUME TInv, CInv, [Next]_vars PROVE CInv'
  OBVIOUS
<1>0. Typed /\ up \in Seq(Answers) /\ answers \in Seq(UnitSeq) /\ << >> \in UnitSeq
  BY EmptySeq DEF TInv, Typed, UnitSeq
<1>1. CASE HostReads
  BY <1>1, ChainReads
<1>2. CASE Fragments
  <2>1. ~call.frag /\ call'.frag = call.frag /\ call'.receive = call.receive /\ call.pc = "fragmenting"
        /\ UNCHANGED <<up, answers>>
    BY <1>2 DEF Fragments, CInv, Held
  <2>2. call.receive = << >>
    BY <2>1 DEF CInv, Held
  <2>. QED BY <2>1, <2>2 DEF CInv, Held
<1>3. CASE SendsOn
  <2>1. ~call.frag /\ call'.frag = call.frag /\ call'.receive = call.receive /\ call.pc = "command"
        /\ up # << >> /\ up' = Tail(up) /\ UNCHANGED answers
    BY <1>3 DEF SendsOn, Same, CInv, Held
  <2>2. call.receive = << >>
    BY <2>1 DEF CInv, Held
  <2>3. Linked(up', answers')
    BY <1>0, <2>1, LinkedTail DEF CInv
  <2>. QED BY <2>1, <2>2, <2>3 DEF CInv, Held
<1>4. CASE Begins
  BY <1>4 DEF Begins, CInv, Held
<1>5. CASE timeout
  <2>1. ~call'.frag /\ call'.pc = "idle" /\ UNCHANGED <<up, answers>>
    BY <1>0, <1>5, Throwing DEF timeout, Troubles, wires, history
  <2>. QED BY <2>1 DEF CInv, Held
<1>6. CASE take_size \/ UNCHANGED vars
  BY <1>6 DEF take_size, vars, wires, history, CInv, Held
<1>7. CASE send_blank
  <2>1. UNCHANGED <<call, answers>> /\ up = << >> /\ up' = <<Message("BLANK", << >>)>>
    BY <1>7 DEF send_blank, history
  <2>a. /\ Message("BLANK", << >>) \in Answers /\ Message("BLANK", << >>).command \in Noise
        /\ Message("BLANK", << >>).payload = << >>
    BY <1>0 DEF Message, Answers, Noise
  <2>2. PICK p \in Answers : p = Message("BLANK", << >>) /\ p.command \in Noise /\ p.payload = << >>
    BY <2>a
  <2>3. up' = Append(up, p)
    BY <2>1, <2>2
  <2>. QED BY <1>0, <2>1, <2>2, <2>3, ChainNoise
<1>8. CASE TakesPart
  <2>1. UNCHANGED <<call, answers>> /\ up' = Append(up, Shake) /\ Shake \in Answers
    BY <1>8 DEF TakesPart
  <2>2. Shake.command \in Noise /\ Shake.payload = << >>
    BY DEF Shake, Noise
  <2>. QED BY <1>0, <2>1, <2>2, ChainNoise
<1>9. ASSUME NEW n \in {0, 1}, NEW answer \in UnitSeq, NEW packets \in Seq(Answers), Completes(n, answer, packets)
      PROVE  CInv'
  BY <1>9, ChainCompletes
<1>. QED BY <1>1, <1>2, <1>3, <1>4, <1>5, <1>6, <1>7, <1>8, <1>9, Steps

-----------------------------------------------------------------------------
(***************************************************************************)
(* As long as no call has failed: the command in progress is with the      *)
(* device up to some unit, the packets on their way take it from there to  *)
(* where the host is; or it has been carried out and what is left of its   *)
(* answer is on its way.                                                   *)
(***************************************************************************)
Way(q, at, whole, from, to) ==
  /\ at \in [1..(Len(q) + 1) -> 0..Len(whole)]
  /\ at[1] = from /\ at[Len(q) + 1] = to
  /\ \A i \in 1..Len(q) : q[i].command = "SIZE" => at[i + 1] = at[i]
  /\ \A i \in 1..Len(q) : q[i].command # "SIZE" =>
       /\ at[i + 1] = at[i] + Len(q[i].payload)
       /\ \A k \in 1..Len(q[i].payload) : q[i].payload[k] = whole[at[i] + k]
Underway(q, whole, from, to) == \E at : Way(q, at, whole, from, to)

\* Only the last packet makes the command whole, and only when it has been sent.
Finals(q, pc) ==
  /\ \A i \in 1..Len(q) : q[i].command \in Final => i = Len(q) /\ pc \in {"reading", "data"}
  /\ pc = "reading" => q # << >> /\ q[Len(q)].command = "DB_DATA"
  /\ pc = "data" => q # << >> /\ q[Len(q)].command = "JL_DATA"

Goal == IF call.pc \in {"reading", "data"} THEN Len(call.whole) ELSE IF call.pc = "command" THEN 0 ELSE call.offset
Pending ==
  /\ sent = Append(executed, call.whole) /\ ~call.frag
  /\ \A i \in 1..Len(up) : up[i].command \in Noise
  /\ \A k \in 1..Len(device.part) : device.part[k] = call.whole[k]
  /\ Underway(down, call.whole, Len(device.part), Goal)
  /\ Finals(down, call.pc)

\* The first packet that is not noise brings the answer on from where the host has it.
News(p) ==
  LET a == answers[Len(answers)]
  IN  \/ call.pc = "data" /\ p.command = "JL_ACK" /\ p.payload = Piece(Len(answers), 1) /\ Len(a) = 1
      \/ call.pc = "data" /\ p.command = "JL_NOT_SUPPORTED"
      \/ call.pc = "reading" /\ p.command = "DB_DONE" /\ Len(a) = 0 /\ ~call.frag
      \/ \E size \in Nat : /\ call.pc = "reading" /\ p.command \in Pieces /\ p.payload = Piece(Len(answers), size + 1)
                           /\ size < Len(a) /\ call.receive = Part(a, 0, size)
Answered ==
  /\ executed = sent /\ down = << >> /\ device.part = << >> /\ answers # << >>
  /\ \E m \in 1..Len(up) :
       /\ \A i \in 1..Len(up) : up[i].command \in Noise <=> i < m
       /\ \A i \in 1..Len(up) : up[i].command \in Ends <=> i = Len(up)
       /\ News(up[m])

Unfailed ==
  /\ call.pc \in {"idle", "reading", "data"} => hide
  /\ call.pc = "idle" => executed = sent /\ down = << >> /\ up = << >> /\ device.part = << >>
  /\ call.pc # "idle" => Pending \/ Answered

UInv == TInv /\ Sized(down, device.size) /\ CInv /\ (call.trouble = "none" => Unfailed)

LEMMA WayTail ==
  ASSUME NEW q \in Seq(Orders), q # << >>, NEW whole \in UnitSeq, NEW from, NEW to, Underway(q, whole, from, to)
  PROVE  /\ from \in 0..Len(whole)
         /\ Head(q).command = "SIZE" => Underway(Tail(q), whole, from, to)
         /\ Head(q).command # "SIZE" =>
              /\ Underway(Tail(q), whole, from + Len(Head(q).payload), to)
              /\ from + Len(Head(q).payload) <= Len(whole)
              /\ \A k \in 1..Len(Head(q).payload) : Head(q).payload[k] = whole[from + k]
         /\ Len(q) = 1 /\ Head(q).command # "SIZE" => to = from + Len(Head(q).payload)
<1>1. PICK at : Way(q, at, whole, from, to)
  BY DEF Underway
<1>2. PICK r \in Seq(Orders) : r = Tail(q)
  BY Taking
<1>3. /\ Len(q) \in Nat \ {0} /\ Len(r) = Len(q) - 1 /\ Head(q) = q[1] /\ 1 \in 1..Len(q) /\ 1 + 1 = 2
      /\ \A i \in 1..Len(r) : r[i] = q[i + 1] /\ i + 1 \in 1..Len(q)
  BY <1>2, Taking
<1>4. PICK on : on = [i \in 1..(Len(r) + 1) |-> at[i + 1]]
  OBVIOUS
<1>5. \A i \in 1..(Len(r) + 1) : i + 1 \in 1..(Len(q) + 1)
  BY <1>3
<1>6. on \in [1..(Len(r) + 1) -> 0..Len(whole)]
  BY <1>1, <1>4, <1>5 DEF Way
<1>7. on[1] = at[2] /\ on[Len(r) + 1] = to
  <2>1. 1 \in 1..(Len(r) + 1) /\ Len(r) + 1 \in 1..(Len(r) + 1) /\ (Len(r) + 1) + 1 = Len(q) + 1
    BY <1>3
  <2>2. on[1] = at[1 + 1] /\ on[Len(r) + 1] = at[(Len(r) + 1) + 1]
    BY <1>4, <2>1
  <2>. QED BY <1>1, <1>3, <2>1, <2>2 DEF Way
<1>8. ASSUME NEW i \in 1..Len(r)
      PROVE  /\ r[i].command = "SIZE" => on[i + 1] = on[i]
             /\ r[i].command # "SIZE" =>
                  /\ on[i + 1] = on[i] + Len(r[i].payload)
                  /\ \A k \in 1..Len(r[i].payload) : r[i].payload[k] = whole[on[i] + k]
  <2>1. i \in 1..(Len(r) + 1) /\ i + 1 \in 1..(Len(r) + 1)
    BY <1>3
  <2>2. on[i] = at[i + 1] /\ on[i + 1] = at[(i + 1) + 1]
    BY <1>4, <2>1
  <2>3. r[i] = q[i + 1] /\ i + 1 \in 1..Len(q)
    BY <1>3
  <2>4. q[i + 1].command = "SIZE" => at[(i + 1) + 1] = at[i + 1]
    BY <1>1, <2>3 DEF Way
  <2>5. q[i + 1].command # "SIZE" =>
          /\ at[(i + 1) + 1] = at[i + 1] + Len(q[i + 1].payload)
          /\ \A k \in 1..Len(q[i + 1].payload) : q[i + 1].payload[k] = whole[at[i + 1] + k]
    BY <1>1, <2>3 DEF Way
  <2>. QED BY <2>2, <2>3, <2>4, <2>5
<1>9. Underway(r, whole, at[2], to)
  BY <1>6, <1>7, <1>8 DEF Way, Underway
<1>10. at[1] = from /\ from \in 0..Len(whole) /\ at[2] \in 0..Len(whole)
  <2>1. 1 \in 1..(Len(q) + 1) /\ 2 \in 1..(Len(q) + 1)
    BY <1>3
  <2>. QED BY <1>1, <2>1 DEF Way
<1>11. q[1].command = "SIZE" => at[2] = from
  BY <1>1, <1>3, <1>10 DEF Way
<1>12. q[1].command # "SIZE" =>
         /\ at[2] = from + Len(q[1].payload)
         /\ \A k \in 1..Len(q[1].payload) : q[1].payload[k] = whole[from + k]
  BY <1>1, <1>3, <1>10 DEF Way
<1>13. Len(q) = 1 => at[2] = to
  BY <1>1, <1>3 DEF Way
<1>14. Len(whole) \in Nat
  BY DEF UnitSeq
<1>. QED BY <1>2, <1>3, <1>9, <1>10, <1>11, <1>12, <1>13, <1>14

LEMMA WayEmpty ==
  ASSUME NEW whole \in UnitSeq, NEW from \in 0..Len(whole)
  PROVE  Underway(<< >>, whole, from, from)
<1>1. PICK q \in Seq(Orders) : q = << >> /\ Len(q) = 0
  BY EmptySeq
<1>2. PICK at : at = [i \in 1..1 |-> from]
  OBVIOUS
<1>3. Len(q) + 1 = 1 /\ at[1] = from /\ at \in [1..1 -> 0..Len(whole)]
  BY <1>1, <1>2
<1>4. Way(q, at, whole, from, from)
  BY <1>1, <1>3 DEF Way
<1>. QED BY <1>1, <1>4 DEF Underway

LEMMA WayGrown ==
  ASSUME Typed, NEW whole \in UnitSeq, NEW from, NEW to \in Nat, Underway(down, whole, from, to),
         NEW command \in {"DB_DATA", "DB_FRAGMENTED", "JL_DATA", "JL_COMMAND"}, NEW payload \in UnitSeq,
         Sends(command, payload), to + Len(payload) <= Len(whole),
         \A k \in 1..Len(payload) : payload[k] = whole[to + k]
  PROVE  Underway(down', whole, from, to + Len(payload))
<1>1. PICK q \in Seq(Orders) : q = down
  BY DEF Typed
<1>2. PICK r \in Seq(Orders) : r = down'
  BY DEF Sends
<1>3. PICK at : Way(q, at, whole, from, to)
  BY <1>1 DEF Underway
<1>4. PICK end \in Nat : end = to + Len(payload)
  BY DEF UnitSeq
<1>5. Len(q) \in Nat /\ Len(r) \in Nat /\ to \in 0..Len(whole) /\ end \in 0..Len(whole) /\ Len(payload) \in Nat
  <2>1. Len(whole) \in Nat /\ Len(payload) \in Nat
    BY DEF UnitSeq
  <2>. QED BY <1>4, <2>1
<1>6. PICK two \in BOOLEAN : two = Confusing(payload)
  BY DEF Confusing
<1>7. /\ \A i \in 1..Len(q) : r[i] = q[i]
      /\ two => Len(r) = Len(q) + 2 /\ r[Len(q) + 1].command = "SIZE"
      /\ ~two => Len(r) = Len(q) + 1
      /\ r[Len(r)].command # "SIZE" /\ r[Len(r)].payload = payload
  BY <1>1, <1>2, <1>6 DEF Sends, Grown, Order
<1>8. PICK on : on = [i \in 1..(Len(r) + 1) |-> IF i <= Len(q) + 1 THEN at[i] ELSE IF i <= Len(r) THEN to ELSE end]
  OBVIOUS
<1>9. Len(r) \in {Len(q) + 1, Len(q) + 2}
  BY <1>7
<1>10. /\ at \in [1..(Len(q) + 1) -> 0..Len(whole)] /\ at[1] = from /\ at[Len(q) + 1] = to
  BY <1>3 DEF Way
<1>11. /\ \A i \in 1..(Len(q) + 1) : i \in 1..(Len(r) + 1) /\ on[i] = at[i]
       /\ \A i \in (Len(q) + 1)..Len(r) : i \in 1..(Len(r) + 1) /\ on[i] = to
       /\ on[Len(r) + 1] = end
  <2>1. ASSUME NEW i \in 1..(Len(q) + 1) PROVE i \in 1..(Len(r) + 1) /\ on[i] = at[i]
    BY <1>5, <1>8, <1>9
  <2>2. ASSUME NEW i \in (Len(q) + 1)..Len(r) PROVE i \in 1..(Len(r) + 1) /\ on[i] = to
    <3>1. i \in 1..(Len(r) + 1) /\ (i = Len(q) + 1 \/ (~(i <= Len(q) + 1) /\ i <= Len(r)))
      BY <1>5, <2>2
    <3>. QED BY <1>5, <1>8, <1>10, <3>1
  <2>3. on[Len(r) + 1] = end
    <3>1. Len(r) + 1 \in 1..(Len(r) + 1) /\ ~(Len(r) + 1 <= Len(q) + 1) /\ ~(Len(r) + 1 <= Len(r))
      BY <1>5, <1>9
    <3>. QED BY <1>8, <3>1
  <2>. QED BY <2>1, <2>2, <2>3
<1>12. on \in [1..(Len(r) + 1) -> 0..Len(whole)]
  <2>1. ASSUME NEW i \in 1..(Len(r) + 1)
        PROVE  (IF i <= Len(q) + 1 THEN at[i] ELSE IF i <= Len(r) THEN to ELSE end) \in 0..Len(whole)
    <3>1. i <= Len(q) + 1 => i \in 1..(Len(q) + 1)
      BY <1>5
    <3>. QED BY <1>5, <1>10, <3>1
  <2>. QED BY <1>8, <2>1
<1>13. ASSUME NEW i \in 1..Len(r)
       PROVE  /\ r[i].command = "SIZE" => on[i + 1] = on[i]
              /\ r[i].command # "SIZE" =>
                   /\ on[i + 1] = on[i] + Len(r[i].payload)
                   /\ \A k \in 1..Len(r[i].payload) : r[i].payload[k] = whole[on[i] + k]
  <2>1. CASE i \in 1..Len(q)
    <3>1. i \in 1..(Len(q) + 1) /\ i + 1 \in 1..(Len(q) + 1)
      BY <1>5, <2>1
    <3>2. on[i] = at[i] /\ on[i + 1] = at[i + 1] /\ r[i] = q[i]
      BY <1>7, <1>11, <2>1, <3>1
    <3>3. q[i].command = "SIZE" => at[i + 1] = at[i]
      BY <1>3, <2>1 DEF Way
    <3>4. q[i].command # "SIZE" =>
            at[i + 1] = at[i] + Len(q[i].payload) /\ \A k \in 1..Len(q[i].payload) : q[i].payload[k] = whole[at[i] + k]
      BY <1>3, <2>1 DEF Way
    <3>. QED BY <3>2, <3>3, <3>4
  <2>2. CASE i \notin 1..Len(q) /\ i # Len(r)
    <3>1. two /\ i = Len(q) + 1 /\ i + 1 = Len(r)
      BY <1>5, <1>7, <2>2
    <3>2. i \in (Len(q) + 1)..Len(r) /\ i + 1 \in (Len(q) + 1)..Len(r)
      BY <1>5, <3>1
    <3>3. on[i] = to /\ on[i + 1] = to
      BY <1>11, <3>2
    <3>. QED BY <1>7, <3>1, <3>3
  <2>3. CASE i = Len(r)
    <3>1. i \in (Len(q) + 1)..Len(r)
      BY <1>5, <1>9, <2>3
    <3>2. on[i] = to /\ on[i + 1] = end
      BY <1>11, <2>3, <3>1
    <3>. QED BY <1>4, <1>7, <2>3, <3>2
  <2>. QED BY <2>1, <2>2, <2>3
<1>14. on[1] = from
  <2>1. 1 \in 1..(Len(q) + 1)
    BY <1>5
  <2>. QED BY <1>10, <1>11, <2>1
<1>15. Way(r, on, whole, from, end)
  BY <1>11, <1>12, <1>13, <1>14 DEF Way
<1>. QED BY <1>2, <1>4, <1>15 DEF Underway

LEMMA FinalsTail ==
  ASSUME NEW q \in Seq(Orders), q # << >>, NEW pc, Finals(q, pc), Head(q).command \notin Final
  PROVE  Finals(Tail(q), pc)
<1>1. PICK r \in Seq(Orders) : r = Tail(q)
  BY Taking
<1>2. /\ Len(q) \in Nat \ {0} /\ Len(r) = Len(q) - 1 /\ Head(q) = q[1]
      /\ \A i \in 1..Len(r) : r[i] = q[i + 1] /\ i + 1 \in 1..Len(q)
  BY <1>1, Taking
<1>3. ASSUME NEW i \in 1..Len(r), r[i].command \in Final PROVE i = Len(r) /\ pc \in {"reading", "data"}
  <2>1. i + 1 = Len(q) /\ pc \in {"reading", "data"}
    BY <1>2, <1>3 DEF Finals
  <2>. QED BY <1>2, <2>1
<1>4. ASSUME q[Len(q)].command \in Final PROVE r # << >> /\ r[Len(r)] = q[Len(q)]
  <2>1. Len(q) # 1
    BY <1>2, <1>4
  <2>2. Len(r) \in 1..Len(r) /\ Len(r) + 1 = Len(q) /\ r # << >>
    BY <1>2, <2>1
  <2>. QED BY <1>2, <2>2
<1>5. "DB_DATA" \in Final /\ "JL_DATA" \in Final
  BY DEF Final
<1>. QED BY <1>1, <1>3, <1>4, <1>5 DEF Finals

LEMMA FinalsGrown ==
  ASSUME Typed, NEW pc, pc \notin {"reading", "data"}, Finals(down, pc),
         NEW command \in {"DB_DATA", "DB_FRAGMENTED", "JL_DATA", "JL_COMMAND"}, NEW payload, Sends(command, payload),
         NEW on, command = "DB_DATA" => on = "reading", command = "JL_DATA" => on = "data",
         command \notin Final => on \notin {"reading", "data"}
  PROVE  Finals(down', on)
<1>1. PICK q \in Seq(Orders) : q = down
  BY DEF Typed
<1>2. PICK r \in Seq(Orders) : r = down'
  BY DEF Sends
<1>3. Len(q) \in Nat /\ Len(r) \in Nat
  OBVIOUS
<1>4. PICK two \in BOOLEAN : two = Confusing(payload)
  BY DEF Confusing
<1>5. /\ \A i \in 1..Len(q) : r[i] = q[i]
      /\ two => Len(r) = Len(q) + 2 /\ r[Len(q) + 1].command = "SIZE"
      /\ ~two => Len(r) = Len(q) + 1
      /\ r[Len(r)].command = command
  BY <1>1, <1>2, <1>4 DEF Sends, Grown, Order
<1>6. ASSUME NEW i \in 1..Len(r), i # Len(r) PROVE r[i].command \notin Final
  <2>1. CASE i \in 1..Len(q)
    BY <1>1, <1>5, <2>1 DEF Finals
  <2>2. CASE i \notin 1..Len(q)
    <3>1. two /\ i = Len(q) + 1
      BY <1>3, <1>5, <1>6, <2>2
    <3>. QED BY <1>5, <3>1 DEF Final
  <2>. QED BY <2>1, <2>2
<1>7. r # << >>
  <2>1. Len(r) # 0
    BY <1>3, <1>5
  <2>. QED BY <2>1
<1>8. command \in Final => on \in {"reading", "data"}
  BY DEF Final
<1>9. /\ on = "reading" => command = "DB_DATA"
      /\ on = "data" => command = "JL_DATA"
  BY DEF Final
<1>10. Finals(r, on)
  BY <1>5, <1>6, <1>7, <1>8, <1>9 DEF Finals
<1>. QED BY <1>2, <1>10

\* The head of the wire and what is behind it.
LEMMA Behind ==
  ASSUME Typed, up # << >>
  PROVE  /\ Tail(up) \in Seq(Answers) /\ Len(up) \in Nat \ {0} /\ Len(Tail(up)) = Len(up) - 1 /\ Reply = up[1]
         /\ 1 \in 1..Len(up)
         /\ \A i \in 1..Len(Tail(up)) : Tail(up)[i] = up[i + 1] /\ i + 1 \in 1..Len(up)
BY Taking, Replies DEF Typed

LEMMA AnsweredTail ==
  ASSUME Typed, Answered, up # << >>, Reply.command \in Noise, up' = Tail(up),
         UNCHANGED <<down, device, sent, executed, answers>>,
         UNCHANGED <<call.pc, call.receive, call.frag>>
  PROVE  Answered'
<1>1. PICK m \in 1..Len(up) :
       /\ \A i \in 1..Len(up) : up[i].command \in Noise <=> i < m
       /\ \A i \in 1..Len(up) : up[i].command \in Ends <=> i = Len(up)
       /\ News(up[m])
  BY DEF Answered
<1>2. PICK r \in Seq(Answers) : r = up'
  BY Behind
<1>3. /\ Len(up) \in Nat \ {0} /\ Len(r) = Len(up) - 1 /\ Reply = up[1] /\ 1 \in 1..Len(up)
      /\ \A i \in 1..Len(r) : r[i] = up[i + 1] /\ i + 1 \in 1..Len(up)
  BY <1>2, Behind
<1>4. 1 < m
  BY <1>1, <1>3
<1>5. PICK l \in 1..Len(r) : m = l + 1
  <2>1. m - 1 \in 1..Len(r) /\ m = (m - 1) + 1
    BY <1>3, <1>4
  <2>. QED BY <2>1
<1>6. ASSUME NEW i \in 1..Len(r)
      PROVE  (r[i].command \in Noise <=> i < l) /\ (r[i].command \in Ends <=> i = Len(r))
  <2>1. r[i] = up[i + 1] /\ i + 1 \in 1..Len(up)
    BY <1>3
  <2>2. (up[i + 1].command \in Noise <=> i + 1 < m) /\ (up[i + 1].command \in Ends <=> i + 1 = Len(up))
    BY <1>1, <2>1
  <2>3. (i + 1 < m <=> i < l) /\ (i + 1 = Len(up) <=> i = Len(r))
    BY <1>3, <1>5
  <2>. QED BY <2>1, <2>2, <2>3
<1>7. PICK p : p = up[m]
  OBVIOUS
<1>8. r[l] = p /\ News(p)
  BY <1>1, <1>3, <1>5, <1>7
<1>9. News(p)'
  BY <1>8 DEF News
<1>10. up'[l] = p
  BY <1>2, <1>8
<1>. QED BY <1>2, <1>5, <1>6, <1>9, <1>10 DEF Answered

\* Nothing but noise on the wire, and less of it.
LEMMA PendingNoise ==
  ASSUME Typed, Pending, up # << >>, up' = Tail(up)
  PROVE  Reply.command \in Noise /\ \A i \in 1..Len(up') : up'[i].command \in Noise
<1>1. PICK r \in Seq(Answers) : r = up'
  BY Behind
<1>2. /\ Reply = up[1] /\ 1 \in 1..Len(up) /\ \A i \in 1..Len(r) : r[i] = up[i + 1] /\ i + 1 \in 1..Len(up)
  BY <1>1, Behind
<1>3. \A i \in 1..Len(up) : up[i].command \in Noise
  BY DEF Pending
<1>4. \A i \in 1..Len(r) : r[i].command \in Noise
  BY <1>2, <1>3
<1>. QED BY <1>1, <1>2, <1>3, <1>4

\* The packet that brings news is read: all the other packets are of the same answer.
LEMMA FirstNews ==
  ASSUME Typed, Answered, up # << >>, Reply.command \notin Noise
  PROVE  /\ News(Reply)
         /\ \A i \in 1..Len(up) : up[i].command \notin Noise /\ (up[i].command \in Ends <=> i = Len(up))
<1>1. PICK m \in 1..Len(up) :
       /\ \A i \in 1..Len(up) : up[i].command \in Noise <=> i < m
       /\ \A i \in 1..Len(up) : up[i].command \in Ends <=> i = Len(up)
       /\ News(up[m])
  BY DEF Answered
<1>2. Reply = up[1] /\ 1 \in 1..Len(up) /\ Len(up) \in Nat
  BY Behind
<1>3. m = 1
  BY <1>1, <1>2
<1>4. \A i \in 1..Len(up) : ~(i < m)
  BY <1>2, <1>3
<1>. QED BY <1>1, <1>2, <1>3, <1>4

\* A fragment is read.
LEMMA AnsweredPart ==
  ASSUME Typed, CInv, Answered, up # << >>, TakesFragment, up' = Tail(up),
         UNCHANGED <<down, device, sent, executed, answers>>
  PROVE  Answered'
<1>1. /\ Reply.command = "DB_FRAGMENTED" /\ Reply.command \notin Noise /\ Reply.command \in Pieces
      /\ call.pc = "reading" /\ call'.pc = "reading" /\ call'.receive = AppendFragment
  BY DEF TakesFragment, Noise, Pieces
<1>2. /\ News(Reply)
      /\ \A i \in 1..Len(up) : up[i].command \notin Noise /\ (up[i].command \in Ends <=> i = Len(up))
  BY <1>1, FirstNews
<1>3. PICK last \in Nat : last = Len(answers)
  BY DEF Typed
<1>4. PICK size \in Nat : /\ Reply.payload = Piece(last, size + 1)
                          /\ size < Len(answers[last]) /\ call.receive = Part(answers[last], 0, size)
  BY <1>1, <1>2, <1>3 DEF News
<1>5. PICK n \in 1..Len(answers) : \E from \in Nat :
           /\ from < Len(answers[n]) /\ Reply.payload = Piece(n, from + 1) /\ answers[n] \in UnitSeq
           /\ from + 1 < Len(answers[n]) /\ Follows(Tail(up), 1, n, from + 2)
  BY <1>1, HeadPiece
<1>6. PICK from \in Nat :
           /\ from < Len(answers[n]) /\ Reply.payload = Piece(n, from + 1) /\ answers[n] \in UnitSeq
           /\ from + 1 < Len(answers[n]) /\ Follows(Tail(up), 1, n, from + 2)
  BY <1>5
<1>7. n = last /\ from = size
  <2>1. n = last /\ from + 1 = size + 1
    BY <1>4, <1>6, PieceSame
  <2>. QED BY <1>4, <1>6, <2>1
<1>8. PICK a \in UnitSeq : a = answers[last] /\ last \in 1..Len(answers)
  BY <1>6, <1>7
<1>9. Reply.payload = <<a[size + 1]>>
  <2>1. a = Units(last, Len(a)) /\ Len(a) \in Nat /\ size < Len(a)
    BY <1>4, <1>8 DEF CInv, Numerals, UnitSeq
  <2>. QED BY <1>4, <2>1, PieceOf
<1>10. AppendFragment = Part(a, 0, size + 1)
  <2>1. PICK zero \in Nat : zero = 0
    OBVIOUS
  <2>2. zero + size < Len(a) /\ zero + size + 1 = size + 1
    BY <1>4, <1>8, <2>1
  <2>3. Part(a, zero, size) \o <<a[zero + size + 1]>> = Part(a, zero, size + 1)
    BY <1>4, <2>2, PartGrows
  <2>. QED BY <1>4, <1>8, <1>9, <2>1, <2>2, <2>3 DEF AppendFragment
<1>11. PICK r \in Seq(Answers) : r = up'
  BY Behind
<1>12. /\ Len(up) \in Nat \ {0} /\ Len(r) = Len(up) - 1
       /\ \A i \in 1..Len(r) : r[i] = up[i + 1] /\ i + 1 \in 1..Len(up)
  BY <1>11, Behind
<1>13. Follows(r, 1, last, size + 2)
  BY <1>6, <1>7, <1>11
<1>14. 1 \in 1..Len(r) /\ r[1].command \in Pieces /\ r[1].payload = Piece(last, size + 2)
  BY <1>12, <1>13 DEF Follows
<1>15. ASSUME NEW i \in 1..Len(r)
       PROVE  (r[i].command \in Noise <=> i < 1) /\ (r[i].command \in Ends <=> i = Len(r))
  <2>1. r[i] = up[i + 1] /\ i + 1 \in 1..Len(up) /\ (i + 1 = Len(up) <=> i = Len(r)) /\ ~(i < 1)
    BY <1>12
  <2>. QED BY <1>2, <2>1
<1>16. PICK p : p = r[1]
  OBVIOUS
<1>17. News(p)'
  <2>1. PICK more \in Nat : more = size + 1
    OBVIOUS
  <2>2. more + 1 = size + 2 /\ more < Len(a)
    BY <1>4, <1>6, <1>7, <1>8, <2>1
  <2>3. call'.receive = Part(a, 0, more) /\ p.payload = Piece(last, more + 1)
    BY <1>1, <1>10, <1>14, <1>16, <2>1, <2>2
  <2>4. answers' = answers /\ answers[last] = a /\ call'.pc = "reading" /\ p.command \in Pieces
    BY <1>1, <1>8, <1>14, <1>16
  <2>. QED BY <1>3, <2>2, <2>3, <2>4 DEF News
<1>18. up'[1] = p
  BY <1>11, <1>16
<1>19. PICK one \in 1..Len(r) : one = 1
  BY <1>14
<1>. QED BY <1>11, <1>15, <1>17, <1>18, <1>19 DEF Answered

\* The call returns: nothing of its answer is left behind, and all of it is returned.
LEMMA Returned ==
  ASSUME Typed, CInv, Unfailed, HostReads, Reads, Finishes
  PROVE  /\ executed = sent /\ down = << >> /\ device.part = << >> /\ up' = << >> /\ hide
         /\ answers # << >> /\ call'.receive = answers[Len(answers)]
<1>1. up # << >> /\ up' = Tail(up) /\ call.pc \in {"reading", "data"} /\ hide
  BY DEF Reads, Finishes, Unfailed
<1>2. Reply.command \notin Noise
  BY <1>1 DEF Finishes, Noise, Pieces, IsHandshake
<1>3. Answered
  BY <1>1, <1>2, PendingNoise DEF Unfailed
<1>4. /\ News(Reply)
      /\ \A i \in 1..Len(up) : up[i].command \notin Noise /\ (up[i].command \in Ends <=> i = Len(up))
  BY <1>1, <1>2, <1>3, FirstNews
<1>5. PICK last \in Nat : last = Len(answers)
  BY DEF Typed
<1>6. last \in 1..Len(answers) /\ answers # << >>
  BY <1>3, <1>5 DEF Answered, Typed
<1>7. PICK a \in UnitSeq : a = answers[last]
  <2>1. answers \in Seq(UnitSeq)
    BY DEF Typed
  <2>. QED BY <1>6, <2>1, ElementOfSeq
<1>8. Len(a) \in Nat /\ a \in Seq(Unit) /\ a = Units(last, Len(a))
  <2>1. a = Units(last, Len(a))
    BY <1>6, <1>7 DEF CInv, Numerals
  <2>. QED BY <2>1 DEF UnitSeq, Unit
<1>9. Part(a, 0, Len(a)) = a
  <2>1. PICK p : p = Part(a, 0, Len(a))
    OBVIOUS
  <2>2. PICK zero \in Nat : zero = 0
    OBVIOUS
  <2>3. PICK l \in Nat : l = Len(a)
    BY <1>8
  <2>4. a \in Seq(Unit) /\ zero + l <= Len(a) /\ p = Part(a, zero, l)
    BY <1>8, <2>1, <2>2, <2>3
  <2>5. p \in Seq(Unit)
    BY <2>4, Cutting
  <2>6. Len(p) = l
    BY <2>4, Cutting
  <2>7. \A i \in 1..l : p[i] = a[zero + i]
    BY <2>4, Cutting
  <2>8. \A i \in 1..l : p[i] = a[i]
    BY <2>2, <2>7
  <2>9. p = a
    BY <1>8, <2>3, <2>5, <2>6, <2>8, SeqEqual
  <2>. QED BY <2>1, <2>9
<1>10. 1 = Len(up) /\ up' = << >>
  <2>0. PICK r \in Seq(Answers) : r = Tail(up)
    BY <1>1, Behind
  <2>1. Reply = up[1] /\ 1 \in 1..Len(up) /\ Len(r) = Len(up) - 1
    BY <1>1, <2>0, Behind
  <2>2. Reply.command \in Ends
    <3>1. call.pc = "data" => Reply.command # "DB_FRAGMENTED"
      BY <1>1, <1>4 DEF News
    <3>. QED BY <1>1, <1>2, <3>1 DEF Finishes, Ends, Noise, Pieces, IsHandshake
  <2>3. 1 = Len(up)
    BY <1>4, <2>1, <2>2
  <2>4. Len(r) = 0
    BY <2>1, <2>3
  <2>5. r = << >>
    BY <2>4, EmptySeq
  <2>. QED BY <1>1, <2>0, <2>3, <2>5
<1>11. call'.receive = a
  <2>1. CASE Reply.command = "JL_ACK" /\ call.pc = "data"
    <3>1. Reply.payload = Piece(last, 1) /\ Len(a) = 1 /\ call'.receive = Reply.payload
      BY <1>4, <1>5, <1>7, <2>1 DEF News, Finishes, Pieces, IsHandshake
    <3>2. PICK zero \in Nat : zero = 0
      OBVIOUS
    <3>3. Piece(last, zero + 1) = <<a[zero + 1]>>
      <4>1. zero < Len(a)
        BY <3>1, <3>2
      <4>. QED BY <1>5, <1>8, <3>2, <4>1, PieceOf
    <3>4. Part(a, zero, 1) = <<a[zero + 1]>>
      <4>1. zero + zero < Len(a)
        BY <3>1, <3>2
      <4>. QED BY <3>2, <4>1, PartGrows
    <3>5. zero + 1 = 1
      BY <3>2
    <3>. QED BY <1>9, <3>1, <3>2, <3>3, <3>4, <3>5
  <2>2. CASE Reply.command = "DB_DONE" /\ call.pc = "reading"
    <3>1. Len(a) = 0 /\ call'.receive = Reply.payload
      BY <1>4, <1>5, <1>7, <2>2 DEF News, Finishes, Pieces
    <3>2. Link(up, 1, answers) /\ Reply = up[1]
      BY <1>1, Behind DEF CInv, Linked
    <3>3. Reply.payload = << >>
      BY <2>2, <3>2 DEF Link
    <3>. QED BY <1>8, <3>1, <3>3, EmptySeq
  <2>3. CASE Reply.command = "DB_DATA" /\ call.pc = "reading"
    <3>1. PICK size \in Nat : /\ Reply.payload = Piece(last, size + 1)
                              /\ size < Len(a) /\ call.receive = Part(a, 0, size)
      BY <1>4, <1>5, <1>7, <2>3 DEF News, Pieces
    <3>2. PICK n \in 1..Len(answers) : \E from \in Nat :
               Reply.payload = Piece(n, from + 1) /\ from + 1 = Len(answers[n])
      BY <1>1, <2>3, HeadPiece DEF Pieces
    <3>3. PICK from \in Nat : Reply.payload = Piece(n, from + 1) /\ from + 1 = Len(answers[n])
      BY <3>2
    <3>4. size + 1 = Len(a)
      <4>1. n = last /\ from + 1 = size + 1
        BY <3>1, <3>3, PieceSame
      <4>. QED BY <1>7, <3>3, <4>1
    <3>5. Reply.payload = <<a[size + 1]>>
      BY <1>5, <1>8, <3>1, PieceOf
    <3>6. AppendFragment = Part(a, 0, size + 1)
      <4>1. PICK zero \in Nat : zero = 0
        OBVIOUS
      <4>2. zero + size < Len(a) /\ zero + size + 1 = size + 1
        BY <3>1, <4>1
      <4>3. Part(a, zero, size) \o <<a[zero + size + 1]>> = Part(a, zero, size + 1)
        BY <3>1, <4>2, PartGrows
      <4>. QED BY <3>1, <3>5, <4>1, <4>2, <4>3 DEF AppendFragment
    <3>7. call'.receive = AppendFragment
      <4>1. CASE call.frag
        BY <2>3, <4>1 DEF Finishes, Pieces, IsHandshake
      <4>2. CASE ~call.frag
        <5>1. call'.receive = Reply.payload /\ call.receive = << >>
          BY <1>1, <2>3, <4>2 DEF Finishes, Pieces, IsHandshake, CInv, Held
        <5>2. Reply.payload \in UnitSeq
          BY <1>1, Replies
        <5>. QED BY <5>1, <5>2, ConcatEmptySeq DEF AppendFragment, UnitSeq
      <4>. QED BY <4>1, <4>2
    <3>. QED BY <1>9, <3>4, <3>6, <3>7
  <2>4. \/ Reply.command = "JL_ACK" /\ call.pc = "data"
        \/ Reply.command = "DB_DONE" /\ call.pc = "reading"
        \/ Reply.command = "DB_DATA" /\ call.pc = "reading"
    <3>1. call.pc = "data" => Reply.command \in {"JL_ACK", "JL_NOT_SUPPORTED"}
      BY <1>4 DEF News
    <3>. QED BY <1>1, <1>2, <3>1 DEF Finishes, Pieces, Noise, IsHandshake
  <2>. QED BY <2>1, <2>2, <2>3, <2>4
<1>. QED BY <1>1, <1>3, <1>5, <1>6, <1>7, <1>10, <1>11 DEF Answered

LEMMA UnfailedReads ==
  ASSUME TInv, CInv, Unfailed, HostReads, call'.trouble = "none"
  PROVE  Unfailed'
<1>1. /\ Typed /\ Reads /\ up # << >> /\ up' = Tail(up) /\ call.pc # "idle"
      /\ UNCHANGED <<hide, down, device, sent, executed, answers>>
  BY ReadsStep DEF TInv, Reads
<1>2. CASE GoesOn
  <2>1. Goes /\ UNCHANGED <<call.whole, call.offset>> /\ call'.receive = call.receive /\ ~call.frag /\ ~call'.frag
        /\ call'.pc # "idle"
    BY <1>1, <1>2 DEF GoesOn, Reads
  <2>2. CASE Pending
    <3>1. \A i \in 1..Len(up') : up'[i].command \in Noise
      BY <1>1, <2>2, PendingNoise
    <3>2. Goal' = Goal
      BY <2>1 DEF Goal, Goes
    <3>3. Finals(down, call'.pc)
      BY <2>1, <2>2 DEF Goes, Pending, Finals
    <3>4. Pending'
      BY <1>1, <2>1, <2>2, <3>1, <3>2, <3>3 DEF Pending
    <3>. QED BY <1>1, <2>1, <3>4 DEF Unfailed, Goes
  <2>3. CASE Answered
    <3>1. call.pc \in {"reading", "data"}
      BY <2>3 DEF Answered, News
    <3>2. Reply.command \in Noise /\ call'.pc = call.pc
      BY <1>2, <2>1, <3>1 DEF GoesOn, Goes
    <3>3. call'.frag = call.frag
      <4>1. call \in Calls /\ call' \in Calls
        BY <1>1 DEF Typed, Reads
      <4>. QED BY <2>1, <4>1 DEF Calls
    <3>4. Answered'
      BY <1>1, <2>1, <2>3, <3>2, <3>3, AnsweredTail
    <3>. QED BY <1>1, <2>1, <3>2, <3>4 DEF Unfailed
  <2>. QED BY <1>1, <2>2, <2>3 DEF Unfailed
<1>3. CASE TakesFragment
  <2>1. Reply.command \notin Noise /\ call.pc = "reading" /\ call'.pc = "reading"
    BY <1>3 DEF TakesFragment, Noise
  <2>2. Answered
    BY <1>1, <2>1, PendingNoise DEF Unfailed
  <2>3. Answered'
    BY <1>1, <1>3, <2>2, AnsweredPart
  <2>. QED BY <1>1, <2>1, <2>3 DEF Unfailed
<1>4. CASE Finishes
  <2>1. executed = sent /\ down = << >> /\ device.part = << >> /\ up' = << >> /\ hide
    BY <1>1, <1>4, Returned
  <2>2. call'.pc = "idle"
    BY <1>4 DEF Finishes
  <2>. QED BY <1>1, <2>1, <2>2 DEF Unfailed
<1>5. ~Throws
  BY DEF Throws
<1>. QED BY <1>1, <1>2, <1>3, <1>4, <1>5, Outcomes DEF CInv

\* A call begins where the last one has left nothing behind.
LEMMA UnfailedBegins ==
  ASSUME TInv, Unfailed, Begins
  PROVE  Unfailed'
<1>1. /\ Typed /\ call' \in Calls /\ call.pc = "idle" /\ hide
      /\ executed = sent /\ down = << >> /\ up = << >> /\ device.part = << >>
      /\ UNCHANGED <<up, device, executed, answers>> /\ call'.offset = 0 /\ ~call'.frag
      /\ sent' = Append(sent, call'.whole)
  BY DEF TInv, Unfailed, Begins
<1>2. PICK whole \in UnitSeq : whole = call'.whole
  BY <1>1 DEF Calls
<1>3. PICK zero \in Nat : zero = 0
  OBVIOUS
<1>4. Len(whole) \in Nat /\ zero \in 0..Len(whole) /\ zero + Len(whole) = Len(whole) /\ Len(device.part') = zero
      /\ \A k \in 1..Len(whole) : whole[k] = whole[zero + k]
  <2>1. Len(whole) \in Nat
    BY DEF UnitSeq
  <2>2. Len(device.part') = zero
    BY <1>1, <1>3, EmptySeq
  <2>. QED BY <1>3, <2>1, <2>2
<1>5. Underway(down, whole, zero, zero)
  BY <1>1, <1>4, WayEmpty
<1>6. \A pc : pc \notin {"reading", "data"} => Finals(down, pc)
  <2>1. Len(down) = 0
    BY <1>1, EmptySeq
  <2>. QED BY <2>1 DEF Finals
<1>7. ASSUME Underway(down', whole, zero, Goal'), Finals(down', call'.pc) PROVE Pending'
  <2>1. \A i \in 1..Len(up') : up'[i].command \in Noise
    <3>1. Len(up') = 0
      BY <1>1, EmptySeq
    <3>. QED BY <3>1
  <2>2. \A k \in 1..Len(device.part') : device.part'[k] = call.whole'[k]
    BY <1>3, <1>4
  <2>3. call'.whole = call.whole' /\ device.part' = device'.part /\ call'.pc = call.pc'
    OBVIOUS
  <2>. QED BY <1>1, <1>2, <1>4, <1>7, <2>1, <2>2 DEF Pending
<1>8. ASSUME NEW pc, pc = "reading" \/ pc = "data", call'.pc = pc, NEW command, command = "DB_DATA" \/ command = "JL_DATA",
             command = "DB_DATA" <=> pc = "reading", Sends(command, whole), UNCHANGED hide
      PROVE  Unfailed'
  <2>1. Underway(down', whole, zero, zero + Len(whole))
    BY <1>1, <1>3, <1>4, <1>5, <1>8, WayGrown
  <2>2. Goal' = Len(whole)
    BY <1>2, <1>8 DEF Goal
  <2>3. Finals(down', pc)
    <3>1. Finals(down, "fragmenting")
      BY <1>6
    <3>. QED BY <1>1, <1>8, <3>1, FinalsGrown DEF Final
  <2>4. Pending'
    BY <1>4, <1>7, <1>8, <2>1, <2>2, <2>3
  <2>. QED BY <1>1, <1>8, <2>4 DEF Unfailed
<1>9. CASE call'.pc = "command" /\ Sends("JL_COMMAND", << >>)
  <2>1. PICK empty \in UnitSeq : empty = << >> /\ Len(empty) = 0
    BY EmptySeq DEF UnitSeq
  <2>2. Underway(down', whole, zero, zero + Len(empty))
    <3>1. zero + Len(empty) <= Len(whole) /\ \A k \in 1..Len(empty) : empty[k] = whole[zero + k]
      BY <1>3, <1>4, <2>1
    <3>. QED BY <1>1, <1>3, <1>5, <1>9, <2>1, <3>1, WayGrown
  <2>3. Goal' = 0
    BY <1>9 DEF Goal
  <2>4. Finals(down', "command")
    <3>1. Finals(down, "fragmenting")
      BY <1>6
    <3>. QED BY <1>1, <1>9, <3>1, FinalsGrown DEF Final
  <2>5. Pending'
    BY <1>3, <1>7, <1>9, <2>1, <2>2, <2>3, <2>4
  <2>. QED BY <1>9, <2>5 DEF Unfailed
<1>10. CASE call'.pc = "fragmenting" /\ UNCHANGED down
  <2>1. Goal' = zero
    BY <1>1, <1>3, <1>10 DEF Goal
  <2>2. Pending'
    BY <1>5, <1>6, <1>7, <1>10, <2>1
  <2>. QED BY <1>10, <2>2 DEF Unfailed
<1>11. \/ call'.pc = "reading" /\ Sends("DB_DATA", whole) /\ UNCHANGED hide
       \/ call'.pc = "data" /\ Sends("JL_DATA", whole) /\ UNCHANGED hide
       \/ call'.pc = "command" /\ Sends("JL_COMMAND", << >>)
       \/ call'.pc = "fragmenting" /\ UNCHANGED down
  BY <1>2 DEF Begins
<1>. QED BY <1>8, <1>9, <1>10, <1>11

\* The next fragment is the one after those that the device has or that are on their way.
LEMMA UnfailedFragments ==
  ASSUME TInv, Unfailed, Fragments
  PROVE  Unfailed'
<1>1. /\ Typed /\ call \in Calls /\ call.pc = "fragmenting" /\ call.offset \in Nat /\ call.whole \in UnitSeq
      /\ call' \in Calls /\ UNCHANGED <<up, device, sent, executed, answers, call.whole, call.receive, call.frag>>
  BY DEF TInv, Typed, Fragments, Calls
<1>2. Pending /\ ~call'.frag
  BY <1>1 DEF Unfailed, Answered, News, Pending
<1>3. PICK payload \in UnitSeq, next \in Nat :
       /\ Len(payload) = next - call.offset /\ call.offset < next /\ next <= Len(call.whole)
       /\ \A k \in 1..Len(payload) : payload[k] = call.whole[call.offset + k]
       /\ \/ /\ Sends("DB_FRAGMENTED", payload) /\ call'.pc = "sending"
             /\ call'.offset = next /\ next < Len(call.whole)
          \/ Sends("DB_DATA", payload) /\ call'.pc = "reading" /\ hide' /\ next = Len(call.whole)
  BY DEF Fragments
<1>4. PICK whole \in UnitSeq : whole = call.whole
  BY <1>1
<1>5. PICK offset \in Nat : offset = call.offset
  BY <1>1
<1>6. Underway(down, whole, Len(device.part), offset) /\ Finals(down, "fragmenting")
  BY <1>1, <1>2, <1>4, <1>5 DEF Pending, Goal
<1>7. /\ Len(payload) \in Nat /\ offset + Len(payload) = next /\ offset + Len(payload) <= Len(whole)
      /\ \A k \in 1..Len(payload) : payload[k] = whole[offset + k]
  <2>1. Len(payload) \in Nat
    BY DEF UnitSeq
  <2>. QED BY <1>3, <1>4, <1>5, <2>1
<1>8. PICK command \in {"DB_FRAGMENTED", "DB_DATA"} :
        /\ Sends(command, payload)
        /\ command = "DB_FRAGMENTED" => call'.pc = "sending" /\ call'.offset = next
        /\ command = "DB_DATA" => call'.pc = "reading" /\ hide' /\ next = Len(whole)
  BY <1>3, <1>4
<1>9. Underway(down', whole, Len(device.part), offset + Len(payload))
  <2>1. command \in {"DB_DATA", "DB_FRAGMENTED", "JL_DATA", "JL_COMMAND"} /\ Sends(command, payload)
    BY <1>8
  <2>. QED BY <1>1, <1>6, <1>7, <2>1, WayGrown
<1>10. Finals(down', call'.pc)
  <2>1. command \in {"DB_DATA", "DB_FRAGMENTED", "JL_DATA", "JL_COMMAND"} /\ Sends(command, payload)
    BY <1>8
  <2>2. /\ command = "DB_DATA" => call'.pc = "reading"
        /\ command = "JL_DATA" => call'.pc = "data"
        /\ command \notin Final => call'.pc \notin {"reading", "data"}
    BY <1>8 DEF Final
  <2>. QED BY <1>1, <1>6, <2>1, <2>2, FinalsGrown
<1>11. Goal' = offset + Len(payload)
  BY <1>1, <1>4, <1>7, <1>8 DEF Goal
<1>12. Pending'
  BY <1>1, <1>2, <1>4, <1>9, <1>10, <1>11 DEF Pending
<1>. QED BY <1>8, <1>12 DEF Unfailed

\* The data of a JLPacket follow the command.
LEMMA UnfailedSendsOn ==
  ASSUME TInv, Unfailed, SendsOn
  PROVE  Unfailed'
<1>1. /\ Typed /\ call \in Calls /\ call.pc = "command" /\ call.whole \in UnitSeq /\ call'.pc = "data"
      /\ up # << >> /\ up' = Tail(up) /\ hide' /\ Sends("JL_DATA", call.whole)
      /\ UNCHANGED <<device, sent, executed, answers, call.whole, call.receive, call.frag>>
  BY DEF TInv, Typed, SendsOn, Calls, Same
<1>2. Pending
  BY <1>1 DEF Unfailed, Answered, News
<1>3. PICK whole \in UnitSeq : whole = call.whole
  BY <1>1
<1>4. PICK zero \in Nat : zero = 0
  OBVIOUS
<1>5. Underway(down, whole, Len(device.part), zero) /\ Finals(down, "command")
  BY <1>1, <1>2, <1>3, <1>4 DEF Pending, Goal
<1>6. Len(whole) \in Nat /\ zero + Len(whole) = Len(whole) /\ \A k \in 1..Len(whole) : whole[k] = whole[zero + k]
  <2>1. Len(whole) \in Nat
    BY DEF UnitSeq
  <2>. QED BY <1>4, <2>1
<1>7. Underway(down', whole, Len(device.part), zero + Len(whole))
  BY <1>1, <1>3, <1>5, <1>6, WayGrown
<1>8. Finals(down', "data")
  BY <1>1, <1>5, FinalsGrown DEF Final
<1>9. Goal' = Len(whole)
  BY <1>1, <1>3 DEF Goal
<1>10. \A i \in 1..Len(up') : up'[i].command \in Noise
  BY <1>1, <1>2, PendingNoise
<1>11. Pending'
  BY <1>1, <1>2, <1>3, <1>6, <1>7, <1>8, <1>9, <1>10 DEF Pending
<1>. QED BY <1>1, <1>11 DEF Unfailed

LEMMA UnfailedSize ==
  ASSUME TInv, Unfailed, take_size
  PROVE  Unfailed'
<1>1. /\ Typed /\ down \in Seq(Orders) /\ down # << >> /\ down' = Tail(down) /\ Head(down).command = "SIZE"
      /\ device.part' = device.part /\ UNCHANGED <<hide, call, up, sent, executed, answers>>
  <2>1. device' = [device EXCEPT !.size = Len(Request.payload)] /\ device \in Devices /\ Typed
    BY DEF TInv, Typed, take_size
  <2>2. device'.part = device.part
    BY <2>1 DEF Devices
  <2>. QED BY <2>1, <2>2 DEF Typed, take_size, Take, Request, history
<1>2. Pending /\ call.pc # "idle"
  BY <1>1 DEF Unfailed, Answered
<1>3. PICK whole \in UnitSeq : whole = call.whole
  BY <1>1 DEF Typed, Calls
<1>4. Underway(down', whole, Len(device.part), Goal) /\ Finals(down', call.pc)
  <2>1. Underway(down, whole, Len(device.part), Goal) /\ Finals(down, call.pc)
    BY <1>2, <1>3 DEF Pending
  <2>2. Head(down).command \notin Final
    BY <1>1 DEF Final
  <2>. QED BY <1>1, <2>1, <2>2, WayTail, FinalsTail
<1>5. Goal' = Goal
  BY <1>1 DEF Goal
<1>6. Pending'
  BY <1>1, <1>2, <1>3, <1>4, <1>5 DEF Pending
<1>. QED BY <1>1, <1>2, <1>6 DEF Unfailed

\* The command at the head of the wire goes on where the device has it.
LEMMA Onward ==
  ASSUME TInv, Sized(down, device.size), Pending, Takes, Request.command # "SIZE",
         NEW part, part = device.part \o Understood
  PROVE  /\ part \in UnitSeq /\ Len(part) = Len(device.part) + Len(Request.payload)
         /\ Len(part) <= Len(call.whole)
         /\ \A k \in 1..Len(part) : part[k] = call.whole[k]
         /\ Underway(Tail(down), call.whole, Len(part), Goal)
         /\ Len(down) = 1 => Goal = Len(part)
<1>1. Typed /\ down \in Seq(Orders) /\ down # << >> /\ Head(down).command # "SIZE" /\ Request = Head(down)
      /\ Request \in Orders
  BY RequestsTyped DEF TInv, Typed, Takes, Request
<1>2. PICK whole \in UnitSeq : whole = call.whole
  BY <1>1 DEF Typed, Calls
<1>3. PICK had \in Seq(Unit) : had = device.part /\ \A k \in 1..Len(had) : had[k] = whole[k]
  BY <1>1, <1>2 DEF Typed, Devices, UnitSeq, Unit, Pending
<1>4. PICK payload \in Seq(Unit) : payload = Request.payload /\ payload = Understood
  <2>1. Understood = Request.payload
    BY <1>1, UnderstoodWhole
  <2>2. Request.payload \in Seq(Unit)
    BY <1>1 DEF Orders, UnitSeq, Unit
  <2>. QED BY <2>1, <2>2
<1>5. /\ part \in Seq(Unit) /\ Len(part) = Len(had) + Len(payload) /\ Len(had) \in Nat /\ Len(payload) \in Nat
      /\ \A k \in 1..Len(had) : part[k] = had[k]
      /\ \A k \in 1..Len(payload) : part[Len(had) + k] = payload[k]
  <2>1. part = had \o payload
    BY <1>3, <1>4
  <2>. QED BY <2>1, Joining
<1>6. PICK goal : goal = Goal
  OBVIOUS
<1>7. Underway(down, whole, Len(had), goal)
  BY <1>2, <1>3, <1>6 DEF Pending
<1>8. /\ Underway(Tail(down), whole, Len(had) + Len(payload), goal)
      /\ Len(had) + Len(payload) <= Len(whole)
      /\ \A k \in 1..Len(payload) : payload[k] = whole[Len(had) + k]
      /\ Len(down) = 1 => goal = Len(had) + Len(payload)
  <2>1. payload = Head(down).payload
    BY <1>1, <1>4
  <2>. QED BY <1>1, <1>7, <2>1, WayTail
<1>9. ASSUME NEW k \in 1..Len(part) PROVE part[k] = whole[k]
  <2>1. CASE k \in 1..Len(had)
    BY <1>3, <1>5, <2>1
  <2>2. CASE k \notin 1..Len(had)
    <3>1. k - Len(had) \in 1..Len(payload) /\ Len(had) + (k - Len(had)) = k
      BY <1>5, <2>2
    <3>2. part[Len(had) + (k - Len(had))] = payload[k - Len(had)]
      BY <1>5, <3>1
    <3>3. payload[k - Len(had)] = whole[Len(had) + (k - Len(had))]
      BY <1>8, <3>1
    <3>. QED BY <3>1, <3>2, <3>3
  <2>. QED BY <2>1, <2>2
<1>10. part \in UnitSeq
  BY <1>5 DEF UnitSeq, Unit
<1>. QED BY <1>2, <1>3, <1>4, <1>5, <1>6, <1>8, <1>9, <1>10

LEMMA UnfailedPart ==
  ASSUME TInv, Sized(down, device.size), Unfailed, TakesPart
  PROVE  Unfailed'
<1>1. /\ Typed /\ down \in Seq(Orders) /\ down # << >> /\ down' = Tail(down) /\ Head(down).command \notin Final
      /\ Takes /\ Request.command # "SIZE" /\ device'.part = device.part \o Understood
      /\ UNCHANGED <<hide, call, sent, executed, answers>> /\ up' = Append(up, Shake) /\ Shake \in Answers
  BY DEF TInv, Typed, TakesPart, Takes, Request, Final
<1>2. Pending /\ call.pc # "idle"
  BY <1>1 DEF Unfailed, Answered
<1>3. PICK part : part = device.part \o Understood
  OBVIOUS
<1>4. /\ \A k \in 1..Len(part) : part[k] = call.whole[k]
      /\ Underway(down', call.whole, Len(part), Goal)
  BY <1>1, <1>2, <1>3, Onward
<1>5. Finals(down', call.pc)
  BY <1>1, <1>2, FinalsTail DEF Pending
<1>6. PICK r : r = Append(up, Shake)
  OBVIOUS
<1>7. \A i \in 1..Len(r) : r[i].command \in Noise
  <2>1. /\ Len(r) = Len(up) + 1 /\ Len(up) \in Nat /\ r[Len(up) + 1] = Shake
        /\ \A i \in 1..Len(up) : r[i] = up[i]
    BY <1>1, <1>6, Adding DEF Typed
  <2>2. Shake.command \in Noise /\ \A i \in 1..Len(up) : up[i].command \in Noise
    BY <1>2 DEF Pending, Shake, Noise
  <2>3. \A i \in 1..Len(r) : i \in 1..Len(up) \/ i = Len(up) + 1
    BY <2>1
  <2>. QED BY <2>1, <2>2, <2>3
<1>8. Goal' = Goal /\ up' = r
  BY <1>1, <1>6 DEF Goal
<1>9. Pending'
  BY <1>1, <1>2, <1>3, <1>4, <1>5, <1>7, <1>8 DEF Pending
<1>. QED BY <1>1, <1>2, <1>9 DEF Unfailed

LEMMA UnfailedBlank ==
  ASSUME TInv, Unfailed, send_blank
  PROVE  Unfailed'
<1>1. call.pc # "idle" /\ up = << >> /\ up' = <<Message("BLANK", << >>)>>
      /\ UNCHANGED <<hide, call, down, device, sent, executed, answers>>
  BY DEF send_blank, history
<1>2. Pending
  <2>1. Len(up) = 0
    BY <1>1, EmptySeq
  <2>. QED BY <1>1, <2>1 DEF Unfailed, Answered
<1>3. PICK p : p = Message("BLANK", << >>)
  OBVIOUS
<1>4. p.command \in Noise
  BY <1>3 DEF Message, Noise
<1>5. Len(<<p>>) = 1 /\ <<p>>[1] = p
  OBVIOUS
<1>6. \A i \in 1..Len(up') : up'[i].command \in Noise
  BY <1>1, <1>3, <1>4, <1>5
<1>7. Goal' = Goal
  BY <1>1 DEF Goal
<1>8. Pending'
  BY <1>1, <1>2, <1>6, <1>7 DEF Pending
<1>. QED BY <1>1, <1>8 DEF Unfailed

\* The packets of an answer are no noise, and the last of them is its end.
LEMMA RepliesEnd ==
  ASSUME NEW n, NEW answer \in UnitSeq, NEW packets \in Seq(Answers), Replying(n, answer, packets)
  PROVE  \A j \in 1..Len(packets) :
           packets[j].command \notin Noise /\ (packets[j].command \in Ends <=> j = Len(packets))
<1>1. CASE Len(packets) = 1 /\ packets[1].command \in {"DB_DONE", "JL_ACK", "JL_NOT_SUPPORTED"}
  <2>1. \A j \in 1..Len(packets) : j = 1
    BY <1>1
  <2>. QED BY <1>1, <2>1 DEF Noise, Ends
<1>2. CASE /\ Len(packets) = Len(answer)
           /\ \A i \in 1..Len(packets) :
                packets[i] = Message(IF i < Len(answer) THEN "DB_FRAGMENTED" ELSE "DB_DATA", Piece(n, i))
  <2>1. ASSUME NEW j \in 1..Len(packets)
        PROVE  packets[j].command \notin Noise /\ (packets[j].command \in Ends <=> j = Len(packets))
    <3>0. packets[j] = Message(IF j < Len(answer) THEN "DB_FRAGMENTED" ELSE "DB_DATA", Piece(n, j))
      BY <1>2
    <3>1. packets[j].command = IF j < Len(answer) THEN "DB_FRAGMENTED" ELSE "DB_DATA"
      BY <3>0 DEF Message
    <3>2. Len(answer) \in Nat /\ (j < Len(answer) <=> j # Len(packets))
      BY <1>2 DEF UnitSeq
    <3>. QED BY <3>1, <3>2 DEF Noise, Ends
  <2>. QED BY <2>1
<1>. QED BY <1>1, <1>2 DEF Replying, Message

\* The command in progress is whole with the device, and it is the only one.
LEMMA Executed ==
  ASSUME TInv, Sized(down, device.size), Unfailed,
         NEW n, NEW answer \in UnitSeq, NEW packets \in Seq(Answers), Completes(n, answer, packets)
  PROVE  /\ Pending /\ call.pc \in {"reading", "data"} /\ down' = << >> /\ executed' = sent
         /\ Request.command = (IF call.pc = "data" THEN "JL_DATA" ELSE "DB_DATA")
<1>1. /\ Typed /\ down \in Seq(Orders) /\ down # << >> /\ down' = Tail(down) /\ Request = Head(down)
      /\ Takes /\ Request.command \in Final /\ Request.command # "SIZE"
      /\ executed' = Append(executed, device.part \o Understood)
  BY DEF TInv, Typed, Completes, Takes, Request, Final
<1>2. Pending /\ call.pc # "idle"
  BY <1>1 DEF Unfailed, Answered
<1>3. PICK r \in Seq(Orders) : r = Tail(down)
  BY <1>1, Taking
<1>4. Request = down[1] /\ 1 \in 1..Len(down) /\ Len(down) \in Nat /\ Len(r) = Len(down) - 1
  BY <1>1, <1>3, Taking
<1>5. 1 = Len(down) /\ call.pc \in {"reading", "data"}
  BY <1>1, <1>2, <1>4 DEF Pending, Finals
<1>6. /\ call.pc = "reading" => Request.command = "DB_DATA"
      /\ call.pc = "data" => Request.command = "JL_DATA"
  BY <1>2, <1>4, <1>5 DEF Pending, Finals
<1>7. r = << >>
  <2>0. PICK l \in Nat : l = Len(down) /\ Len(r) = l - 1
    BY <1>4
  <2>1. Len(r) = 0
    BY <1>5, <2>0
  <2>. QED BY <2>1, EmptySeq
<1>8. PICK part : part = device.part \o Understood
  OBVIOUS
<1>9. PICK whole \in UnitSeq : whole = call.whole
  BY <1>1 DEF Typed, Calls
<1>10. part = whole
  <2>1. /\ part \in UnitSeq /\ \A k \in 1..Len(part) : part[k] = whole[k]
        /\ Goal = Len(part)
    BY <1>1, <1>2, <1>5, <1>8, <1>9, Onward
  <2>2. Len(part) = Len(whole)
    BY <1>5, <1>9, <2>1 DEF Goal
  <2>3. part \in Seq(Unit) /\ whole \in Seq(Unit)
    BY <2>1 DEF UnitSeq, Unit
  <2>. QED BY <2>1, <2>2, <2>3, SeqEqual
<1>11. executed' = sent
  BY <1>1, <1>2, <1>8, <1>9, <1>10 DEF Pending
<1>. QED BY <1>1, <1>2, <1>3, <1>5, <1>6, <1>7, <1>11

LEMMA UnfailedCompletes ==
  ASSUME TInv, Sized(down, device.size), CInv, Unfailed,
         NEW n \in {0, 1}, NEW answer \in UnitSeq, NEW packets \in Seq(Answers), Completes(n, answer, packets)
  PROVE  Unfailed'
<1>1. /\ Typed /\ Pending /\ call.pc \in {"reading", "data"} /\ down' = << >> /\ executed' = sent
      /\ Request.command = (IF call.pc = "data" THEN "JL_DATA" ELSE "DB_DATA")
      /\ UNCHANGED <<hide, call, sent>> /\ device'.part = << >>
  BY Executed DEF TInv, Completes
<1>2. PICK a \in Seq(UnitSeq) : a = answers'
  BY Adding DEF TInv, Typed, Completes
<1>3. PICK last \in Nat : last = Len(answers) + 1
  BY DEF TInv, Typed
<1>4. Len(a) = last /\ a[last] = answer /\ a # << >> /\ Replying(last, answer, packets)
  <2>1. Len(a) = last /\ a[last] = answer
    BY <1>2, <1>3, Adding DEF TInv, Typed, Completes
  <2>2. Len(answers) \in Nat
    BY DEF TInv, Typed
  <2>. QED BY <1>3, <2>1, <2>2 DEF Completes
<1>5. PICK r \in Seq(Answers) : r = up'
  BY <1>1, Arriving
<1>6. /\ Len(r) = Len(up) + n + Len(packets) /\ Len(packets) \in Nat \ {0} /\ Len(up) \in Nat
      /\ \A i \in 1..Len(up) : r[i] = up[i]
      /\ n = 1 => r[Len(up) + 1] = Shake
      /\ \A i \in 1..Len(packets) : r[Len(up) + n + i] = packets[i]
  BY <1>1, <1>5, Arriving
<1>7. PICK m \in 1..Len(r) : m = Len(up) + n + 1
  BY <1>6
<1>8. ASSUME NEW i \in 1..Len(r)
      PROVE  (r[i].command \in Noise <=> i < m) /\ (r[i].command \in Ends <=> i = Len(r))
  <2>0. \A c \in Noise : c \notin Ends
    BY DEF Noise, Ends
  <2>1. CASE i \in 1..Len(up)
    <3>1. r[i].command \in Noise
      BY <1>1, <1>6, <2>1 DEF Pending
    <3>2. i < m /\ i # Len(r)
      BY <1>6, <1>7, <2>1
    <3>. QED BY <2>0, <3>1, <3>2
  <2>2. CASE n = 1 /\ i = Len(up) + 1
    <3>1. r[i].command \in Noise
      BY <1>6, <2>2 DEF Shake, Noise
    <3>2. i < m /\ i # Len(r)
      BY <1>6, <1>7, <2>2
    <3>. QED BY <2>0, <3>1, <3>2
  <2>3. CASE i \notin 1..Len(up) /\ ~(n = 1 /\ i = Len(up) + 1)
    <3>1. PICK j \in 1..Len(packets) : i = Len(up) + n + j
      <4>1. i - (Len(up) + n) \in 1..Len(packets) /\ i = Len(up) + n + (i - (Len(up) + n))
        BY <1>6, <2>3
      <4>. QED BY <4>1
    <3>2. r[i] = packets[j]
      BY <1>6, <3>1
    <3>3. packets[j].command \notin Noise /\ (packets[j].command \in Ends <=> j = Len(packets))
      BY <1>4, RepliesEnd
    <3>4. ~(i < m) /\ (j = Len(packets) <=> i = Len(r))
      <4>1. PICK u \in Nat, l \in Nat : u = Len(up) + n /\ l = Len(packets) /\ Len(r) = u + l
        BY <1>6
      <4>2. i = u + j /\ m = u + 1 /\ j \in 1..l
        BY <1>7, <3>1, <4>1
      <4>3. j \in Nat /\ j >= 1 /\ u \in Nat /\ l \in Nat
        BY <4>1, <4>2
      <4>4. ~(u + j < u + 1)
        BY <4>3
      <4>5. j = l <=> u + j = u + l
        BY <4>3
      <4>. QED BY <4>1, <4>2, <4>4, <4>5
    <3>. QED BY <3>2, <3>3, <3>4
  <2>. QED BY <2>1, <2>2, <2>3
<1>9. PICK p : p = packets[1]
  OBVIOUS
<1>10. up'[m] = p
  <2>1. 1 \in 1..Len(packets)
    BY <1>6
  <2>. QED BY <1>5, <1>6, <1>7, <1>9, <2>1
<1>11. News(p)'
  <2>1. ~call.frag /\ call.receive = << >> /\ UNCHANGED call
    BY <1>1 DEF Pending, CInv, Held
  <2>2. CASE Request.command = "JL_DATA"
    <3>1. call.pc = "data"
      BY <1>1, <2>2
    <3>2. \/ p.command = "JL_ACK" /\ p.payload = Piece(last, 1) /\ Len(answer) = 1
          \/ p.command = "JL_NOT_SUPPORTED"
      BY <1>4, <1>9, <2>2 DEF Replying, Message
    <3>. QED BY <1>2, <1>4, <2>1, <3>1, <3>2 DEF News
  <2>3. CASE Request.command = "DB_DATA"
    <3>1. call.pc = "reading"
      BY <1>1, <2>3
    <3>2. CASE p.command = "DB_DONE" /\ Len(answer) = 0
      BY <1>2, <1>4, <2>1, <3>1, <3>2 DEF News
    <3>3. CASE p.command \in Pieces /\ p.payload = Piece(last, 1) /\ Len(answer) > 0
      <4>1. PICK zero \in Nat : zero = 0
        OBVIOUS
      <4>2. zero + 1 = 1 /\ zero < Len(answer)
        BY <3>3, <4>1
      <4>3. Part(answer, 0, zero) = << >>
        <5>1. zero + zero < Len(answer)
          BY <4>1, <4>2
        <5>2. Part(answer, zero, 0) = << >>
          BY <4>1, <5>1, PartGrows
        <5>. QED BY <4>1, <5>2
      <4>4. call.receive' = Part(answer, 0, zero) /\ call.pc' = "reading" /\ p.payload = Piece(last, zero + 1)
        BY <2>1, <3>1, <3>3, <4>2, <4>3
      <4>. QED BY <1>2, <1>4, <3>3, <4>1, <4>2, <4>4 DEF News
    <3>4. \/ p.command = "DB_DONE" /\ Len(answer) = 0
          \/ p.command \in Pieces /\ p.payload = Piece(last, 1) /\ Len(answer) > 0
      <4>1. 1 \in 1..Len(packets)
        BY <1>6
      <4>2. \/ Len(answer) = 0 /\ p = Message("DB_DONE", << >>)
            \/ Len(answer) > 0 /\ p = Message(IF 1 < Len(answer) THEN "DB_FRAGMENTED" ELSE "DB_DATA", Piece(last, 1))
        BY <1>4, <1>9, <2>3, <4>1 DEF Replying
      <4>. QED BY <4>2 DEF Message, Pieces
    <3>. QED BY <3>2, <3>3, <3>4
  <2>. QED BY <1>1, <2>2, <2>3
<1>12. Answered'
  BY <1>1, <1>2, <1>4, <1>5, <1>7, <1>8, <1>10, <1>11 DEF Answered
<1>. QED BY <1>1, <1>12 DEF Unfailed

LEMMA UInit == Init => UInv
<1> SUFFICES ASSUME Init PROVE UInv
  OBVIOUS
<1>1. down = << >> /\ up = << >> /\ answers = << >> /\ call = NoCall /\ hide /\ executed = sent /\ device.part = << >>
  BY DEF Init
<1>2. Len(down) = 0 /\ Len(up) = 0 /\ Len(answers) = 0
  BY <1>1, EmptySeq
<1>3. Sized(down, device.size) /\ Numerals(answers) /\ Linked(up, answers)
  BY <1>2 DEF Sized, Numerals, Linked
<1>4. Held /\ Unfailed
  BY <1>1 DEF NoCall, Held, Unfailed
<1>. QED BY <1>3, <1>4, TypeInit DEF UInv, CInv

\* Trouble stays.
LEMMA Troubled ==
  ASSUME TInv, CInv, [Next]_vars, call'.trouble = "none"
  PROVE  call.trouble = "none" /\ ~timeout
<1>1. Typed
  BY DEF TInv
<1>2. ~timeout
  <2>1. ASSUME timeout PROVE FALSE
    <3>1. call'.trouble = "timeout"
      BY <1>1, <2>1, Throwing DEF timeout, Troubles
    <3>. QED BY <3>1
  <2>. QED BY <2>1
<1>3. CASE HostReads
  <2>1. GoesOn \/ TakesFragment \/ Throws \/ Finishes
    BY <1>1, <1>3, Outcomes DEF CInv
  <2>2. call.trouble = "none"
    BY <2>1 DEF GoesOn, TakesFragment, Throws, Finishes
  <2>. QED BY <1>2, <2>2
<1>4. CASE ~HostReads
  <2>1. UNCHANGED call.trouble
    BY <1>2, <1>4, Steps DEF Fragments, SendsOn, Same, Begins, take_size, send_blank, TakesPart, Completes, vars
  <2>. QED BY <1>2, <2>1
<1>. QED BY <1>3, <1>4

LEMMA UStep == UInv /\ [Next]_vars => UInv'
<1> SUFFICES ASSUME UInv, [Next]_vars PROVE UInv'
  OBVIOUS
<1>1. TInv' /\ Sized(down', device'.size) /\ CInv'
  BY TypeStep, SizedStep, ChainStep DEF UInv
<1>2. ASSUME call'.trouble = "none" PROVE Unfailed'
  <2>1. TInv /\ Sized(down, device.size) /\ CInv /\ Unfailed /\ ~timeout
    BY <1>2, Troubled DEF UInv
  <2>2. CASE UNCHANGED vars
    <3>1. UNCHANGED <<hide, call, down, up, device, sent, executed, answers>>
      BY <2>2 DEF vars, wires, history
    <3>. QED BY <2>1, <3>1 DEF Unfailed, Pending, Answered, News, Goal
  <2>. QED BY <1>2, <2>1, <2>2, Steps, UnfailedReads, UnfailedFragments, UnfailedSendsOn, UnfailedBegins,
              UnfailedSize, UnfailedPart, UnfailedBlank, UnfailedCompletes
<1>. QED BY <1>1, <1>2 DEF UInv

-----------------------------------------------------------------------------
(***************************************************************************)
(* The steps of RequestReply.                                              *)
(***************************************************************************)
LEMMA Grew ==
  ASSUME NEW D, NEW q \in Seq(D), NEW e \in D
  PROVE  Requests!Grows(q, Append(q, e))
<1>1. PICK r \in Seq(D) : r = Append(q, e) /\ Len(r) = Len(q) + 1 /\ Len(q) \in Nat /\ r[Len(q) + 1] = e
  <2>1. /\ Append(q, e) \in Seq(D) /\ Len(Append(q, e)) = Len(q) + 1 /\ Len(q) \in Nat
        /\ Append(q, e)[Len(q) + 1] = e
    BY Adding
  <2>. QED BY <2>1
<1>2. r # << >> /\ r[Len(r)] = e
  <2>1. r[Len(r)] = e
    BY <1>1
  <2>2. Len(r) # 0
    BY <1>1
  <2>. QED BY <2>1, <2>2, EmptySeq
<1>. QED BY <1>1, <1>2 DEF Requests!Grows, Requests!Last

LEMMA Stays ==
  ASSUME UNCHANGED <<sent, executed, answers>>,
         UNCHANGED call \/ (call.pc # "idle" /\ call'.pc # "idle" /\ call'.trouble = call.trouble)
  PROVE  UNCHANGED Requests!callVars
BY DEF Requests!callVars

LEMMA Failing ==
  ASSUME UNCHANGED <<sent, executed, answers>>, call.pc # "idle", Throws
  PROVE  Requests!Next
BY DEF Requests!Next, Requests!Fail, Throws

LEMMA Asking ==
  ASSUME Typed, Begins
  PROVE  Requests!Next
<1>1. /\ call' \in Calls /\ call.pc = "idle" /\ call'.trouble = call.trouble /\ UNCHANGED <<executed, answers>>
      /\ sent' = Append(sent, call'.whole)
      /\ call'.pc # "idle"
  BY DEF Begins
<1>2. PICK whole \in UnitSeq : whole = call'.whole
  BY <1>1 DEF Calls
<1>3. Requests!Grows(sent, sent')
  BY <1>1, <1>2, Grew DEF Typed
<1>. QED BY <1>1, <1>3 DEF Requests!Next, Requests!Ask

LEMMA Executing ==
  ASSUME UInv, NEW n \in {0, 1}, NEW answer \in UnitSeq, NEW packets \in Seq(Answers),
         Completes(n, answer, packets)
  PROVE  Requests!Next
<1>1. Typed /\ UNCHANGED <<call, sent>>
  BY DEF UInv, TInv, Completes
<1>2. Requests!Grows(answers, answers')
  BY <1>1, Grew DEF Typed, Completes
<1>3. Requests!Grows(executed, executed')
  <2>1. PICK command \in UnitSeq : executed' = Append(executed, command)
    BY DEF Completes
  <2>. QED BY <1>1, <2>1, Grew DEF Typed
<1>4. call.trouble = "none" => call.pc # "idle" /\ executed' = sent
  <2>1. ASSUME call.trouble = "none" PROVE call.pc # "idle" /\ executed' = sent
    BY <2>1, Executed DEF UInv
  <2>. QED BY <2>1
<1>. QED BY <1>1, <1>2, <1>3, <1>4 DEF Requests!Next, Requests!Execute

LEMMA PartsOf ==
  ASSUME NEW a \in UnitSeq, NEW from \in Nat, NEW size \in Nat \ {0}, from + size <= Len(a)
  PROVE  Part(a, from, size) \in Requests!PartOf(a)
<1>1. Len(a) \in Nat
  BY DEF UnitSeq
<1>2. from + 1 \in 1..Len(a) /\ from + size \in 1..Len(a)
  BY <1>1
<1>. QED BY <1>2 DEF Part, Requests!PartOf

\* Whatever has failed before, what a call returns is a part of one answer.
LEMMA NoMixture ==
  ASSUME Typed, CInv, up # << >>, Finishes
  PROVE  call'.receive = << >> \/ \E n \in 1..Len(answers) : call'.receive \in Requests!PartOf(answers[n])
<1>1. Link(up, 1, answers) /\ Reply = up[1]
  BY Behind DEF CInv, Linked
<1>2. CASE call.pc = "reading" /\ Reply.command = "DB_DATA"
  <2>1. PICK n \in 1..Len(answers), from \in Nat, size \in Nat \ {0} :
           /\ from + size <= Len(answers[n]) /\ answers[n] \in UnitSeq
           /\ AppendFragment = Part(answers[n], from, size)
           /\ ~call.frag => Reply.payload = Part(answers[n], from, size)
    BY <1>2, OnePart DEF Pieces
  <2>2. call'.receive = Part(answers[n], from, size)
    BY <1>2, <2>1 DEF Finishes, Pieces, IsHandshake
  <2>. QED BY <2>1, <2>2, PartsOf
<1>3. CASE Reply.command = "DB_DONE"
  <2>1. Reply.payload = << >>
    BY <1>1, <1>3 DEF Link
  <2>. QED BY <1>3, <2>1 DEF Finishes, Pieces, IsHandshake
<1>4. CASE call.pc = "data" /\ Reply.command \in Pieces \cup {"JL_ACK"}
  <2>1. PICK n \in 1..Len(answers), from \in Nat :
           from < Len(answers[n]) /\ Reply.payload = Part(answers[n], from, 1) /\ answers[n] \in UnitSeq
    BY <1>4, HeadPiece
  <2>2. PICK one \in Nat \ {0} : one = 1
    OBVIOUS
  <2>3. Len(answers[n]) \in Nat
    BY <2>1 DEF UnitSeq
  <2>4. from + one <= Len(answers[n])
    BY <2>1, <2>2, <2>3
  <2>5. Reply.payload \in Requests!PartOf(answers[n])
    BY <2>1, <2>2, <2>4, PartsOf
  <2>6. call'.receive = Reply.payload
    BY <1>4 DEF Finishes, Pieces, IsHandshake
  <2>. QED BY <2>5, <2>6
<1>5. CASE call'.receive = << >>
  BY <1>5
<1>. QED BY <1>2, <1>3, <1>4, <1>5 DEF Finishes

LEMMA Returning ==
  ASSUME UInv, HostReads, Reads, Finishes
  PROVE  Requests!Next
<1>1. /\ Typed /\ CInv /\ UNCHANGED <<sent, executed, answers>> /\ up # << >>
      /\ call.pc # "idle" /\ call'.pc = "idle" /\ call'.trouble = call.trouble
  BY DEF UInv, TInv, Reads, Finishes
<1>2. DOMAIN answers = 1..Len(answers)
  BY <1>1 DEF Typed
<1>3. call.trouble # "none" =>
        call'.receive \in {<< >>} \cup UNION {Requests!PartOf(answers[n]) : n \in DOMAIN answers}
  <2>1. CASE call'.receive = << >>
    BY <2>1
  <2>2. ASSUME NEW n \in DOMAIN answers, call'.receive \in Requests!PartOf(answers[n])
        PROVE  call'.receive \in UNION {Requests!PartOf(answers[k]) : k \in DOMAIN answers}
    <3>1. Requests!PartOf(answers[n]) \in {Requests!PartOf(answers[k]) : k \in DOMAIN answers}
      OBVIOUS
    <3>. QED BY <2>2, <3>1
  <2>. QED BY <1>1, <1>2, <2>1, <2>2, NoMixture
<1>4. call.trouble = "none" => executed = sent /\ call'.receive = answers'[Len(answers')]
  BY <1>1, Returned DEF UInv
<1>. QED BY <1>1, <1>3, <1>4 DEF Requests!Next, Requests!Return, Requests!Last

\* SocketPacket implements RequestReply: whatever the sizes, the fragments, the
\* handshakes and the blank packets, every command is carried out whole and once and
\* its call returns the whole of its answer until a call fails, and after that
\* no call returns a mixture of two answers (MakeNextFragment, RawSend,
\* AppendFragment).
THEOREM Refinement == Spec => ImplementsRequestReply
<1>1. Init => Requests!Init
  BY DEF Init, NoCall, Requests!Init
<1>2. UInv /\ [Next]_vars => [Requests!Next]_(Requests!callVars)
  <2> SUFFICES ASSUME UInv, [Next]_vars PROVE Requests!Next \/ UNCHANGED Requests!callVars
    OBVIOUS
  <2>0. Typed /\ TInv /\ CInv
    BY DEF UInv, TInv
  <2>1. CASE HostReads
    <3>1. Reads /\ call.pc # "idle" /\ UNCHANGED <<sent, executed, answers>>
      BY <2>0, <2>1, ReadsStep DEF Reads
    <3>2. CASE GoesOn \/ TakesFragment
      <4>1. call'.pc # "idle" /\ call'.trouble = call.trouble
        BY <3>2 DEF GoesOn, TakesFragment
      <4>. QED BY <3>1, <4>1, Stays
    <3>3. CASE Throws
      BY <3>1, <3>3, Failing
    <3>4. CASE Finishes
      BY <2>1, <3>1, <3>4, Returning
    <3>. QED BY <2>0, <2>1, <3>2, <3>3, <3>4, Outcomes DEF CInv
  <2>2. CASE Fragments
    <3>1. call.pc # "idle" /\ call'.pc # "idle" /\ call'.trouble = call.trouble /\ UNCHANGED <<sent, executed, answers>>
      BY <2>2 DEF Fragments
    <3>. QED BY <3>1, Stays
  <2>3. CASE SendsOn
    <3>1. call.pc # "idle" /\ call'.pc # "idle" /\ call'.trouble = call.trouble /\ UNCHANGED <<sent, executed, answers>>
      BY <2>3 DEF SendsOn, Same
    <3>. QED BY <3>1, Stays
  <2>4. CASE Begins
    BY <2>0, <2>4, Asking
  <2>5. CASE timeout
    <3>1. Throws /\ call.pc # "idle" /\ UNCHANGED <<sent, executed, answers>>
      BY <2>0, <2>5, Throwing DEF timeout, Troubles, Throws, history
    <3>. QED BY <3>1, Failing
  <2>6. CASE take_size \/ send_blank \/ TakesPart \/ UNCHANGED vars
    <3>1. UNCHANGED <<call, sent, executed, answers>>
      BY <2>6 DEF take_size, send_blank, TakesPart, vars, history
    <3>. QED BY <3>1, Stays
  <2>7. ASSUME NEW n \in {0, 1}, NEW answer \in UnitSeq, NEW packets \in Seq(Answers), Completes(n, answer, packets)
        PROVE  Requests!Next
    BY <2>7, Executing
  <2>. QED BY <2>0, <2>1, <2>2, <2>3, <2>4, <2>5, <2>6, <2>7, Steps
<1>. QED BY <1>1, <1>2, UInit, UStep, PTL DEF Spec, ImplementsRequestReply, Requests!Spec
=============================================================================
