----------------------------- MODULE RequestReply -----------------------------
(***************************************************************************)
(* What the comments of Socket::Packet in socket.cc promise: it "sends the *)
(* send packet down to the device", in fragments if it must, and "returns  *)
(* the response in receive, defragmenting if needed".  A call is a request *)
(* that the device carries out once and answers, or it fails; there are no *)
(* packets, fragments, handshakes or sizes here.  A call that has failed   *)
(* leaves its answer, or the rest of it, to a later one: from then on only *)
(* that is promised that an answer is no mixture of two.  SocketPacket is  *)
(* shown to implement this specification.                                  *)
(***************************************************************************)
EXTENDS Sequences, Naturals

VARIABLES
  busy,       \* a call is in progress
  failed,     \* a call has failed
  sent,       \* the requests, in order
  executed,   \* the requests the device has carried out
  answers,    \* its answers
  result      \* what the last call has returned

callVars == <<busy, failed, sent, executed, answers, result>>

Last(seq) == seq[Len(seq)]
Grows(seq, longer) == longer # <<>> /\ longer = Append(seq, Last(longer))

\* An answer, or what is left of one when some of it has been read.
PartOf(answer) == {SubSeq(answer, i, j) : i, j \in 1..Len(answer)} \cup {<<>>}

Init ==
  /\ busy = FALSE /\ failed = FALSE
  /\ sent = <<>> /\ executed = <<>> /\ answers = <<>>
  /\ result = <<>>

Ask ==
  /\ ~busy /\ busy'
  /\ Grows(sent, sent')
  /\ result' = <<>>
  /\ UNCHANGED <<failed, executed, answers>>

\* The device has the whole request before it, and answers it once.
Execute ==
  /\ Grows(executed, executed') /\ Grows(answers, answers')
  /\ ~failed => busy /\ executed' = sent
  /\ UNCHANGED <<busy, failed, sent, result>>

Return ==
  /\ busy /\ ~busy'
  /\ IF failed THEN result' \in {<<>>} \cup UNION {PartOf(answers[n]) : n \in DOMAIN answers}
               ELSE executed = sent /\ result' = Last(answers)
  /\ UNCHANGED <<failed, sent, executed, answers>>

Fail ==
  /\ busy /\ ~busy'
  /\ failed'
  /\ result' = <<>>
  /\ UNCHANGED <<sent, executed, answers>>

Next == Ask \/ Execute \/ Return \/ Fail

Spec == Init /\ [][Next]_callVars
=============================================================================
