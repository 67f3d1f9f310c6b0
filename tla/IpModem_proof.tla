---------------------------- MODULE IpModem_proof ----------------------------
(***************************************************************************)
(* The modem for any passwords, prompts, tries and amounts of data: the    *)
(* types, then the way of the data to the callback, then the dialogue of   *)
(* Open that decides how many password tries it costs, and last the PPP    *)
(* frames that the filter makes of any text in buffers of any length.      *)
(***************************************************************************)
EXTENDS IpModem, SequenceTheorems, WellFoundedInduction, TLAPS

Opening == {"stop", "stop_wait", "start", "start_wait", "hash", "hash_wait", "null_wait",
            "restart", "restart_wait", "key", "at", "at_wait", "at_null_wait", "spawn"}
Closing == {"end", "end_stop", "end_wait", "join"}

Packets ==
  {p \in [kind : {"null", "request", "verdict", "ack", "protected", "data"}, seed : Int, n : Nat] :
     p.kind = "request" => p.seed \in Nat}
Orders == [kind : {"stop", "start", "hash", "key", "at", "end"}, seed : Nat, right : BOOLEAN]
Calls == [op : {"none", "Open", "Write", "Close", "Destroy"}, pc : {"idle"} \cup Opening \cup Closing,
          password : Passwords \cup {NoPassword}, seed : Nat, back : {"idle", "restart", "at", "spawn"},
          answer : Packets, result : {"returned", "BadPassword", "Error", "Timeout"}]
Readers == [pc : {"none", "testing", "reading", "calling", "over"}, hand : Nat]
Devices == [prompts : 0..3, seed : Nat \ {0}, tries : 0..MaxTries, online : BOOLEAN]

Typed ==
  /\ object \in {"alive", "destroyed"}
  /\ call \in Calls /\ continue_reading \in BOOLEAN /\ reader \in Readers /\ device \in Devices
  /\ down \in Seq(Orders) /\ up \in Seq(Packets) /\ heard \in Seq(Nat)
  /\ sent \in 0..MaxData /\ before \in 0..MaxTries /\ opens \in Nat
  /\ late \in BOOLEAN /\ sloppy \in BOOLEAN

\* The thread runs from the end of Open to the join of Close, whatever fails; what a
\* call is doing tells which call it is; who asks for a password is not online.
Control ==
  /\ continue_reading => reader.pc \in {"testing", "reading", "calling"}
  /\ ~continue_reading /\ reader.pc # "none" => call.pc = "join"
  /\ reader.hand # 0 <=> reader.pc = "calling"
  /\ call.pc \in Opening => ~continue_reading /\ call.op = "Open"
  /\ call.pc = "join" => ~continue_reading
  /\ call.pc \in Closing => call.op \in {"Close", "Destroy"}
  /\ call.op = "none" => call.pc = "idle" /\ opens = 0
  /\ opens = 0 => call.op \notin {"Open", "Write"}
  /\ device.online => device.prompts = 0

\* The device numbers its data, and nothing has a number it has not given.
Numbered ==
  /\ \A i \in 1..Len(up) : up[i].kind = "data" => up[i].n \in 1..sent
  /\ \A i \in 1..Len(heard) : heard[i] \in 1..sent
  /\ reader.hand \in 0..sent
  /\ lost \subseteq 1..sent

TInv == Typed /\ Control /\ Numbered

-----------------------------------------------------------------------------
(***************************************************************************)
(* What a step of a call does to it.                                       *)
(***************************************************************************)
LEMMA Nothing == Null \in Packets /\ Ack \in Packets
BY DEF Null, Ack, Packet, Packets

\* Everything in the call but its place is as it was.
Same == UNCHANGED <<call.op, call.password, call.seed, call.back, call.answer, call.result>>

LEMMA Going ==
  ASSUME call \in Calls, NEW pc \in {"idle"} \cup Opening \cup Closing, Goto(pc)
  PROVE  call' \in Calls /\ call'.pc = pc /\ Same /\ object' = object
BY DEF Calls, Goto, Same

LEMMA Returning ==
  ASSUME call \in Calls, NEW result \in {"returned", "BadPassword", "Error", "Timeout"}, Return(result)
  PROVE  /\ call' \in Calls /\ call'.pc = "idle" /\ call'.op = call.op /\ call'.result = result
         /\ object' = IF call.op = "Destroy" THEN "destroyed" ELSE object
BY Nothing DEF Calls, Return

LEMMA SendingPassword ==
  ASSUME call \in Calls, NEW seed \in Nat, NEW back \in {"restart", "at", "spawn"}, SendPassword(seed, back)
  PROVE  /\ call' \in Calls /\ call'.op = call.op
         /\ object' = object \/ (call.op = "Destroy" /\ object' = "destroyed")
         /\ \/ call'.pc = "idle"
            \/ call'.pc = "hash" /\ call'.seed = seed /\ call'.back = back
<1>1. CASE Return("BadPassword")
  BY <1>1, Returning
<1>2. CASE call' = [call EXCEPT !.pc = "hash", !.seed = seed, !.back = back] /\ UNCHANGED object
  BY <1>2 DEF Calls, Opening
<1>. QED BY <1>1, <1>2 DEF SendPassword

LEMMA Answering ==
  ASSUME call \in Calls, NEW p \in Packets,
         call' = [call EXCEPT !.pc = "key", !.answer = p] /\ UNCHANGED object
  PROVE  /\ call' \in Calls /\ call'.pc = "key" /\ call'.op = call.op /\ call'.answer = p
         /\ object' = object
BY DEF Calls, Opening

LEMMA Judging ==
  ASSUME call \in Calls, NEW p \in Packets, CheckVerdict(p)
  PROVE  /\ call' \in Calls /\ call'.op = call.op
         /\ object' = object \/ (call.op = "Destroy" /\ object' = "destroyed")
         /\ \/ call'.pc = "idle"
            \/ /\ call'.pc = call.back
               /\ p.kind = "ack" \/ (p.kind = "verdict" /\ (p.seed = call.seed + 1 \/ p.seed = 0))
<1>1. ASSUME call' = [call EXCEPT !.pc = call.back, !.back = "idle"] /\ UNCHANGED object
      PROVE  call' \in Calls /\ call'.op = call.op /\ call'.pc = call.back /\ object' = object
  BY <1>1 DEF Calls, Opening
<1>2. ASSUME Return("BadPassword") \/ Return("Error")
      PROVE  /\ call' \in Calls /\ call'.op = call.op /\ call'.pc = "idle"
             /\ object' = object \/ (call.op = "Destroy" /\ object' = "destroyed")
  BY <1>2, Returning
<1>. QED BY <1>1, <1>2 DEF CheckVerdict

-----------------------------------------------------------------------------
(***************************************************************************)
(* What reads and writes do to the wires.                                  *)
(***************************************************************************)
LEMMA Taking ==
  ASSUME NEW D, NEW q \in Seq(D), q # << >>
  PROVE  /\ Tail(q) \in Seq(D) /\ Head(q) \in D /\ Head(q) = q[1]
         /\ Len(q) \in Nat \ {0} /\ Len(Tail(q)) = Len(q) - 1
         /\ \A i \in 1..Len(q) - 1 : Tail(q)[i] = q[i + 1]
BY HeadTailProperties, EmptySeq

LEMMA Adding ==
  ASSUME NEW D, NEW q \in Seq(D), NEW e \in D
  PROVE  /\ Append(q, e) \in Seq(D) /\ Len(Append(q, e)) = Len(q) + 1 /\ Len(q) \in Nat
         /\ \A i \in 1..Len(q) : Append(q, e)[i] = q[i]
         /\ Append(q, e)[Len(q) + 1] = e
BY AppendProperties

LEMMA Joining ==
  ASSUME NEW D, NEW q \in Seq(D), NEW r \in Seq(D)
  PROVE  /\ q \o r \in Seq(D) /\ Len(q \o r) = Len(q) + Len(r) /\ Len(q) \in Nat /\ Len(r) \in Nat
         /\ \A i \in 1..Len(q) : (q \o r)[i] = q[i]
         /\ \A i \in 1..Len(r) : (q \o r)[Len(q) + i] = r[i]
<1>1. /\ q \o r \in Seq(D) /\ Len(q \o r) = Len(q) + Len(r) /\ Len(q) \in Nat /\ Len(r) \in Nat
      /\ \A i \in 1..Len(q) + Len(r) : (q \o r)[i] = IF i <= Len(q) THEN q[i] ELSE r[i - Len(q)]
  BY ConcatProperties
<1>2. \A i \in 1..Len(q) : i \in 1..Len(q) + Len(r) /\ i <= Len(q)
  BY <1>1
<1>3. \A i \in 1..Len(r) : Len(q) + i \in 1..Len(q) + Len(r) /\ ~(Len(q) + i <= Len(q)) /\ Len(q) + i - Len(q) = i
  BY <1>1
<1>. QED BY <1>1, <1>2, <1>3

\* A packet, or one and another before it.
LEMMA Pairs ==
  ASSUME NEW D, NEW a \in D, NEW b \in D
  PROVE  /\ << >> \in Seq(D) /\ <<a>> \in Seq(D) /\ <<a, b>> \in Seq(D)
         /\ Len(<< >>) = 0
         /\ Append(<< >>, a) = <<a>> /\ Append(<<a>>, b) = <<a, b>>
<1>1. << >> \in Seq(D) /\ <<a>> \in Seq(D) /\ <<a, b>> \in Seq(D) /\ Len(<< >>) = 0
  OBVIOUS
<1>2. Append(<< >>, a) = <<a>>
  OBVIOUS
<1>3. Append(<<a>>, b) = <<a, b>>
  <2>1. Append(<<a>>, b) \in Seq(D) /\ Len(Append(<<a>>, b)) = 2
    BY <1>1, AppendProperties
  <2>2. \A i \in 1..2 : Append(<<a>>, b)[i] = <<a, b>>[i]
    BY <1>1, AppendProperties
  <2>3. Len(<<a, b>>) = 2
    OBVIOUS
  <2>. QED BY <1>1, <2>1, <2>2, <2>3, SeqEqual
<1>. QED BY <1>1, <1>2, <1>3

\* Packets that are joined to a queue are appended one by one.
LEMMA OneByOne ==
  ASSUME NEW D, NEW q \in Seq(D), NEW a \in D, NEW b \in D
  PROVE  q \o <<b>> = Append(q, b) /\ q \o <<a, b>> = Append(Append(q, a), b) /\ q \o << >> = q
<1>1. q \o <<b>> = Append(q, b) /\ q \o <<a>> = Append(q, a) /\ Append(q, a) \in Seq(D)
  BY AppendIsConcat, AppendProperties
<1>2. Append(Append(q, a), b) = Append(q, a) \o <<b>>
  BY <1>1, AppendIsConcat
<1>3. <<a>> \in Seq(D) /\ <<b>> \in Seq(D) /\ <<a>> \o <<b>> = <<a, b>>
  BY Pairs, AppendIsConcat
<1>4. (q \o <<a>>) \o <<b>> = q \o (<<a>> \o <<b>>)
  BY <1>3, ConcatAssociative
<1>. QED BY <1>1, <1>2, <1>3, <1>4, ConcatEmptySeq

-----------------------------------------------------------------------------
(***************************************************************************)
(* Types.                                                                  *)
(***************************************************************************)
LEMMA TypeInit == Init => TInv
<1> SUFFICES ASSUME Init PROVE TInv
  OBVIOUS
<1>1. call \in Calls
  BY Nothing DEF Init, Calls
<1>2. device \in Devices /\ ~device.online
  <2>1. PICK p \in Prompts : device = [prompts |-> p, seed |-> 1, tries |-> MaxTries, online |-> FALSE]
    BY DEF Init
  <2>2. p \in 0..3 /\ MaxTries \in 0..MaxTries
    BY IpModemAssumption
  <2>. QED BY <2>1, <2>2 DEF Devices
<1>3. down \in Seq(Orders) /\ up \in Seq(Packets) /\ heard \in Seq(Nat) /\ Len(up) = 0 /\ Len(heard) = 0
  BY DEF Init
<1>4. sent \in 0..MaxData /\ before \in 0..MaxTries /\ opens \in Nat /\ sent = 0
  BY IpModemAssumption DEF Init
<1>5. Typed
  BY <1>1, <1>2, <1>3, <1>4 DEF Init, Typed, Readers
<1>6. Control /\ Numbered
  BY <1>2, <1>3, <1>4 DEF Init, Control, Numbered, Opening, Closing
<1>. QED BY <1>5, <1>6 DEF TInv

\* A packet is read.
LEMMA ReadTyped ==
  ASSUME TInv, up # << >>, up' = Tail(up), UNCHANGED sent
  PROVE  /\ up' \in Seq(Packets) /\ Head(up) \in Packets
         /\ Head(up).kind = "data" => Head(up).n \in 1..sent
         /\ \A i \in 1..Len(up') : up'[i].kind = "data" => up'[i].n \in 1..sent'
BY Taking DEF TInv, Typed, Numbered

\* What a call leaves behind of the thread and of the numbers, when it neither starts
\* nor stops the thread.
LEMMA CallTyped ==
  ASSUME TInv,
         call' \in Calls, object' \in {"alive", "destroyed"}, down' \in Seq(Orders), up' \in Seq(Packets),
         heard' \in Seq(Nat), before' \in 0..MaxTries, opens' \in Nat, late' \in BOOLEAN, sloppy' \in BOOLEAN,
         UNCHANGED <<continue_reading, reader, device, sent>>,
         \A i \in 1..Len(up') : up'[i].kind = "data" => up'[i].n \in 1..sent',
         \A i \in 1..Len(heard') : heard'[i] \in 1..sent',
         lost' \subseteq 1..sent',
         call.pc # "join", call'.pc # "join",
         call'.pc \in Opening => call'.op = "Open" /\ ~continue_reading,
         call'.pc \in Closing => call'.op \in {"Close", "Destroy"},
         call'.op = "none" => call'.pc = "idle" /\ opens' = 0,
         opens' = 0 => call'.op \notin {"Open", "Write"}
  PROVE  TInv'
<1>1. Typed'
  BY DEF TInv, Typed
<1>2. Control'
  BY DEF TInv, Control
<1>3. Numbered'
  BY DEF TInv, Numbered
<1>. QED BY <1>1, <1>2, <1>3 DEF TInv

\* A read that drops data, or one that is heard.
LEMMA DroppedTyped ==
  ASSUME TInv, up # << >>, Dropped
  PROVE  heard' \in Seq(Nat) /\ lost' \subseteq 1..sent /\ \A i \in 1..Len(heard') : heard'[i] \in 1..sent
<1>1. heard' = heard
  BY DEF Dropped
<1>2. Head(up) \in Packets /\ (Head(up).kind = "data" => Head(up).n \in 1..sent)
  BY Taking DEF TInv, Typed, Numbered
<1>3. lost' \subseteq lost \cup (IF Head(up).kind = "data" THEN {Head(up).n} ELSE {})
  BY DEF Dropped
<1>. QED BY <1>1, <1>2, <1>3 DEF TInv, Typed, Numbered

LEMMA TypeCommands == TInv /\ (SendCommand \/ SendSessionKey) => TInv'
<1> SUFFICES ASSUME TInv, SendCommand \/ SendSessionKey PROVE TInv'
  OBVIOUS
<1>0. call \in Calls /\ down \in Seq(Orders) /\ Typed
  BY DEF TInv, Typed
<1>1. ASSUME NEW kind \in {"stop", "start", "hash", "key", "at", "end"}, Send(kind)
      PROVE  down' \in Seq(Orders)
  <2>1. [kind |-> kind, seed |-> call.seed, right |-> call.password = RightPassword] \in Orders
    BY <1>0 DEF Calls, Orders
  <2>. QED BY <1>0, <1>1, <2>1, Adding DEF Send
<1>2. CASE SendCommand
  <2>1. PICK c \in Commands : call.pc = c[1] /\ Send(c[2]) /\ Goto(c[3]) /\ UNCHANGED history /\ Quiet
    BY <1>2 DEF SendCommand
  <2>2. /\ c[1] \in {"stop", "start", "hash", "restart", "at", "end", "end_stop"}
        /\ c[2] \in {"stop", "start", "hash", "key", "at", "end"}
        /\ c[3] \in Opening \cup Closing /\ c[3] # "join"
        /\ (c[1] \in Opening <=> c[3] \in Opening) /\ (c[1] \in Closing <=> c[3] \in Closing)
    BY DEF Commands, Opening, Closing
  <2>3. down' \in Seq(Orders)
    BY <1>1, <2>1, <2>2
  <2>4. call' \in Calls /\ call'.pc = c[3] /\ call'.op = call.op /\ object' = object
    BY <1>0, <2>1, <2>2, Going DEF Same
  <2>5. /\ UNCHANGED <<continue_reading, reader, device, sent, heard, lost, up>>
        /\ UNCHANGED <<before, late, sloppy, opens>>
    BY <2>1 DEF Quiet, dataVars, history
  <2>6. call.pc # "join"
    BY <2>1, <2>2
  <2>. QED BY <2>1, <2>2, <2>3, <2>4, <2>5, <2>6, CallTyped DEF TInv, Typed, Control, Numbered
<1>3. CASE SendSessionKey
  <2>1. call.pc = "key" /\ Send("key") /\ Quiet /\ UNCHANGED <<before, late, opens>> /\ sloppy' \in BOOLEAN
    BY <1>0, <1>3 DEF SendSessionKey, Typed
  <2>2. down' \in Seq(Orders)
    BY <1>1, <2>1
  <2>3. call.op = "Open" /\ ~continue_reading
    BY <2>1 DEF TInv, Control, Opening
  <2>4. /\ call' \in Calls /\ call'.op = call.op /\ object' = object
        /\ call'.pc \in {"idle", "hash", "at"}
    <3>1. CASE call.answer.kind = "request"
      <4>1. SendPassword(call.answer.seed, "at") /\ call.answer.seed \in Nat
        BY <1>0, <1>3, <3>1 DEF SendSessionKey, Calls, Packets
      <4>. QED BY <1>0, <2>3, <4>1, SendingPassword
    <3>2. CASE call.answer.kind # "request"
      <4>1. Goto("at")
        BY <1>3, <3>2 DEF SendSessionKey
      <4>. QED BY <1>0, <4>1, Going DEF Opening, Same
    <3>. QED BY <3>1, <3>2
  <2>5. UNCHANGED <<continue_reading, reader, device, sent, heard, lost, up>>
    BY <2>1 DEF Quiet, dataVars
  <2>6. call'.pc \notin Closing /\ call'.pc # "join"
    BY <2>4 DEF Closing
  <2>. QED BY <2>1, <2>2, <2>3, <2>4, <2>5, <2>6, CallTyped DEF TInv, Typed, Control, Numbered
<1>. QED BY <1>2, <1>3

\* A read of Open: what it does to the call is all there is to see to.
LEMMA OpenReadTyped ==
  ASSUME TInv, Receive, sloppy' \in BOOLEAN,
         heard' \in Seq(Nat), lost' \subseteq 1..sent, \A i \in 1..Len(heard') : heard'[i] \in 1..sent,
         call.pc \in Opening, call' \in Calls, call'.op = call.op,
         object' = object \/ (call.op = "Destroy" /\ object' = "destroyed"),
         call'.pc \in {"idle"} \cup Opening
  PROVE  TInv'
<1>1. up # << >> /\ up' = Tail(up) /\ UNCHANGED <<down, continue_reading, reader, device, sent, before, late, opens>>
  BY DEF Receive
<1>2. up' \in Seq(Packets) /\ \A i \in 1..Len(up') : up'[i].kind = "data" => up'[i].n \in 1..sent'
  BY <1>1, ReadTyped
<1>3. call.op = "Open" /\ ~continue_reading /\ call.pc # "join" /\ call'.pc # "join" /\ call'.pc \notin Closing
  BY DEF TInv, Control, Opening, Closing
<1>4. opens # 0 /\ object' \in {"alive", "destroyed"}
  BY <1>3 DEF TInv, Typed, Control
<1>. QED BY <1>1, <1>2, <1>3, <1>4, CallTyped DEF TInv, Typed

LEMMA TypeReads ==
  TInv /\ (ignored_response \/ start_response \/ password_response \/ restart_response \/ at_response) => TInv'
<1> SUFFICES ASSUME TInv,
                    ignored_response \/ start_response \/ password_response \/ restart_response \/ at_response
             PROVE  TInv'
  OBVIOUS
<1>0. call \in Calls /\ Receive /\ up # << >> /\ Head(up) \in Packets /\ sloppy \in BOOLEAN /\ heard \in Seq(Nat)
  <2>1. Receive
    BY DEF ignored_response, start_response, password_response, restart_response, at_response
  <2>2. up # << >>
    BY <2>1 DEF Receive
  <2>. QED BY <2>1, <2>2, Taking DEF TInv, Typed
<1>1. ASSUME ignored_response \/ start_response \/ password_response \/ restart_response
      PROVE  heard' \in Seq(Nat) /\ lost' \subseteq 1..sent /\ (\A i \in 1..Len(heard') : heard'[i] \in 1..sent)
             /\ sloppy' \in BOOLEAN
  <2>1. Dropped /\ UNCHANGED sloppy
    BY <1>1 DEF ignored_response, start_response, password_response, restart_response
  <2>. QED BY <1>0, <2>1, DroppedTyped
<1>2. CASE ignored_response
  <2>1. PICK pc \in {"start", "spawn"} : Goto(pc) /\ call.pc \in Opening
    BY <1>2 DEF ignored_response, Opening
  <2>2. call' \in Calls /\ call'.pc = pc /\ call'.op = call.op /\ object' = object
    BY <1>0, <2>1, Going DEF Opening, Same
  <2>. QED BY <1>0, <1>1, <1>2, <2>1, <2>2, OpenReadTyped DEF Opening
<1>3. CASE start_response
  <2>1. call.pc \in Opening
    BY <1>3 DEF start_response, Opening
  <2>2. /\ call' \in Calls /\ call'.op = call.op /\ call'.pc \in {"idle", "hash", "key"}
        /\ object' = object \/ (call.op = "Destroy" /\ object' = "destroyed")
    <3>1. ASSUME Return("BadPassword")
          PROVE  call' \in Calls /\ call'.op = call.op /\ call'.pc = "idle"
                 /\ (object' = object \/ (call.op = "Destroy" /\ object' = "destroyed"))
      BY <1>0, <3>1, Returning
    <3>2. ASSUME Head(up).kind = "request", SendPassword(Head(up).seed, "restart")
          PROVE  call' \in Calls /\ call'.op = call.op /\ call'.pc \in {"idle", "hash"}
                 /\ (object' = object \/ (call.op = "Destroy" /\ object' = "destroyed"))
      <4>1. Head(up).seed \in Nat
        BY <1>0, <3>2 DEF Packets
      <4>. QED BY <1>0, <3>2, <4>1, SendingPassword
    <3>3. ASSUME call' = [call EXCEPT !.pc = "key", !.answer = Head(up)], UNCHANGED object
          PROVE  call' \in Calls /\ call'.op = call.op /\ call'.pc = "key"
      BY <1>0, <3>3, Answering
    <3>. QED BY <1>3, <3>1, <3>2, <3>3 DEF start_response
  <2>. QED BY <1>0, <1>1, <1>3, <2>1, <2>2, OpenReadTyped DEF Opening
<1>4. CASE password_response
  <2>1. call.pc \in Opening
    BY <1>4 DEF password_response, Opening
  <2>2. /\ call' \in Calls /\ call'.op = call.op /\ call'.pc \in {"idle", "null_wait", "restart", "at", "spawn"}
        /\ object' = object \/ (call.op = "Destroy" /\ object' = "destroyed")
    <3>1. ASSUME Goto("null_wait")
          PROVE  call' \in Calls /\ call'.op = call.op /\ call'.pc = "null_wait" /\ object' = object
      BY <1>0, <3>1, Going DEF Opening, Same
    <3>2. ASSUME CheckVerdict(Head(up))
          PROVE  call' \in Calls /\ call'.op = call.op /\ call'.pc \in {"idle", "restart", "at", "spawn"}
                 /\ (object' = object \/ (call.op = "Destroy" /\ object' = "destroyed"))
      <4>1. call.back \in {"idle", "restart", "at", "spawn"}
        BY <1>0 DEF Calls
      <4>. QED BY <1>0, <3>2, <4>1, Judging
    <3>. QED BY <1>4, <3>1, <3>2 DEF password_response
  <2>. QED BY <1>0, <1>1, <1>4, <2>1, <2>2, OpenReadTyped DEF Opening
<1>5. CASE restart_response
  <2>1. call.pc \in Opening /\ call' = [call EXCEPT !.pc = "key", !.answer = Head(up)] /\ UNCHANGED object
    BY <1>5 DEF restart_response, Opening
  <2>2. call' \in Calls /\ call'.op = call.op /\ call'.pc = "key" /\ object' = object
    BY <1>0, <2>1, Answering
  <2>. QED BY <1>0, <1>1, <1>5, <2>1, <2>2, OpenReadTyped DEF Opening
<1>6. CASE at_response
  <2>1. call.pc \in Opening /\ UNCHANGED lost /\ sloppy' \in BOOLEAN
    BY <1>0, <1>6 DEF at_response, Opening
  <2>2. /\ call' \in Calls /\ call'.op = call.op /\ call'.pc \in {"idle", "at_null_wait", "hash", "spawn"}
        /\ object' = object \/ (call.op = "Destroy" /\ object' = "destroyed")
    <3>1. ASSUME NEW pc \in {"at_null_wait", "spawn"}, Goto(pc)
          PROVE  call' \in Calls /\ call'.op = call.op /\ call'.pc = pc /\ object' = object
      BY <1>0, <3>1, Going DEF Opening, Same
    <3>2. ASSUME Head(up).kind = "request", SendPassword(Head(up).seed, "spawn")
          PROVE  call' \in Calls /\ call'.op = call.op /\ call'.pc \in {"idle", "hash"}
                 /\ (object' = object \/ (call.op = "Destroy" /\ object' = "destroyed"))
      <4>1. Head(up).seed \in Nat
        BY <1>0, <3>2 DEF Packets
      <4>. QED BY <1>0, <3>2, <4>1, SendingPassword
    <3>3. ASSUME Return("BadPassword")
          PROVE  call' \in Calls /\ call'.op = call.op /\ call'.pc = "idle"
                 /\ (object' = object \/ (call.op = "Destroy" /\ object' = "destroyed"))
      BY <1>0, <3>3, Returning
    <3>. QED BY <1>6, <3>1, <3>2, <3>3 DEF at_response
  <2>3. heard' \in Seq(Nat) /\ \A i \in 1..Len(heard') : heard'[i] \in 1..sent
    <3>1. CASE Head(up).kind = "data"
      <4>1. heard' = Append(heard, Head(up).n)
        BY <1>6, <3>1 DEF at_response
      <4>2. Head(up).n \in Nat /\ Head(up).n \in 1..sent
        BY <1>0, <3>1, Taking DEF TInv, Typed, Numbered, Packets
      <4>. QED BY <1>0, <4>1, <4>2, Adding DEF TInv, Numbered
    <3>2. CASE Head(up).kind # "data"
      <4>1. heard' = heard
        BY <1>6, <3>2 DEF at_response
      <4>. QED BY <1>0, <4>1 DEF TInv, Numbered
    <3>. QED BY <3>1, <3>2
  <2>4. lost' \subseteq 1..sent
    BY <2>1 DEF TInv, Numbered
  <2>. QED BY <1>0, <2>1, <2>2, <2>3, <2>4, OpenReadTyped DEF Opening
<1>. QED BY <1>2, <1>3, <1>4, <1>5, <1>6

\* Close, or its read that timed out, stops the thread, or finds none.
LEMMA StopTyped ==
  ASSUME TInv, call.pc = "end_wait", StopThread, late' \in BOOLEAN,
         UNCHANGED <<down, reader, device, sent, heard, before, sloppy, opens>>,
         up' \in Seq(Packets), \A i \in 1..Len(up') : up'[i].kind = "data" => up'[i].n \in 1..sent',
         lost' \subseteq 1..sent
  PROVE  TInv'
<1>0. call \in Calls /\ call.op \in {"Close", "Destroy"} /\ continue_reading \in BOOLEAN /\ object \in {"alive", "destroyed"}
  BY DEF TInv, Typed, Control, Closing
<1>1. /\ call' \in Calls /\ call'.op = call.op /\ object' \in {"alive", "destroyed"}
      /\ continue_reading' = FALSE
      /\ continue_reading => call'.pc = "join"
      /\ ~continue_reading => call'.pc = "idle"
  <2>1. CASE continue_reading
    <3>1. Goto("join") /\ continue_reading' = FALSE
      BY <2>1 DEF StopThread
    <3>2. "join" \in {"idle"} \cup Opening \cup Closing
      BY DEF Closing
    <3>3. call' \in Calls /\ call'.pc = "join" /\ call'.op = call.op /\ object' = object
      BY <1>0, <3>1, <3>2, Going DEF Same
    <3>. QED BY <1>0, <2>1, <3>1, <3>3
  <2>2. CASE ~continue_reading
    <3>1. Return("returned") /\ continue_reading' = FALSE
      BY <2>2 DEF StopThread
    <3>. QED BY <1>0, <2>2, <3>1, Returning DEF TInv, Typed
  <2>. QED BY <2>1, <2>2
<1>2. Typed'
  BY <1>1 DEF TInv, Typed
<1>3. Control'
  BY <1>0, <1>1 DEF TInv, Control, Opening, Closing
<1>4. Numbered'
  BY DEF TInv, Numbered
<1>. QED BY <1>2, <1>3, <1>4 DEF TInv

\* A call begins, writes, or ends by an exception.
LEMMA TypeCalls ==
  ASSUME TInv,
         \/ \E password \in Passwords : Open(password)
         \/ \E text \in Chunks : Write(text)
         \/ \E op \in {"Close", "Destroy"} : Close(op)
         \/ usb_error
  PROVE  TInv'
<1>0. call \in Calls /\ object \in {"alive", "destroyed"} /\ Typed
  BY DEF TInv, Typed
<1>1. ASSUME NEW password \in Passwords, Open(password) PROVE TInv'
  <2>1. /\ call' = [call EXCEPT !.op = "Open", !.pc = "stop", !.password = password]
        /\ call.pc = "idle" /\ ~continue_reading /\ before' = device.tries /\ opens' = opens + 1
        /\ late' = (late \/ up # << >> \/ down # << >>)
        /\ UNCHANGED <<object, down, up, sloppy, continue_reading, reader, device, sent, heard, lost>>
    BY <1>1 DEF Open, Quiet, dataVars
  <2>2. call' \in Calls /\ call'.op = "Open" /\ call'.pc = "stop"
    BY <1>0, <2>1 DEF Calls, Opening
  <2>3. device.tries \in 0..MaxTries /\ opens' \in Nat /\ opens' # 0
    BY <1>0, <2>1 DEF Typed, Devices
  <2>4. late' \in BOOLEAN
    BY <1>0, <2>1 DEF Typed
  <2>. QED BY <1>0, <2>1, <2>2, <2>3, <2>4, CallTyped DEF TInv, Typed, Numbered, Opening, Closing
<1>2. ASSUME NEW text \in Chunks, Write(text) PROVE TInv'
  <2>1. /\ call.pc = "idle" /\ call.op \in {"Open", "Write"} /\ continue_reading
        /\ UNCHANGED <<object, continue_reading, reader, down, up, device, sent, heard, lost, before, late, sloppy, opens>>
        /\ \/ call' = [call EXCEPT !.op = "Write"]
           \/ call' = [call EXCEPT !.op = "Write", !.result = "Error"]
    BY <1>2 DEF Write, usbVars, dataVars
  <2>2. call' \in Calls /\ call'.op = "Write" /\ call'.pc = "idle"
    BY <1>0, <2>1 DEF Calls
  <2>3. opens # 0
    BY <2>1 DEF TInv, Control
  <2>. QED BY <1>0, <2>1, <2>2, <2>3, CallTyped DEF TInv, Typed, Numbered, Opening, Closing
<1>3. ASSUME NEW op \in {"Close", "Destroy"}, Close(op) PROVE TInv'
  <2>1. /\ call.pc = "idle" /\ call' = [call EXCEPT !.op = op, !.pc = "end"]
        /\ op = "Close" => call.op # "none"
        /\ UNCHANGED <<object, continue_reading, reader, down, up, device, sent, heard, lost, before, late, sloppy, opens>>
    BY <1>3 DEF Close, usbVars, dataVars, history
  <2>2. call' \in Calls /\ call'.op = op /\ call'.pc = "end"
    BY <1>0, <2>1 DEF Calls, Closing
  <2>. QED BY <1>0, <2>1, <2>2, CallTyped DEF TInv, Typed, Numbered, Opening, Closing
<1>4. CASE usb_error
  <2>1. /\ call.pc \in Writing \cup Waiting /\ Return("Error")
        /\ UNCHANGED <<continue_reading, reader, down, up, device, sent, heard, lost, before, late, sloppy, opens>>
    BY <1>4 DEF usb_error, usbVars, dataVars
  <2>2. /\ call' \in Calls /\ call'.op = call.op /\ call'.pc = "idle" /\ object' \in {"alive", "destroyed"}
    BY <1>0, <2>1, Returning
  <2>3. call.pc # "join"
    BY <2>1 DEF Writing, Waiting
  <2>4. call.op # "none"
    BY <2>1 DEF TInv, Control, Writing, Waiting
  <2>. QED BY <1>0, <2>1, <2>2, <2>3, <2>4, CallTyped DEF TInv, Typed, Control, Numbered, Opening, Closing
<1>. QED BY <1>1, <1>2, <1>3, <1>4

LEMMA TypeTimeout == TInv /\ timeout => TInv'
<1> SUFFICES ASSUME TInv, timeout PROVE TInv'
  OBVIOUS
<1>0. /\ call \in Calls /\ Typed /\ late' \in BOOLEAN /\ call.pc \in Waiting
      /\ UNCHANGED <<reader, down, up, device, sent, heard, lost, before, sloppy, opens>>
  BY DEF TInv, Typed, timeout, usbVars, dataVars
<1>1. CASE call.pc = "end_wait"
  <2>1. StopThread
    BY <1>1 DEF timeout
  <2>. QED BY <1>0, <1>1, <2>1, StopTyped DEF TInv, Typed, Numbered
<1>2. CASE call.pc # "end_wait"
  <2>1. /\ continue_reading' = continue_reading
        /\ \/ call.pc = "stop_wait" /\ Goto("start")
           \/ call.pc = "null_wait" /\ Return("Error")
           \/ call.pc = "at_null_wait" /\ Goto("spawn")
           \/ call.pc \notin {"stop_wait", "null_wait", "at_null_wait", "end_wait"} /\ Return("Timeout")
    BY <1>2 DEF timeout
  <2>2. call.pc \in Opening /\ call.pc # "join" /\ call.op = "Open" /\ ~continue_reading
    BY <1>0, <1>2 DEF Waiting, Opening, TInv, Control
  <2>3. call' \in Calls /\ call'.op = call.op /\ call'.pc \in {"idle", "start", "spawn"} /\ object' = object
    <3>1. ASSUME NEW pc \in {"start", "spawn"}, Goto(pc)
          PROVE  call' \in Calls /\ call'.op = call.op /\ call'.pc = pc /\ object' = object
      BY <1>0, <3>1, Going DEF Opening, Same
    <3>2. ASSUME NEW result \in {"Error", "Timeout"}, Return(result)
          PROVE  call' \in Calls /\ call'.op = call.op /\ call'.pc = "idle" /\ object' = object
      BY <1>0, <2>2, <3>2, Returning
    <3>. QED BY <2>1, <3>1, <3>2
  <2>. QED BY <1>0, <2>1, <2>2, <2>3, CallTyped DEF TInv, Typed, Control, Numbered, Opening, Closing
<1>. QED BY <1>1, <1>2

LEMMA TypeEnds == TInv /\ (spawn \/ close_response \/ join) => TInv'
<1> SUFFICES ASSUME TInv, spawn \/ close_response \/ join PROVE TInv'
  OBVIOUS
<1>0. call \in Calls /\ reader \in Readers /\ Typed /\ Control /\ Numbered
  BY DEF TInv, Typed
<1>1. CASE spawn
  <2>1. /\ call.pc = "spawn" /\ Control /\ call.op = "Open"
        /\ UNCHANGED <<down, up, device, sent, heard, lost, before, late, sloppy, opens>>
    BY <1>0, <1>1 DEF spawn, usbVars, dataVars, history, Control, Opening
  <2>2. CASE continue_reading' = TRUE /\ reader' = [reader EXCEPT !.pc = "testing"] /\ Return("returned")
    <3>1. call' \in Calls /\ call'.op = call.op /\ call'.pc = "idle" /\ object' = object
      BY <1>0, <2>1, <2>2, Returning
    <3>2. reader' \in Readers /\ reader'.pc = "testing" /\ reader'.hand = reader.hand
      BY <1>0, <2>2 DEF Readers
    <3>3. reader.pc = "none"
      BY <2>1 DEF Control, Opening
    <3>4. Typed'
      BY <1>0, <2>1, <2>2, <3>1, <3>2 DEF Typed
    <3>5. Control'
      BY <2>1, <2>2, <3>1, <3>2, <3>3 DEF Control, Opening, Closing
    <3>6. Numbered'
      BY <1>0, <2>1, <3>2 DEF Numbered
    <3>. QED BY <3>4, <3>5, <3>6 DEF TInv
  <2>3. CASE UNCHANGED <<continue_reading, reader>> /\ Return("Error")
    <3>1. call' \in Calls /\ call'.op = call.op /\ call'.pc = "idle" /\ object' = object
      BY <1>0, <2>1, <2>3, Returning
    <3>. QED BY <1>0, <2>1, <2>3, <3>1, CallTyped DEF Typed, Control, Numbered, Opening, Closing
  <2>. QED BY <1>1, <2>2, <2>3 DEF spawn
<1>2. CASE close_response
  <2>1. /\ call.pc = "end_wait" /\ StopThread /\ up # << >> /\ up' = Tail(up) /\ Dropped
        /\ UNCHANGED <<down, reader, device, sent, before, late, sloppy, opens>>
    BY <1>2 DEF close_response, history
  <2>2. heard' = heard /\ lost' \subseteq 1..sent
    BY <2>1, DroppedTyped DEF Dropped
  <2>3. up' \in Seq(Packets) /\ \A i \in 1..Len(up') : up'[i].kind = "data" => up'[i].n \in 1..sent'
    BY <2>1, ReadTyped
  <2>. QED BY <1>0, <2>1, <2>2, <2>3, StopTyped DEF Typed
<1>3. CASE join
  <2>1. /\ call.pc = "join" /\ reader.pc = "over" /\ reader' = [reader EXCEPT !.pc = "none"] /\ Return("returned")
        /\ UNCHANGED <<continue_reading, down, up, device, sent, heard, lost, before, late, sloppy, opens>>
    BY <1>3 DEF join, usbVars, dataVars, history
  <2>2. call' \in Calls /\ call'.op = call.op /\ call'.pc = "idle" /\ object' \in {"alive", "destroyed"}
    BY <1>0, <2>1, Returning DEF Typed
  <2>3. reader' \in Readers /\ reader'.pc = "none" /\ reader'.hand = reader.hand
    BY <1>0, <2>1 DEF Readers
  <2>4. Typed'
    BY <1>0, <2>1, <2>2, <2>3 DEF Typed
  <2>5. Control'
    BY <1>0, <2>1, <2>2, <2>3 DEF Control, Opening, Closing
  <2>6. Numbered'
    BY <1>0, <2>1, <2>3 DEF Numbered
  <2>. QED BY <2>4, <2>5, <2>6 DEF TInv
<1>. QED BY <1>1, <1>2, <1>3

\* The thread.
LEMMA TypeReader == TInv /\ DataReadThread => TInv'
<1> SUFFICES ASSUME TInv, DataReadThread PROVE TInv'
  OBVIOUS
<1>0. reader \in Readers /\ heard \in Seq(Nat) /\ Typed /\ Control /\ Numbered
  BY DEF TInv, Typed
<1>s. UNCHANGED <<object, call, continue_reading, down, device, sent, lost, before, late, sloppy, opens>>
  BY DEF DataReadThread, reader_tests, reader_reads, reader_gets_nothing, callback, usbVars, dataVars, history
<1>1. CASE reader_tests
  <2>1. /\ reader.pc = "testing" /\ reader' = [reader EXCEPT !.pc = IF continue_reading THEN "reading" ELSE "over"]
        /\ UNCHANGED <<up, heard>>
    BY <1>1 DEF reader_tests, usbVars, dataVars
  <2>2. reader' \in Readers /\ reader'.hand = reader.hand /\ reader'.pc = IF continue_reading THEN "reading" ELSE "over"
    BY <1>0, <2>1 DEF Readers
  <2>3. Typed' /\ Numbered'
    BY <1>0, <1>s, <2>1, <2>2 DEF Typed, Numbered
  <2>4. Control'
    BY <1>0, <1>s, <2>1, <2>2 DEF Control
  <2>. QED BY <2>3, <2>4 DEF TInv
<1>2. CASE reader_reads
  <2>1. reader.pc = "reading" /\ up # << >> /\ up' = Tail(up) /\ UNCHANGED heard
    BY <1>2 DEF reader_reads, dataVars
  <2>2. /\ up' \in Seq(Packets) /\ Head(up) \in Packets /\ (Head(up).kind = "data" => Head(up).n \in 1..sent)
        /\ \A i \in 1..Len(up') : up'[i].kind = "data" => up'[i].n \in 1..sent'
    BY <1>s, <2>1, ReadTyped
  <2>3. reader' \in Readers /\ reader'.hand \in 0..sent /\ reader'.pc \in {"calling", "testing"}
        /\ (reader'.hand # 0 <=> reader'.pc = "calling")
    <3>1. CASE Head(up).kind = "data"
      <4>1. reader' = [pc |-> "calling", hand |-> Head(up).n] /\ Head(up).n \in 1..sent /\ sent \in Nat
        BY <1>0, <1>2, <2>2, <3>1, IpModemAssumption DEF reader_reads, Typed
      <4>. QED BY <4>1 DEF Readers
    <3>2. CASE Head(up).kind # "data"
      <4>1. reader' = [pc |-> "testing", hand |-> 0] /\ sent \in Nat
        BY <1>0, <1>2, <3>2, IpModemAssumption DEF reader_reads, Typed
      <4>. QED BY <4>1 DEF Readers
    <3>. QED BY <3>1, <3>2
  <2>4. Typed' /\ Numbered'
    BY <1>0, <1>s, <2>1, <2>2, <2>3 DEF Typed, Numbered
  <2>5. Control'
    BY <1>0, <1>s, <2>1, <2>3 DEF Control
  <2>. QED BY <2>4, <2>5 DEF TInv
<1>3. CASE reader_gets_nothing
  <2>1. /\ reader.pc = "reading" /\ reader' = [reader EXCEPT !.pc = "testing"] /\ UNCHANGED <<up, heard>>
    BY <1>3 DEF reader_gets_nothing, usbVars, dataVars
  <2>2. reader' \in Readers /\ reader'.hand = reader.hand /\ reader'.pc = "testing"
    BY <1>0, <2>1 DEF Readers
  <2>3. Typed' /\ Numbered'
    BY <1>0, <1>s, <2>1, <2>2 DEF Typed, Numbered
  <2>4. Control'
    BY <1>0, <1>s, <2>1, <2>2 DEF Control
  <2>. QED BY <2>3, <2>4 DEF TInv
<1>4. CASE callback
  <2>1. /\ reader.pc = "calling" /\ heard' = Append(heard, reader.hand) /\ reader' = [pc |-> "testing", hand |-> 0]
        /\ UNCHANGED up
    BY <1>4 DEF callback, usbVars
  <2>2. reader.hand \in 1..sent /\ reader.hand \in Nat
    BY <1>0, <2>1 DEF Readers, Control, Numbered
  <2>3. heard' \in Seq(Nat) /\ \A i \in 1..Len(heard') : heard'[i] \in 1..sent
    BY <1>0, <2>1, <2>2, Adding DEF Numbered
  <2>4. reader' \in Readers /\ reader'.hand = 0 /\ reader'.pc = "testing"
    BY <2>1 DEF Readers
  <2>5. Typed' /\ Numbered'
    BY <1>0, <1>s, <2>1, <2>2, <2>3, <2>4 DEF Typed, Numbered
  <2>6. Control'
    BY <1>0, <1>s, <2>1, <2>4 DEF Control
  <2>. QED BY <2>5, <2>6 DEF TInv
<1>. QED BY <1>1, <1>2, <1>3, <1>4 DEF DataReadThread

-----------------------------------------------------------------------------
(***************************************************************************)
(* The device. Each of its steps adds up to two packets, the numbers of    *)
(* its data in them.                                                       *)
(***************************************************************************)
Little(packets, numbers) ==
  \/ packets = << >>
  \/ \E p \in Packets : packets = <<p>> /\ (p.kind = "data" => p.n \in numbers)
  \/ \E p \in Packets : packets = <<Null, p>> /\ (p.kind = "data" => p.n \in numbers)

LEMMA LittleTyped ==
  ASSUME NEW packets, NEW numbers, Little(packets, numbers)
  PROVE  packets \in Seq(Packets) /\ \A i \in 1..Len(packets) : packets[i].kind = "data" => packets[i].n \in numbers
<1>1. ASSUME packets = << >> PROVE packets \in Seq(Packets) /\ Len(packets) = 0
  BY <1>1
<1>2. ASSUME NEW p \in Packets, packets = <<p>>
      PROVE  packets \in Seq(Packets) /\ Len(packets) = 1 /\ packets[1] = p
  BY <1>2
<1>3. ASSUME NEW p \in Packets, packets = <<Null, p>>
      PROVE  packets \in Seq(Packets) /\ Len(packets) = 2 /\ packets[1] = Null /\ packets[2] = p /\ Null.kind = "null"
  BY <1>3, Nothing DEF Null, Packet
<1>. QED BY <1>1, <1>2, <1>3 DEF Little

LEMMA DeviceTyped ==
  ASSUME TInv, UNCHANGED <<object, call, continue_reading, reader, heard, lost, before, late, sloppy, opens>>,
         down' \in Seq(Orders), device' \in Devices, device'.online => device'.prompts = 0,
         sent' \in sent..MaxData,
         NEW packets, Little(packets, 1..sent'), up' = up \o packets
  PROVE  TInv'
<1>1. up \in Seq(Packets) /\ packets \in Seq(Packets) /\ sent \in 0..MaxData /\ sent' \in 0..MaxData /\ sent <= sent'
  BY LittleTyped, IpModemAssumption DEF TInv, Typed
<1>2. up' \in Seq(Packets) /\ Len(up') = Len(up) + Len(packets) /\ Len(up) \in Nat /\ Len(packets) \in Nat
  BY <1>1, Joining
<1>3. \A i \in 1..Len(up') : up'[i].kind = "data" => up'[i].n \in 1..sent'
  <2> TAKE i \in 1..Len(up')
  <2>1. CASE i <= Len(up)
    <3>1. up'[i] = up[i] /\ i \in 1..Len(up)
      BY <1>1, <1>2, <2>1, Joining
    <3>. QED BY <1>1, <3>1 DEF TInv, Numbered
  <2>2. CASE ~(i <= Len(up))
    <3>0. i \in Nat /\ i <= Len(up')
      BY <1>2
    <3>1. PICK j \in 1..Len(packets) : i = Len(up) + j
      <4>1. i - Len(up) \in 1..Len(packets) /\ i = Len(up) + (i - Len(up))
        BY <1>2, <2>2, <3>0
      <4>. QED BY <4>1
    <3>2. up'[i] = packets[j]
      BY <1>1, <1>2, <3>1, Joining
    <3>. QED BY <3>1, <3>2, LittleTyped
  <2>. QED BY <2>1, <2>2
<1>4. Typed'
  BY <1>1, <1>2 DEF TInv, Typed
<1>5. Control'
  BY DEF TInv, Control
<1>6. Numbered'
  BY <1>1, <1>3 DEF TInv, Numbered
<1>. QED BY <1>4, <1>5, <1>6 DEF TInv

LEMMA TakeTyped ==
  ASSUME TInv, Take
  PROVE  /\ UNCHANGED <<object, call, continue_reading, reader, heard, lost, before, late, sloppy, opens>>
         /\ down # << >> /\ down' = Tail(down) /\ down' \in Seq(Orders) /\ Head(down) \in Orders
BY Taking DEF TInv, Typed, Take, history

\* What device_answers sends.
LEMMA AnswersLittle ==
  ASSUME TInv, device_answers, NEW numbers
  PROVE  \E packets : Little(packets, numbers) /\ up' = up \o packets
<1>0. device \in Devices
  BY DEF TInv, Typed
<1>1. Request \in Packets /\ Request.kind = "request"
  BY <1>0 DEF Devices, Packets, Request, Packet
<1>2. /\ Null \in Packets /\ Null.kind = "null" /\ Ack \in Packets /\ Ack.kind = "ack"
      /\ Packet("protected", 0, 0) \in Packets /\ Packet("protected", 0, 0).kind = "protected"
  BY Nothing DEF Packets, Packet, Null, Ack
<1>3. \E packets : /\ packets \in {<< >>, <<Ack>>, <<Null>>, <<Request>>, <<Packet("protected", 0, 0)>>}
                   /\ up' = up \o packets
  <2> DEFINE kind == Head(down).kind
  <2>1. CASE kind = "stop" /\ \E p \in {<< >>, <<Ack>>} : Answer(p)
    BY <2>1 DEF Answer
  <2>2. CASE kind = "start" /\ \E p \in IF device.prompts > 0 THEN {<<Request>>, <<Null>>} ELSE {<<Ack>>} : Answer(p)
    <3>1. \E p \in {<<Request>>, <<Null>>, <<Ack>>} : Answer(p)
      <4>1. CASE device.prompts > 0
        BY <2>2, <4>1
      <4>2. CASE ~(device.prompts > 0)
        BY <2>2, <4>2
      <4>. QED BY <4>1, <4>2
    <3>. QED BY <3>1 DEF Answer
  <2>3. CASE kind = "key" /\ \E p \in {<< >>, <<Null>>} : Answer(p)
    BY <2>3 DEF Answer
  <2>4. CASE kind = "at" /\ device.prompts > 0 /\ \E p \in {<<Request>>, <<Packet("protected", 0, 0)>>} : Answer(p)
    BY <2>4 DEF Answer
  <2>5. CASE kind = "end" /\ Answer(<< >>)
    BY <2>5 DEF Answer
  <2>. QED BY <2>1, <2>2, <2>3, <2>4, <2>5 DEF device_answers
<1>4. \A packets \in {<< >>, <<Ack>>, <<Null>>, <<Request>>, <<Packet("protected", 0, 0)>>} : Little(packets, numbers)
  BY <1>1, <1>2 DEF Little
<1>. QED BY <1>3, <1>4

\* What device_judges sends, and how it takes the password.
LEMMA JudgesLittle ==
  ASSUME TInv, device_judges, NEW numbers
  PROVE  \E packets : Little(packets, numbers) /\ up' = up \o packets
<1> DEFINE c == Head(down)
           fits == c.right /\ c.seed = device.seed /\ device.prompts > 0
           news == IF fits THEN {c.seed + 1, 0} ELSE {OtherSeed}
<1>0. device \in Devices /\ device.tries > 0 /\ c \in Orders
  BY TakeTyped DEF TInv, Typed, device_judges, Take
<1>1. PICK p \in {<< >>, <<Null>>}, new \in news :
        Answer(Append(p, Packet("verdict", new, device.tries - 1)))
  BY DEF device_judges
<1>2. PICK v : v = Packet("verdict", new, device.tries - 1)
  OBVIOUS
<1>3. new \in Int /\ device.tries - 1 \in Nat
  <2>1. c.seed \in Int /\ OtherSeed \in Int
    BY <1>0 DEF Orders, OtherSeed
  <2>. QED BY <1>0, <1>1, <2>1 DEF Devices
<1>4. v \in Packets /\ v.kind = "verdict" /\ Null \in Packets
  BY <1>2, <1>3, Nothing DEF Packets, Packet
<1>5. Append(p, v) = <<v>> \/ Append(p, v) = <<Null, v>>
  BY <1>1, <1>4, Pairs
<1>6. Little(Append(p, v), numbers)
  BY <1>4, <1>5 DEF Little
<1>. QED BY <1>1, <1>2, <1>6 DEF Answer

\* Data goes out under the next number, behind a null packet or alone.
Numbering ==
  /\ sent < MaxData /\ sent' = sent + 1
  /\ \E d \in Packets : /\ d.kind = "data" /\ d.n = sent + 1
                        /\ up' = up \o <<d>> \/ up' = up \o <<Null, d>>

LEMMA NumberingData ==
  ASSUME TInv, device_connects \/ device_sends
  PROVE  Numbering \/ (sent' = sent /\ up' = up \o <<Null>>)
<1>0. sent \in Nat /\ up \in Seq(Packets)
  BY IpModemAssumption DEF TInv, Typed
<1>1. PICK d : d = Packet("data", 0, sent + 1)
  OBVIOUS
<1>2. d \in Packets /\ d.kind = "data" /\ d.n = sent + 1 /\ Null \in Packets
  BY <1>0, <1>1, Nothing DEF Packets, Packet
<1>3. ASSUME /\ sent < MaxData
             /\ \E p \in {<< >>, <<Null>>} : Answer(Append(p, Packet("data", 0, sent + 1)))
             /\ sent' = sent + 1
      PROVE  Numbering
  <2>1. PICK p \in {<< >>, <<Null>>} : Answer(Append(p, Packet("data", 0, sent + 1)))
    BY <1>3
  <2>2. Append(p, d) = <<d>> \/ Append(p, d) = <<Null, d>>
    BY <1>2, <2>1, Pairs
  <2>3. up' = up \o Append(p, d)
    BY <1>1, <2>1 DEF Answer
  <2>. QED BY <1>2, <1>3, <2>2, <2>3 DEF Numbering
<1>4. CASE device_connects
  BY <1>3, <1>4 DEF device_connects, Answer
<1>5. CASE device_sends
  <2>1. sent < MaxData /\ sent' = sent + 1 /\ up' = Append(up, d)
    BY <1>1, <1>5 DEF device_sends
  <2>2. up' = up \o <<d>>
    BY <1>0, <1>2, <2>1, AppendIsConcat
  <2>. QED BY <1>2, <2>1, <2>2 DEF Numbering
<1>. QED BY <1>4, <1>5

LEMMA NumberingLittle ==
  ASSUME TInv, Numbering \/ (sent' = sent /\ up' = up \o <<Null>>)
  PROVE  sent' \in sent..MaxData /\ \E packets : Little(packets, 1..sent') /\ up' = up \o packets
<1>0. sent \in 0..MaxData /\ MaxData \in Nat /\ Null \in Packets /\ Null.kind = "null"
  BY IpModemAssumption, Nothing DEF TInv, Typed, Null, Packet
<1>1. CASE Numbering
  <2>1. PICK d \in Packets : d.kind = "data" /\ d.n = sent + 1 /\ (up' = up \o <<d>> \/ up' = up \o <<Null, d>>)
    BY <1>1 DEF Numbering
  <2>2. sent' \in sent..MaxData /\ d.n \in 1..sent'
    BY <1>0, <1>1, <2>1 DEF Numbering
  <2>3. Little(<<d>>, 1..sent') /\ Little(<<Null, d>>, 1..sent')
    BY <2>1, <2>2 DEF Little
  <2>. QED BY <2>1, <2>2, <2>3
<1>2. CASE sent' = sent /\ up' = up \o <<Null>>
  <2>1. Little(<<Null>>, 1..sent')
    BY <1>0 DEF Little
  <2>2. sent' \in sent..MaxData
    BY <1>0, <1>2
  <2>. QED BY <1>2, <2>1, <2>2
<1>. QED BY <1>1, <1>2

LEMMA TypeDevice == TInv /\ Device => TInv'
<1> SUFFICES ASSUME TInv, Device PROVE TInv'
  OBVIOUS
<1>0. device \in Devices /\ sent \in 0..MaxData /\ MaxData \in Nat /\ sent \in sent..MaxData /\ down \in Seq(Orders)
      /\ (device.online => device.prompts = 0)
  BY IpModemAssumption DEF TInv, Typed, Control
<1>1. CASE device_answers
  <2>1. Take /\ sent' = sent
    BY <1>1 DEF device_answers
  <2>2. device' \in Devices /\ (device'.online => device'.prompts = 0)
    <3>1. device' = [device EXCEPT !.online = FALSE] \/ device' = device
      BY <1>1 DEF device_answers
    <3>. QED BY <1>0, <3>1 DEF Devices
  <2>3. PICK packets : Little(packets, 1..sent') /\ up' = up \o packets
    BY <1>1, AnswersLittle
  <2>. QED BY <1>0, <2>1, <2>2, <2>3, TakeTyped, DeviceTyped
<1>2. CASE device_connects
  <2>1. Take /\ device.prompts = 0 /\ device' = [device EXCEPT !.online = TRUE]
    BY <1>2 DEF device_connects
  <2>2. device' \in Devices /\ device'.prompts = 0
    BY <1>0, <2>1 DEF Devices
  <2>3. sent' \in sent..MaxData /\ \E packets : Little(packets, 1..sent') /\ up' = up \o packets
    BY <1>2, NumberingData, NumberingLittle
  <2>. QED BY <1>0, <2>1, <2>2, <2>3, TakeTyped, DeviceTyped
<1>3. CASE device_judges
  <2> DEFINE c == Head(down)
             fits == c.right /\ c.seed = device.seed /\ device.prompts > 0
  <2>1. Take /\ device.tries > 0 /\ sent' = sent
    BY <1>3 DEF device_judges, Take
  <2>2. device' \in Devices /\ (device'.online => device'.prompts = 0)
    <3>1. CASE fits
      <4>1. device' = [device EXCEPT !.prompts = @ - 1, !.seed = @ + 1, !.tries = MaxTries] /\ device.prompts > 0
        BY <1>3, <3>1 DEF device_judges
      <4>2. device.prompts - 1 \in 0..3 /\ device.seed + 1 \in Nat \ {0} /\ MaxTries \in 0..MaxTries
        BY <1>0, <4>1, IpModemAssumption DEF Devices
      <4>3. device'.prompts = device.prompts - 1 /\ device'.online = device.online
        BY <1>0, <4>1 DEF Devices
      <4>4. device' \in Devices
        BY <1>0, <4>1, <4>2 DEF Devices
      <4>5. ~device.online
        BY <1>0, <4>1
      <4>. QED BY <4>3, <4>4, <4>5
    <3>2. CASE ~fits
      <4>1. device' = [device EXCEPT !.seed = @ + 1, !.tries = @ - 1]
        BY <1>3, <3>2 DEF device_judges
      <4>2. device.tries - 1 \in 0..MaxTries /\ device.seed + 1 \in Nat \ {0}
        BY <1>0, <2>1, IpModemAssumption DEF Devices
      <4>3. device' \in Devices
        BY <1>0, <4>1, <4>2 DEF Devices
      <4>4. device'.prompts = device.prompts /\ device'.online = device.online
        BY <1>0, <4>1 DEF Devices
      <4>. QED BY <1>0, <4>3, <4>4
    <3>. QED BY <3>1, <3>2
  <2>3. PICK packets : Little(packets, 1..sent') /\ up' = up \o packets
    BY <1>3, JudgesLittle
  <2>. QED BY <1>0, <2>1, <2>2, <2>3, TakeTyped, DeviceTyped
<1>4. CASE device_sends
  <2>1. UNCHANGED <<object, call, continue_reading, reader, down, device, heard, lost, before, late, sloppy, opens>>
    BY <1>4 DEF device_sends, history
  <2>2. sent' \in sent..MaxData /\ \E packets : Little(packets, 1..sent') /\ up' = up \o packets
    BY <1>4, NumberingData, NumberingLittle
  <2>. QED BY <1>0, <2>1, <2>2, DeviceTyped
<1>. QED BY <1>1, <1>2, <1>3, <1>4 DEF Device

LEMMA TypeStep == TInv /\ [Next]_vars => TInv'
<1>1. TInv /\ Caller => TInv'
  BY TypeCommands, TypeReads, TypeCalls, TypeTimeout, TypeEnds DEF Caller, Destroy
<1>2. TInv /\ UNCHANGED vars => TInv'
  BY DEF TInv, Typed, Control, Numbered, vars, usbVars, dataVars, pppVars, history
<1>. QED BY <1>1, <1>2, TypeReader, TypeDevice DEF Next, finished

LEMMA TypeInvariant == Spec => []TInv
BY TypeInit, TypeStep, PTL DEF Spec

\* The type of the state; the thread of a modem runs exactly while m_continue_reading
\* is set, but for the time it takes to notice, whatever fails and in whatever order.
THEOREM TypeCorrect == Spec => []TypeOK
<1>1. TInv => TypeOK
  <2> SUFFICES ASSUME TInv PROVE TypeOK
    OBVIOUS
  <2>1. Opening \cup Closing \cup {"idle"} = {"idle", "spawn", "join"} \cup Writing \cup Waiting
    BY DEF Opening, Closing, Writing, Waiting
  <2>2. call.pc \in {"idle", "spawn", "join"} \cup Writing \cup Waiting
    BY <2>1 DEF TInv, Typed, Calls
  <2>. QED BY <2>2 DEF TInv, Typed, Calls, Readers, Devices, Control, Numbered, TypeOK
<1>. QED BY <1>1, TypeInvariant, PTL

-----------------------------------------------------------------------------
(***************************************************************************)
(* The data packets of a queue: their numbers, and that these rise.        *)
(***************************************************************************)
Numbers(queue) == {queue[i].n : i \in DataAt(queue)}
Rising(queue) == \A i, j \in DataAt(queue) : i < j => queue[i].n < queue[j].n

LEMMA TailData ==
  ASSUME NEW q \in Seq(Packets), q # << >>, Rising(q)
  PROVE  /\ Rising(Tail(q))
         /\ Head(q).kind # "data" => Numbers(Tail(q)) = Numbers(q)
         /\ Head(q).kind = "data" => /\ Numbers(q) = Numbers(Tail(q)) \cup {Head(q).n}
                                     /\ \A y \in Numbers(Tail(q)) : Head(q).n < y
<1> DEFINE t == Tail(q)
<1>0. /\ t \in Seq(Packets) /\ Len(q) \in Nat \ {0} /\ Len(t) = Len(q) - 1 /\ Head(q) = q[1]
      /\ \A i \in 1..Len(q) - 1 : t[i] = q[i + 1]
      /\ DOMAIN q = 1..Len(q) /\ DOMAIN t = 1..Len(t)
  BY Taking
<1>1. \A i \in 1..Len(t) : i \in Nat \ {0} /\ i + 1 \in 2..Len(q) /\ t[i] = q[i + 1]
  BY <1>0
<1>2. \A k \in 1..Len(q) : k # 1 => k - 1 \in 1..Len(t) /\ t[k - 1] = q[k]
  <2> TAKE k \in 1..Len(q)
  <2> HAVE k # 1
  <2>1. k - 1 \in 1..Len(t) /\ k - 1 \in 1..Len(q) - 1 /\ (k - 1) + 1 = k
    BY <1>0
  <2>. QED BY <1>0, <2>1
<1>3. \A i \in DataAt(t) : i + 1 \in DataAt(q) /\ i + 1 \in 2..Len(q) /\ t[i].n = q[i + 1].n
  BY <1>0, <1>1 DEF DataAt
<1>4. \A k \in DataAt(q) : k = 1 \/ (k - 1 \in DataAt(t) /\ t[k - 1].n = q[k].n)
  BY <1>0, <1>2 DEF DataAt
<1>5. 1 \in DataAt(q) <=> Head(q).kind = "data"
  BY <1>0 DEF DataAt
<1>6. Numbers(t) \subseteq Numbers(q)
  BY <1>3 DEF Numbers
<1>7. \A k \in DataAt(q) : k = 1 \/ q[k].n \in Numbers(t)
  BY <1>4 DEF Numbers
<1>8. Rising(t)
  <2> SUFFICES ASSUME NEW i \in DataAt(t), NEW j \in DataAt(t), i < j PROVE t[i].n < t[j].n
    BY DEF Rising
  <2>1. i \in Int /\ j \in Int
    BY <1>0 DEF DataAt
  <2>2. i + 1 < j + 1
    BY <2>1
  <2>. QED BY <1>3, <2>2 DEF Rising
<1>9. Head(q).kind # "data" => Numbers(t) = Numbers(q)
  BY <1>5, <1>6, <1>7 DEF Numbers
<1>10. ASSUME Head(q).kind = "data" PROVE Numbers(q) = Numbers(t) \cup {Head(q).n}
  <2>1. Head(q).n \in Numbers(q)
    BY <1>0, <1>5, <1>10 DEF Numbers
  <2>2. \A x \in Numbers(q) : x = Head(q).n \/ x \in Numbers(t)
    BY <1>0, <1>7 DEF Numbers
  <2>. QED BY <1>6, <2>1, <2>2
<1>11. ASSUME Head(q).kind = "data", NEW y \in Numbers(t) PROVE Head(q).n < y
  <2>1. PICK i \in DataAt(t) : y = t[i].n
    BY DEF Numbers
  <2>2. 1 < i + 1 /\ i + 1 \in DataAt(q) /\ y = q[i + 1].n
    <3>1. i + 1 \in 2..Len(q) /\ i + 1 \in DataAt(q) /\ t[i].n = q[i + 1].n
      BY <1>3
    <3>2. 1 < i + 1
      <4>1. i \in 1..Len(t)
        BY <1>0 DEF DataAt
      <4>. QED BY <1>0, <4>1
    <3>. QED BY <2>1, <3>1, <3>2
  <2>. QED BY <1>0, <1>5, <1>11, <2>2 DEF Rising
<1>. QED BY <1>8, <1>9, <1>10, <1>11

LEMMA AppendData ==
  ASSUME NEW q \in Seq(Packets), NEW d \in Packets, Rising(q),
         d.kind = "data" => \A x \in Numbers(q) : x < d.n
  PROVE  /\ Rising(Append(q, d))
         /\ d.kind # "data" => Numbers(Append(q, d)) = Numbers(q)
         /\ d.kind = "data" => Numbers(Append(q, d)) = Numbers(q) \cup {d.n}
<1> DEFINE a == Append(q, d)
<1>0. /\ a \in Seq(Packets) /\ Len(a) = Len(q) + 1 /\ Len(q) \in Nat /\ a[Len(q) + 1] = d
      /\ \A i \in 1..Len(q) : a[i] = q[i]
      /\ DOMAIN q = 1..Len(q) /\ DOMAIN a = 1..Len(a)
  BY Adding
<1>1. \A i \in DataAt(q) : i \in DataAt(a) /\ a[i].n = q[i].n /\ i \in 1..Len(q)
  BY <1>0 DEF DataAt
<1>2. \A i \in DataAt(a) : \/ i \in DataAt(q) /\ a[i].n = q[i].n
                           \/ i = Len(q) + 1 /\ d.kind = "data" /\ a[i].n = d.n
  BY <1>0 DEF DataAt
<1>3. d.kind = "data" => Len(q) + 1 \in DataAt(a) /\ a[Len(q) + 1].n = d.n
  BY <1>0 DEF DataAt
<1>4. Numbers(q) \subseteq Numbers(a)
  BY <1>1 DEF Numbers
<1>5. \A x \in Numbers(a) : x \in Numbers(q) \/ (d.kind = "data" /\ x = d.n)
  BY <1>2 DEF Numbers
<1>6. d.kind = "data" => d.n \in Numbers(a)
  BY <1>3 DEF Numbers
<1>7. Rising(a)
  <2> SUFFICES ASSUME NEW i \in DataAt(a), NEW j \in DataAt(a), i < j PROVE a[i].n < a[j].n
    BY DEF Rising
  <2>1. i \in DataAt(q) /\ a[i].n = q[i].n
    <3>1. i \in 1..Len(q) + 1 /\ j \in 1..Len(q) + 1
      BY <1>0 DEF DataAt
    <3>. QED BY <1>0, <1>2, <3>1
  <2>2. CASE j \in DataAt(q) /\ a[j].n = q[j].n
    BY <2>1, <2>2 DEF Rising
  <2>3. CASE d.kind = "data" /\ a[j].n = d.n
    BY <2>1, <2>3 DEF Numbers
  <2>. QED BY <1>2, <2>2, <2>3
<1>. QED BY <1>4, <1>5, <1>6, <1>7

\* What is heard.
Values(s) == {s[i] : i \in DOMAIN s}
Increasing(s) == \A i, j \in DOMAIN s : i < j => s[i] < s[j]

LEMMA AppendValue ==
  ASSUME NEW s \in Seq(Nat), NEW e \in Nat, Increasing(s), \A x \in Values(s) : x < e
  PROVE  Increasing(Append(s, e)) /\ Values(Append(s, e)) = Values(s) \cup {e}
<1> DEFINE a == Append(s, e)
<1>0. /\ a \in Seq(Nat) /\ Len(a) = Len(s) + 1 /\ Len(s) \in Nat /\ a[Len(s) + 1] = e
      /\ \A i \in 1..Len(s) : a[i] = s[i]
      /\ DOMAIN s = 1..Len(s) /\ DOMAIN a = 1..Len(a)
  BY Adding
<1>1. \A i \in DOMAIN a : (i \in DOMAIN s /\ a[i] = s[i]) \/ (i = Len(s) + 1 /\ a[i] = e)
  BY <1>0
<1>2. \A i \in DOMAIN s : i \in DOMAIN a /\ a[i] = s[i]
  BY <1>0
<1>3. Len(s) + 1 \in DOMAIN a
  BY <1>0
<1>4. Values(a) = Values(s) \cup {e}
  BY <1>0, <1>1, <1>2, <1>3 DEF Values
<1>5. Increasing(a)
  <2> SUFFICES ASSUME NEW i \in DOMAIN a, NEW j \in DOMAIN a, i < j PROVE a[i] < a[j]
    BY DEF Increasing
  <2>1. i \in DOMAIN s /\ a[i] = s[i]
    BY <1>0, <1>1
  <2>2. CASE j \in DOMAIN s /\ a[j] = s[j]
    BY <2>1, <2>2 DEF Increasing
  <2>3. CASE a[j] = e
    BY <2>1, <2>3 DEF Values
  <2>. QED BY <1>1, <2>2, <2>3
<1>. QED BY <1>4, <1>5

-----------------------------------------------------------------------------
(***************************************************************************)
(* The stream: what is heard, in the hand of the thread and ahead of it is *)
(* one rising sequence, and with what was dropped it is all that was sent. *)
(***************************************************************************)
Stream ==
  /\ Increasing(heard) /\ Rising(up)
  /\ \A x \in Values(heard), y \in InHand \cup Numbers(up) : x < y
  /\ \A x \in InHand, y \in Numbers(up) : x < y
  /\ 1..sent = Values(heard) \cup InHand \cup Numbers(up) \cup lost

Kept ==
  /\ call.op \in {"Open", "Write"} /\ opens = 1 => lost \subseteq {1}
  /\ call.pc = "idle" /\ call.op \in {"Close", "Destroy"} /\ call.result = "returned" => reader.pc = "none"

LEMMA SerialParts == SerialData <=> Stream /\ Kept
BY DEF SerialData, Stream, Kept, Heard, Ahead, Increasing, Rising, Values, Numbers

\* The first Open hears and drops nothing before it has asked for the modem, and the
\* device sends nothing before it is asked: its first packet is the answer to AT.
AtSent == call.pc \in {"at_wait", "at_null_wait", "spawn"} \/ (call.pc \in {"hash", "hash_wait", "null_wait"} /\ call.back = "spawn")
Offline == sent = 0 /\ ~device.online /\ \A i \in 1..Len(down) : down[i].kind # "at"
Fresh == lost = {} /\ heard = << >>

Started ==
  /\ opens = 0 => Offline
  /\ opens = 1 /\ call.op = "Open" /\ call.pc # "idle" => (call.pc # "spawn" => Fresh) /\ (~AtSent => Offline)

SerialInv == TInv /\ Stream /\ Kept /\ Started

LEMMA StreamTyped ==
  ASSUME TInv
  PROVE  /\ Values(heard) \subseteq 1..sent /\ InHand \subseteq 1..sent /\ Numbers(up) \subseteq 1..sent
         /\ sent \in Nat /\ up \in Seq(Packets) /\ heard \in Seq(Nat)
<1>1. sent \in Nat /\ up \in Seq(Packets) /\ heard \in Seq(Nat) /\ reader \in Readers
  BY IpModemAssumption DEF TInv, Typed
<1>2. DOMAIN up = 1..Len(up) /\ DOMAIN heard = 1..Len(heard)
  BY <1>1
<1>3. Values(heard) \subseteq 1..sent
  BY <1>2 DEF Values, TInv, Numbered
<1>4. Numbers(up) \subseteq 1..sent
  BY <1>2 DEF Numbers, DataAt, TInv, Numbered
<1>5. InHand \subseteq 1..sent
  BY <1>1 DEF InHand, TInv, Numbered, Control, Readers
<1>. QED BY <1>1, <1>3, <1>4, <1>5

LEMMA NothingSent ==
  ASSUME TInv, sent = 0
  PROVE  Fresh
<1>1. lost = {}
  BY DEF TInv, Numbered
<1>2. heard \in Seq(Nat) /\ \A i \in 1..Len(heard) : FALSE
  BY DEF TInv, Typed, Numbered
<1>3. Len(heard) = 0
  BY <1>2
<1>. QED BY <1>1, <1>2, <1>3, EmptySeq DEF Fresh

LEMMA StreamSame ==
  ASSUME Stream, UNCHANGED <<heard, up, lost, sent>>, InHand' = InHand
  PROVE  Stream'
BY DEF Stream, Increasing, Values, Rising, Numbers, DataAt

\* A call reads, and drops what is data.
LEMMA StreamDrops ==
  ASSUME TInv, Stream, up # << >>, up' = Tail(up), Dropped, InHand' = InHand, UNCHANGED sent
  PROVE  Stream'
<1>0. up \in Seq(Packets) /\ heard' = heard /\ Rising(up)
  BY StreamTyped DEF Dropped, Stream
<1>1. Rising(up') /\ Increasing(heard') /\ Values(heard') = Values(heard)
  BY <1>0, TailData DEF Stream
<1>2. Numbers(up) \cup lost = Numbers(up') \cup lost' /\ Numbers(up') \subseteq Numbers(up)
  BY <1>0, TailData DEF Dropped
<1>. QED BY <1>1, <1>2 DEF Stream

\* The first packet of data is the oldest that is not yet heard.
LEMMA StreamHead ==
  ASSUME TInv, Stream, up # << >>, Head(up).kind = "data"
  PROVE  /\ Head(up).n \in Numbers(up) /\ Head(up).n \in Nat
         /\ \A y \in Numbers(Tail(up)) : Head(up).n < y
         /\ \A x \in Values(heard) \cup InHand : x < Head(up).n
         /\ Fresh /\ InHand = {} => Head(up).n = 1
<1>0. up \in Seq(Packets) /\ Rising(up) /\ Numbers(up) \subseteq 1..sent /\ sent \in Nat
  BY StreamTyped DEF Stream
<1>1. Numbers(up) = Numbers(Tail(up)) \cup {Head(up).n} /\ \A y \in Numbers(Tail(up)) : Head(up).n < y
  BY <1>0, TailData
<1>2. \A x \in Values(heard) \cup InHand : x < Head(up).n
  BY <1>1 DEF Stream
<1>3. ASSUME Fresh, InHand = {} PROVE Head(up).n = 1
  <2>1. Values(heard) = {}
    BY <1>3 DEF Fresh, Values
  <2>2. 1..sent = Numbers(up)
    BY <1>3, <2>1 DEF Fresh, Stream
  <2>3. Head(up).n \in 1..sent
    BY <1>0, <1>1
  <2>4. 1 \in Numbers(up)
    BY <1>0, <2>2, <2>3
  <2>5. 1 \in Numbers(Tail(up)) => FALSE
    BY <1>1, <2>3
  <2>. QED BY <1>1, <2>4, <2>5
<1>4. Head(up).n \in Numbers(up) /\ Head(up).n \in Nat
  <2>1. Head(up).n \in Numbers(up)
    BY <1>1
  <2>2. Head(up).n \in 1..sent
    BY <1>0, <2>1
  <2>. QED BY <1>0, <2>1, <2>2
<1>. QED BY <1>1, <1>2, <1>3, <1>4

\* The answer to AT, when it is data, or the callback's packet.
LEMMA StreamHears ==
  ASSUME TInv, Stream, UNCHANGED <<sent, lost>>,
         NEW n \in Nat, heard' = Append(heard, n), InHand' = {},
         \/ InHand = {n} /\ UNCHANGED up
         \/ InHand = {} /\ up # << >> /\ Head(up).kind = "data" /\ n = Head(up).n /\ up' = Tail(up)
  PROVE  Stream'
<1>0. up \in Seq(Packets) /\ heard \in Seq(Nat) /\ Increasing(heard) /\ Rising(up)
  BY StreamTyped DEF Stream
<1>1. ASSUME InHand = {n}, UNCHANGED up
      PROVE  /\ \A x \in Values(heard) : x < n
             /\ Rising(up') /\ \A y \in Numbers(up') : n < y
             /\ InHand \cup Numbers(up) = {n} \cup Numbers(up')
  BY <1>1 DEF Stream, Rising, Numbers, DataAt
<1>2. ASSUME InHand = {}, up # << >>, Head(up).kind = "data", n = Head(up).n, up' = Tail(up)
      PROVE  /\ \A x \in Values(heard) : x < n
             /\ Rising(up') /\ \A y \in Numbers(up') : n < y
             /\ InHand \cup Numbers(up) = {n} \cup Numbers(up')
  BY <1>0, <1>2, StreamHead, TailData
<1>3. /\ \A x \in Values(heard) : x < n
      /\ Rising(up') /\ \A y \in Numbers(up') : n < y
      /\ InHand \cup Numbers(up) = {n} \cup Numbers(up')
  BY <1>1, <1>2
<1>4. Increasing(heard') /\ Values(heard') = Values(heard) \cup {n}
  BY <1>0, <1>3, AppendValue
<1>5. \A x \in Values(heard), y \in Numbers(up') : x < y
  BY <1>3 DEF Stream
<1>6. \A x \in Values(heard'), y \in InHand' \cup Numbers(up') : x < y
  BY <1>3, <1>4, <1>5
<1>7. 1..sent' = Values(heard') \cup InHand' \cup Numbers(up') \cup lost'
  BY <1>3, <1>4 DEF Stream
<1>. QED BY <1>3, <1>4, <1>6, <1>7 DEF Stream

\* The thread reads.
LEMMA StreamTakes ==
  ASSUME TInv, Stream, UNCHANGED <<sent, lost, heard>>, InHand = {}, up # << >>, up' = Tail(up),
         InHand' = IF Head(up).kind = "data" THEN {Head(up).n} ELSE {}
  PROVE  Stream'
<1>0. up \in Seq(Packets) /\ Rising(up)
  BY StreamTyped DEF Stream
<1>1. Increasing(heard') /\ Values(heard') = Values(heard) /\ Rising(up')
  BY <1>0, TailData DEF Stream
<1>2. InHand \cup Numbers(up) = InHand' \cup Numbers(up')
  BY <1>0, TailData
<1>3. \A x \in InHand', y \in Numbers(up') : x < y
  BY <1>0, TailData
<1>. QED BY <1>1, <1>2, <1>3 DEF Stream

\* The device adds nothing that is data, or the next number.
LEMMA StreamGrows ==
  ASSUME TInv, Stream, UNCHANGED <<heard, lost>>, InHand' = InHand,
         NEW packets, up' = up \o packets,
         \/ sent' = sent /\ Little(packets, {})
         \/ sent' = sent + 1 /\ \E d \in Packets : /\ d.kind = "data" /\ d.n = sent + 1
                                                   /\ packets = <<d>> \/ packets = <<Null, d>>
  PROVE  Stream'
<1>0. /\ up \in Seq(Packets) /\ Rising(up) /\ sent \in Nat
      /\ Values(heard) \subseteq 1..sent /\ InHand \subseteq 1..sent /\ Numbers(up) \subseteq 1..sent
  BY StreamTyped DEF Stream
<1>1. Null \in Packets /\ Null.kind # "data"
  BY Nothing DEF Null, Packet
<1>2. ASSUME NEW d \in Packets, d.kind = "data" => d.n = sent + 1
      PROVE  /\ Rising(up \o <<d>>) /\ Rising(up \o <<Null, d>>)
             /\ d.kind = "data" => /\ Numbers(up \o <<d>>) = Numbers(up) \cup {d.n}
                                   /\ Numbers(up \o <<Null, d>>) = Numbers(up) \cup {d.n}
             /\ d.kind # "data" => /\ Numbers(up \o <<d>>) = Numbers(up)
                                   /\ Numbers(up \o <<Null, d>>) = Numbers(up)
  <2>1. PICK u : u = Append(up, Null)
    OBVIOUS
  <2>2. u \in Seq(Packets) /\ Rising(u) /\ Numbers(u) = Numbers(up)
    BY <1>0, <1>1, <2>1, AppendData, Adding
  <2>3. up \o <<d>> = Append(up, d) /\ up \o <<Null, d>> = Append(u, d)
    BY <1>0, <1>1, <1>2, <2>1, OneByOne
  <2>5. \A x \in Numbers(up) : x < sent + 1
    BY <1>0
  <2>6. d.kind = "data" => \A x \in Numbers(up) : x < d.n
    BY <1>2, <2>5
  <2>. QED BY <1>0, <1>2, <2>2, <2>3, <2>6, AppendData
<1>3. Increasing(heard') /\ Values(heard') = Values(heard)
  BY DEF Stream
<1>4. CASE sent' = sent /\ Little(packets, {})
  <2>1. Rising(up') /\ Numbers(up') = Numbers(up)
    <3>1. ASSUME packets = << >> PROVE up' = up
      BY <1>0, <3>1, ConcatEmptySeq
    <3>2. ASSUME NEW d \in Packets, packets = <<d>> \/ packets = <<Null, d>>, d.kind = "data" => d.n \in {}
          PROVE  Rising(up') /\ Numbers(up') = Numbers(up)
      BY <1>2, <3>2
    <3>. QED BY <1>0, <1>4, <3>1, <3>2 DEF Little
  <2>. QED BY <1>3, <1>4, <2>1 DEF Stream
<1>5. ASSUME sent' = sent + 1, NEW d \in Packets, d.kind = "data", d.n = sent + 1, packets = <<d>> \/ packets = <<Null, d>>
      PROVE  Stream'
  <2>1. Rising(up') /\ Numbers(up') = Numbers(up) \cup {sent + 1}
    BY <1>2, <1>5
  <2>2. 1..sent' = (1..sent) \cup {sent + 1}
    BY <1>0, <1>5
  <2>3. \A x \in Values(heard) \cup InHand : x < sent + 1
    <3>1. Values(heard) \cup InHand \subseteq 1..sent
      BY <1>0
    <3>2. \A x \in 1..sent : x < sent + 1
      BY <1>0
    <3>. QED BY <3>1, <3>2
  <2>4. 1..sent' = Values(heard') \cup InHand' \cup Numbers(up') \cup lost'
    BY <1>3, <2>1, <2>2 DEF Stream
  <2>. QED BY <1>3, <2>1, <2>3, <2>4 DEF Stream
<1>. QED BY <1>4, <1>5

-----------------------------------------------------------------------------
LEMMA SerialInit == Init => SerialInv
<1> SUFFICES ASSUME Init PROVE SerialInv
  OBVIOUS
<1>1. TInv
  BY TypeInit
<1>2. heard = << >> /\ up = << >> /\ down = << >> /\ sent = 0 /\ lost = {} /\ reader.pc = "none" /\ call.pc = "idle"
      /\ call.op = "none" /\ ~device.online
  BY DEF Init
<1>3. DataAt(up) = {} /\ DOMAIN heard = {} /\ Len(down) = 0 /\ InHand = {}
  BY <1>2 DEF DataAt, InHand
<1>4. Stream
  <2>1. Increasing(heard) /\ Values(heard) = {} /\ Rising(up) /\ Numbers(up) = {}
    BY <1>3 DEF Increasing, Values, Rising, Numbers
  <2>2. 1..sent = {}
    BY <1>2
  <2>. QED BY <1>2, <1>3, <2>1, <2>2 DEF Stream
<1>5. Kept /\ Started
  BY <1>2, <1>3 DEF Kept, Started, Offline
<1>. QED BY <1>1, <1>4, <1>5 DEF SerialInv

\* While Open runs there is no thread.
LEMMA NoThread ==
  ASSUME TInv, call.pc \in Opening
  PROVE  reader.pc = "none" /\ InHand = {} /\ call.op = "Open" /\ opens # 0
BY DEF TInv, Control, Opening, InHand

\* A step of a call that reads nothing.
LEMMA SerialCall ==
  ASSUME SerialInv, UNCHANGED <<heard, up, lost, sent, device, opens>>, InHand' = InHand,
         \/ down' = down
         \/ \E o \in Orders : down' = Append(down, o) /\ (o.kind = "at" => AtSent' /\ call.op = "Open"),
         call'.pc = "idle" /\ call'.op \in {"Close", "Destroy"} /\ call'.result = "returned" => reader'.pc = "none",
         call'.op \in {"Open", "Write"} => call.op \in {"Open", "Write"},
         call'.op = "Open" /\ call'.pc # "idle" =>
            call.op = "Open" /\ call.pc # "idle" /\ (call'.pc # "spawn" => call.pc # "spawn") /\ (AtSent => AtSent')
  PROVE  Stream' /\ Kept' /\ Started'
<1>1. Stream'
  BY StreamSame DEF SerialInv
<1>2. Kept'
  BY DEF SerialInv, Kept
<1>3. Fresh => Fresh'
  BY DEF Fresh
<1>4. Offline /\ (AtSent' /\ call.op = "Open" => FALSE) => Offline'
  <2>1. down \in Seq(Orders)
    BY DEF SerialInv, TInv, Typed
  <2>2. ASSUME NEW o \in Orders, down' = Append(down, o), o.kind # "at", Offline
        PROVE  Offline'
    <3>1. Len(down') = Len(down) + 1 /\ Len(down) \in Nat /\ down'[Len(down) + 1] = o
          /\ \A i \in 1..Len(down) : down'[i] = down[i]
      BY <2>1, <2>2, Adding
    <3>2. \A i \in 1..Len(down') : down'[i].kind # "at"
      BY <2>2, <3>1 DEF Offline
    <3>. QED BY <2>2, <3>2 DEF Offline
  <2>3. down' = down /\ Offline => Offline'
    BY DEF Offline
  <2>. QED BY <2>2, <2>3
<1>5. opens = 0 => call.op # "Open"
  BY DEF SerialInv, TInv, Control
<1>6. Started'
  BY <1>3, <1>4, <1>5 DEF SerialInv, Started
<1>. QED BY <1>1, <1>2, <1>6

\* A read of Open that drops data.
LEMMA SerialOpenRead ==
  ASSUME SerialInv, Receive, Dropped, call.pc \in Opening \ {"spawn"}, call'.op = call.op,
         call'.pc = "idle" \/ (AtSent => AtSent'),
         Head(up).kind = "data" /\ AtSent => call'.pc \in {"idle", "spawn"}
  PROVE  Stream' /\ Kept' /\ Started'
<1>1. up # << >> /\ up' = Tail(up) /\ UNCHANGED <<down, reader, device, sent, opens, heard>>
  BY DEF Receive, Dropped
<1>2. TInv /\ InHand = {} /\ InHand' = {} /\ call.op = "Open" /\ opens # 0
  BY <1>1, NoThread DEF SerialInv, InHand
<1>3. Stream'
  BY <1>1, <1>2, StreamDrops DEF SerialInv
<1>4. Offline => Offline'
  BY <1>1 DEF Offline
<1>5. ASSUME opens = 1
      PROVE  /\ lost' \subseteq {1}
             /\ call'.pc # "idle" => (call'.pc # "spawn" => Fresh') /\ (~AtSent' => Offline')
  <2>1. Fresh /\ (~AtSent => Offline)
    BY <1>2, <1>5 DEF SerialInv, Started, Opening
  <2>2. Head(up).kind = "data" => Head(up).n = 1 /\ AtSent
    <3>1. Head(up).kind = "data" => Head(up).n = 1 /\ Head(up).n \in Numbers(up)
      BY <1>1, <1>2, <2>1, StreamHead DEF SerialInv
    <3>2. Offline => Numbers(up) = {}
      BY <1>2, StreamTyped DEF Offline
    <3>. QED BY <2>1, <3>1, <3>2
  <2>3. lost' \subseteq {1} /\ (Head(up).kind # "data" => Fresh')
    BY <1>1, <2>1, <2>2 DEF Fresh, Dropped
  <2>. QED BY <1>4, <2>1, <2>2, <2>3
<1>6. Kept'
  BY <1>1, <1>2, <1>5 DEF Kept
<1>7. Started'
  BY <1>1, <1>2, <1>5 DEF Started
<1>. QED BY <1>3, <1>6, <1>7

LEMMA SerialReads ==
  ASSUME SerialInv,
         ignored_response \/ start_response \/ password_response \/ restart_response \/ at_response
  PROVE  Stream' /\ Kept' /\ Started'
<1>0. call \in Calls /\ TInv /\ Receive /\ up # << >> /\ Head(up) \in Packets
  <2>1. Receive
    BY DEF ignored_response, start_response, password_response, restart_response, at_response
  <2>2. up # << >>
    BY <2>1 DEF Receive
  <2>. QED BY <2>1, <2>2, Taking DEF SerialInv, TInv, Typed
<1>1. CASE ignored_response
  <2>1. /\ Dropped /\ call.pc \in Opening \ {"spawn"}
        /\ (call.pc = "stop_wait" /\ Goto("start")) \/ (call.pc = "at_null_wait" /\ Goto("spawn"))
    BY <1>1 DEF ignored_response, Opening
  <2>2. call'.op = call.op
        /\ ((call.pc = "stop_wait" /\ call'.pc = "start") \/ (call.pc = "at_null_wait" /\ call'.pc = "spawn"))
    BY <1>0, <2>1 DEF Goto, Calls
  <2>. QED BY <1>0, <2>1, <2>2, SerialOpenRead DEF AtSent
<1>2. CASE start_response
  <2>1. Dropped /\ call.pc \in Opening \ {"spawn"} /\ ~AtSent
    BY <1>2 DEF start_response, Opening, AtSent
  <2>2. call'.op = call.op
    <3>1. ASSUME Return("BadPassword") PROVE call'.op = call.op
      BY <1>0, <3>1, Returning
    <3>2. ASSUME Head(up).kind = "request", SendPassword(Head(up).seed, "restart") PROVE call'.op = call.op
      <4>1. Head(up).seed \in Nat
        BY <1>0, <3>2 DEF Packets
      <4>. QED BY <1>0, <3>2, <4>1, SendingPassword
    <3>3. ASSUME call' = [call EXCEPT !.pc = "key", !.answer = Head(up)] PROVE call'.op = call.op
      BY <1>0, <3>3 DEF Calls
    <3>. QED BY <1>2, <3>1, <3>2, <3>3 DEF start_response
  <2>. QED BY <1>0, <2>1, <2>2, SerialOpenRead
<1>3. CASE password_response
  <2>1. Dropped /\ call.pc \in Opening \ {"spawn"} /\ call.pc \in {"hash_wait", "null_wait"}
    BY <1>3 DEF password_response, Opening
  <2>2. CASE Head(up).kind = "null" /\ Goto("null_wait")
    <3>1. call'.op = call.op /\ call'.pc = "null_wait" /\ call'.back = call.back
      BY <1>0, <2>2 DEF Goto, Calls
    <3>. QED BY <1>0, <2>1, <2>2, <3>1, SerialOpenRead DEF AtSent
  <2>3. CASE CheckVerdict(Head(up))
    <3>1. call'.op = call.op
          /\ (call'.pc = "idle" \/ (call'.pc = call.back /\ Head(up).kind # "data"))
      BY <1>0, <2>3, Judging
    <3>. QED BY <1>0, <2>1, <3>1, SerialOpenRead DEF AtSent
  <2>. QED BY <1>3, <2>2, <2>3 DEF password_response
<1>4. CASE restart_response
  <2>1. Dropped /\ call.pc \in Opening \ {"spawn"} /\ ~AtSent /\ call' = [call EXCEPT !.pc = "key", !.answer = Head(up)]
    BY <1>4 DEF restart_response, Opening, AtSent
  <2>2. call'.op = call.op
    BY <1>0, <2>1 DEF Calls
  <2>. QED BY <1>0, <2>1, <2>2, SerialOpenRead
<1>5. CASE at_response
  <2>1. call.pc = "at_wait" /\ call.pc \in Opening \ {"spawn"} /\ AtSent /\ UNCHANGED lost
    BY <1>5 DEF at_response, Opening, AtSent
  <2>2. call'.op = call.op /\ (call'.pc = "idle" \/ AtSent') /\ (Head(up).kind = "data" => call'.pc = "spawn")
    <3>1. ASSUME NEW pc \in {"at_null_wait", "spawn"}, Goto(pc) PROVE call'.op = call.op /\ call'.pc = pc
      BY <1>0, <3>1 DEF Calls, Goto
    <3>2. ASSUME Head(up).kind = "request", SendPassword(Head(up).seed, "spawn")
          PROVE  call'.op = call.op /\ (call'.pc = "idle" \/ (call'.pc = "hash" /\ call'.back = "spawn"))
      <4>1. Head(up).seed \in Nat
        BY <1>0, <3>2 DEF Packets
      <4>. QED BY <1>0, <3>2, <4>1, SendingPassword
    <3>3. ASSUME Return("BadPassword") PROVE call'.op = call.op /\ call'.pc = "idle"
      BY <1>0, <3>3, Returning
    <3>. QED BY <1>5, <3>1, <3>2, <3>3 DEF at_response, AtSent
  <2>3. CASE Head(up).kind # "data"
    <3>1. Dropped
      <4>1. heard' = heard
        BY <1>5, <2>3 DEF at_response
      <4>. QED BY <2>1, <2>3, <4>1 DEF Dropped
    <3>. QED BY <1>0, <2>1, <2>2, <2>3, <3>1, SerialOpenRead
  <2>4. CASE Head(up).kind = "data"
    <3>1. heard' = Append(heard, Head(up).n) /\ up' = Tail(up) /\ UNCHANGED <<down, reader, device, sent, opens>>
      BY <1>0, <1>5, <2>4 DEF at_response, Receive
    <3>2. InHand = {} /\ InHand' = {} /\ call.op = "Open" /\ opens # 0
      BY <1>0, <2>1, <3>1, NoThread DEF InHand
    <3>3. Head(up).n \in Nat
      BY <1>0 DEF Packets
    <3>4. Stream'
      BY <1>0, <2>1, <2>4, <3>1, <3>2, <3>3, StreamHears DEF SerialInv
    <3>5. Kept'
      BY <2>1, <2>2, <3>1, <3>2 DEF SerialInv, Kept
    <3>6. Started'
      BY <2>2, <2>4, <3>1, <3>2 DEF Started, AtSent
    <3>. QED BY <3>4, <3>5, <3>6
  <2>. QED BY <2>3, <2>4
<1>. QED BY <1>1, <1>2, <1>3, <1>4, <1>5

LEMMA SerialCommands == SerialInv /\ (SendCommand \/ SendSessionKey) => Stream' /\ Kept' /\ Started'
<1> SUFFICES ASSUME SerialInv, SendCommand \/ SendSessionKey PROVE Stream' /\ Kept' /\ Started'
  OBVIOUS
<1>0. call \in Calls /\ TInv
  BY DEF SerialInv, TInv, Typed
<1>1. ASSUME NEW kind \in {"stop", "start", "hash", "key", "at", "end"}, Send(kind)
      PROVE  \E o \in Orders : down' = Append(down, o) /\ o.kind = kind
  <2>1. PICK o : o = [kind |-> kind, seed |-> call.seed, right |-> call.password = RightPassword]
    OBVIOUS
  <2>2. o \in Orders /\ o.kind = kind
    BY <1>0, <2>1 DEF Calls, Orders
  <2>. QED BY <1>1, <2>1, <2>2 DEF Send
<1>2. CASE SendCommand
  <2>1. PICK c \in Commands : call.pc = c[1] /\ Send(c[2]) /\ Goto(c[3]) /\ UNCHANGED history /\ Quiet
    BY <1>2 DEF SendCommand
  <2>2. /\ c[2] \in {"stop", "start", "hash", "key", "at", "end"}
        /\ c[1] # "idle" /\ c[1] # "spawn" /\ c[3] # "idle" /\ c[3] # "spawn"
        /\ c[2] = "at" => c[1] = "at" /\ c[3] = "at_wait"
        /\ c[1] = "hash" => c[3] = "hash_wait"
        /\ c[1] \notin {"at_wait", "at_null_wait", "hash_wait", "null_wait"}
    BY DEF Commands
  <2>3. PICK o \in Orders : down' = Append(down, o) /\ o.kind = c[2]
    BY <1>1, <2>1, <2>2
  <2>4. call'.pc = c[3] /\ call'.op = call.op /\ call'.back = call.back
    BY <1>0, <2>1 DEF Goto, Calls
  <2>5. UNCHANGED <<heard, up, lost, sent, device, opens, reader>> /\ InHand' = InHand
    BY <2>1 DEF Quiet, dataVars, history, InHand
  <2>6. AtSent => AtSent'
    BY <2>1, <2>2, <2>4 DEF AtSent
  <2>7. o.kind = "at" => AtSent' /\ call.op = "Open"
    BY <1>0, <2>1, <2>2, <2>3, <2>4 DEF AtSent, TInv, Control, Opening
  <2>. QED BY <2>1, <2>2, <2>3, <2>4, <2>5, <2>6, <2>7, SerialCall
<1>3. CASE SendSessionKey
  <2>1. call.pc = "key" /\ Send("key") /\ UNCHANGED <<heard, up, lost, sent, device, opens, reader>> /\ ~AtSent
    BY <1>3 DEF SendSessionKey, Quiet, dataVars, AtSent
  <2>2. PICK o \in Orders : down' = Append(down, o) /\ o.kind = "key"
    BY <1>1, <2>1
  <2>3. call'.op = call.op /\ call'.pc # "spawn"
    <3>1. CASE call.answer.kind = "request"
      <4>1. SendPassword(call.answer.seed, "at") /\ call.answer.seed \in Nat
        BY <1>0, <1>3, <3>1 DEF SendSessionKey, Calls, Packets
      <4>. QED BY <1>0, <4>1, SendingPassword
    <3>2. CASE call.answer.kind # "request"
      BY <1>0, <1>3, <3>2 DEF SendSessionKey, Goto, Calls
    <3>. QED BY <3>1, <3>2
  <2>4. call.op = "Open" /\ InHand' = InHand
    BY <1>0, <2>1 DEF TInv, Control, Opening, InHand
  <2>. QED BY <2>1, <2>2, <2>3, <2>4, SerialCall
<1>. QED BY <1>2, <1>3

LEMMA SerialCalls ==
  ASSUME SerialInv,
         \/ \E password \in Passwords : Open(password)
         \/ \E text \in Chunks : Write(text)
         \/ \E op \in {"Close", "Destroy"} : Close(op)
         \/ usb_error
  PROVE  Stream' /\ Kept' /\ Started'
<1>0. call \in Calls /\ TInv /\ opens \in Nat
  BY DEF SerialInv, TInv, Typed
<1>1. ASSUME NEW password \in Passwords, Open(password) PROVE Stream' /\ Kept' /\ Started'
  <2>1. /\ call' = [call EXCEPT !.op = "Open", !.pc = "stop", !.password = password] /\ opens' = opens + 1
        /\ UNCHANGED <<down, up, reader, device, sent, heard, lost>>
    BY <1>1 DEF Open, Quiet, dataVars
  <2>2. call'.op = "Open" /\ call'.pc = "stop"
    BY <1>0, <2>1 DEF Calls
  <2>3. Stream'
    BY <2>1, StreamSame DEF InHand, SerialInv
  <2>4. opens' # 0 /\ (opens' = 1 => opens = 0)
    BY <1>0, <2>1
  <2>5. ASSUME opens = 0 PROVE Offline' /\ Fresh'
    <3>1. Offline
      BY <2>5 DEF SerialInv, Started
    <3>2. Fresh
      BY <1>0, <3>1, NothingSent DEF Offline
    <3>. QED BY <2>1, <3>1, <3>2 DEF Offline, Fresh
  <2>6. Kept'
    BY <2>2, <2>4, <2>5 DEF Kept, Fresh
  <2>7. Started'
    BY <2>4, <2>5 DEF Started
  <2>. QED BY <2>3, <2>6, <2>7
<1>2. ASSUME NEW text \in Chunks, Write(text) PROVE Stream' /\ Kept' /\ Started'
  <2>1. /\ call.op \in {"Open", "Write"} /\ call.pc = "idle"
        /\ UNCHANGED <<down, up, reader, device, sent, heard, lost, opens>>
        /\ \/ call' = [call EXCEPT !.op = "Write"]
           \/ call' = [call EXCEPT !.op = "Write", !.result = "Error"]
    BY <1>2 DEF Write, usbVars, dataVars
  <2>2. call'.op = "Write"
    BY <1>0, <2>1 DEF Calls
  <2>. QED BY <2>1, <2>2, SerialCall DEF InHand
<1>3. ASSUME NEW op \in {"Close", "Destroy"}, Close(op) PROVE Stream' /\ Kept' /\ Started'
  <2>1. /\ call' = [call EXCEPT !.op = op, !.pc = "end"]
        /\ UNCHANGED <<down, up, reader, device, sent, heard, lost, opens>>
    BY <1>3 DEF Close, usbVars, dataVars, history
  <2>2. call'.op = op /\ call'.pc = "end"
    BY <1>0, <2>1 DEF Calls
  <2>. QED BY <2>1, <2>2, SerialCall DEF InHand
<1>4. CASE usb_error
  <2>1. Return("Error") /\ UNCHANGED <<down, up, reader, device, sent, heard, lost, opens>>
    BY <1>4 DEF usb_error, usbVars, dataVars
  <2>2. call'.op = call.op /\ call'.pc = "idle" /\ call'.result = "Error"
    BY <1>0, <2>1, Returning
  <2>. QED BY <2>1, <2>2, SerialCall DEF InHand
<1>. QED BY <1>1, <1>2, <1>3, <1>4

\* Where Close finds no thread, there is none.
LEMMA StopsThread ==
  ASSUME TInv, call.pc = "end_wait", StopThread, UNCHANGED reader
  PROVE  /\ call'.op = call.op /\ call'.op \in {"Close", "Destroy"}
         /\ call'.pc = "idle" => reader'.pc = "none"
<1>0. call \in Calls /\ call.op \in {"Close", "Destroy"} /\ continue_reading \in BOOLEAN
  BY DEF TInv, Typed, Control, Closing
<1>1. CASE continue_reading
  <2>1. Goto("join")
    BY <1>1 DEF StopThread
  <2>. QED BY <1>0, <2>1 DEF Goto, Calls
<1>2. CASE ~continue_reading
  <2>1. Return("returned")
    BY <1>2 DEF StopThread
  <2>2. reader.pc = "none"
    BY <1>2 DEF TInv, Control
  <2>. QED BY <1>0, <2>1, <2>2, Returning
<1>. QED BY <1>0, <1>1, <1>2

LEMMA SerialEnds == SerialInv /\ (timeout \/ spawn \/ close_response \/ join) => Stream' /\ Kept' /\ Started'
<1> SUFFICES ASSUME SerialInv, timeout \/ spawn \/ close_response \/ join PROVE Stream' /\ Kept' /\ Started'
  OBVIOUS
<1>0. call \in Calls /\ reader \in Readers /\ TInv
  BY DEF SerialInv, TInv, Typed
<1>1. CASE timeout
  <2>1. UNCHANGED <<down, up, reader, device, sent, heard, lost, opens>> /\ InHand' = InHand
    BY <1>1 DEF timeout, usbVars, dataVars, InHand
  <2>2. CASE call.pc = "end_wait"
    <3>1. StopThread
      BY <1>1, <2>2 DEF timeout
    <3>2. call'.op = call.op /\ call'.op \in {"Close", "Destroy"} /\ (call'.pc = "idle" => reader'.pc = "none")
      BY <1>0, <2>1, <2>2, <3>1, StopsThread
    <3>. QED BY <2>1, <3>2, SerialCall
  <2>3. CASE call.pc # "end_wait"
    <3>1. \/ call.pc = "stop_wait" /\ Goto("start")
          \/ call.pc = "null_wait" /\ Return("Error")
          \/ call.pc = "at_null_wait" /\ Goto("spawn")
          \/ call.pc \notin {"stop_wait", "null_wait", "at_null_wait", "end_wait"} /\ Return("Timeout")
      BY <1>1, <2>3 DEF timeout
    <3>2. ASSUME NEW result \in {"Error", "Timeout"}, Return(result)
          PROVE  call'.op = call.op /\ call'.pc = "idle" /\ call'.result = result
      BY <1>0, <3>2, Returning
    <3>3. ASSUME NEW pc \in {"start", "spawn"}, Goto(pc)
          PROVE  call'.op = call.op /\ call'.pc = pc
      BY <1>0, <3>3 DEF Goto, Calls
    <3>4. CASE call'.op = call.op /\ call'.pc = "idle" /\ call'.result \in {"Error", "Timeout"}
      BY <2>1, <3>4, SerialCall
    <3>5. CASE call.pc = "stop_wait" /\ call'.op = call.op /\ call'.pc = "start"
      <4>1. ~AtSent
        BY <3>5 DEF AtSent
      <4>. QED BY <2>1, <3>5, <4>1, SerialCall
    <3>6. CASE call.pc = "at_null_wait" /\ call'.op = call.op /\ call'.pc = "spawn"
      <4>1. AtSent'
        BY <3>6 DEF AtSent
      <4>. QED BY <2>1, <3>6, <4>1, SerialCall
    <3>. QED BY <3>1, <3>2, <3>3, <3>4, <3>5, <3>6
  <2>. QED BY <2>2, <2>3
<1>2. CASE spawn
  <2>1. /\ call.pc = "spawn" /\ UNCHANGED <<down, up, device, sent, heard, lost, opens>>
        /\ reader' = reader \/ reader' = [reader EXCEPT !.pc = "testing"]
        /\ Return("returned") \/ Return("Error")
    BY <1>2 DEF spawn, usbVars, dataVars, history
  <2>2. call'.op = call.op /\ call'.pc = "idle" /\ call.op = "Open" /\ reader.pc = "none"
    BY <1>0, <2>1, Returning, NoThread DEF Opening
  <2>3. InHand' = InHand
    BY <1>0, <2>1, <2>2 DEF InHand, Readers
  <2>. QED BY <2>1, <2>2, <2>3, SerialCall
<1>3. CASE close_response
  <2>1. /\ call.pc = "end_wait" /\ StopThread /\ up # << >> /\ up' = Tail(up) /\ Dropped
        /\ UNCHANGED <<down, reader, device, sent, opens>>
    BY <1>3 DEF close_response, history
  <2>2. call'.op = call.op /\ call'.op \in {"Close", "Destroy"} /\ (call'.pc = "idle" => reader'.pc = "none")
    BY <1>0, <2>1, StopsThread
  <2>3. Stream'
    BY <1>0, <2>1, StreamDrops DEF InHand, SerialInv
  <2>. QED BY <2>1, <2>2, <2>3 DEF SerialInv, Kept, Started, Offline
<1>4. CASE join
  <2>1. /\ call.pc = "join" /\ reader.pc = "over" /\ reader' = [reader EXCEPT !.pc = "none"] /\ Return("returned")
        /\ UNCHANGED <<down, up, device, sent, heard, lost, opens>>
    BY <1>4 DEF join, usbVars, dataVars, history
  <2>2. call'.op = call.op /\ call'.pc = "idle" /\ reader'.pc = "none" /\ InHand' = InHand
    BY <1>0, <2>1, Returning DEF Readers, InHand
  <2>. QED BY <2>1, <2>2, SerialCall
<1>. QED BY <1>1, <1>2, <1>3, <1>4

\* The thread moves only between Open and the join of Close.
LEMMA SerialReader == SerialInv /\ DataReadThread => Stream' /\ Kept' /\ Started'
<1> SUFFICES ASSUME SerialInv, DataReadThread PROVE Stream' /\ Kept' /\ Started'
  OBVIOUS
<1>0. reader \in Readers /\ TInv /\ Stream /\ call \in Calls
  BY DEF SerialInv, TInv, Typed
<1>1. UNCHANGED <<call, down, device, sent, lost, opens>> /\ reader.pc \in {"testing", "reading", "calling"}
  BY DEF DataReadThread, reader_tests, reader_reads, reader_gets_nothing, callback, usbVars, dataVars, history
<1>2. Kept'
  BY <1>1 DEF SerialInv, Kept
<1>3. call.op = "Open" => call.pc = "idle"
  BY <1>0, <1>1, NoThread DEF Calls, TInv, Control, Closing
<1>4. Started'
  BY <1>1, <1>3 DEF SerialInv, Started, Offline
<1>5. CASE reader_tests
  <2>1. /\ reader.pc = "testing" /\ reader' = [reader EXCEPT !.pc = IF continue_reading THEN "reading" ELSE "over"]
        /\ UNCHANGED <<up, heard>>
    BY <1>5 DEF reader_tests, usbVars, dataVars
  <2>2. InHand = {} /\ InHand' = {}
    BY <1>0, <2>1 DEF InHand, Readers
  <2>. QED BY <1>0, <1>1, <1>2, <1>4, <2>1, <2>2, StreamSame
<1>6. CASE reader_reads
  <2>1. reader.pc = "reading" /\ up # << >> /\ up' = Tail(up) /\ UNCHANGED heard
    BY <1>6 DEF reader_reads, dataVars
  <2>2. InHand = {} /\ InHand' = IF Head(up).kind = "data" THEN {Head(up).n} ELSE {}
    BY <1>6, <2>1 DEF InHand, reader_reads
  <2>. QED BY <1>0, <1>1, <1>2, <1>4, <2>1, <2>2, StreamTakes
<1>7. CASE reader_gets_nothing
  <2>1. /\ reader.pc = "reading" /\ reader' = [reader EXCEPT !.pc = "testing"] /\ UNCHANGED <<up, heard>>
    BY <1>7 DEF reader_gets_nothing, usbVars, dataVars
  <2>2. InHand = {} /\ InHand' = {}
    BY <1>0, <2>1 DEF InHand, Readers
  <2>. QED BY <1>0, <1>1, <1>2, <1>4, <2>1, <2>2, StreamSame
<1>8. CASE callback
  <2>1. /\ reader.pc = "calling" /\ heard' = Append(heard, reader.hand) /\ reader' = [pc |-> "testing", hand |-> 0]
        /\ UNCHANGED up
    BY <1>8 DEF callback, usbVars
  <2>2. InHand = {reader.hand} /\ InHand' = {} /\ reader.hand \in Nat
    BY <1>0, <2>1 DEF InHand, Readers
  <2>. QED BY <1>0, <1>1, <1>2, <1>4, <2>1, <2>2, StreamHears
<1>. QED BY <1>5, <1>6, <1>7, <1>8 DEF DataReadThread

LEMMA SerialDevice == SerialInv /\ Device => Stream' /\ Kept' /\ Started'
<1> SUFFICES ASSUME SerialInv, Device PROVE Stream' /\ Kept' /\ Started'
  OBVIOUS
<1>0. TInv /\ Stream /\ down \in Seq(Orders) /\ sent \in Nat /\ device \in Devices /\ Null \in Packets /\ Null.kind = "null"
  BY StreamTyped, Nothing DEF SerialInv, TInv, Typed, Null, Packet
<1>1. UNCHANGED <<call, reader, heard, lost, opens>>
  BY DEF Device, device_answers, device_connects, device_judges, device_sends, Take, history
<1>2. Kept'
  BY <1>1 DEF SerialInv, Kept
<1>3. Stream'
  <2>1. CASE device_answers \/ device_judges
    <3>1. sent' = sent
      BY <2>1 DEF device_answers, device_judges
    <3>2. PICK packets : Little(packets, {}) /\ up' = up \o packets
      BY <1>0, <2>1, AnswersLittle, JudgesLittle
    <3>. QED BY <1>0, <1>1, <3>1, <3>2, StreamGrows DEF InHand
  <2>2. CASE device_connects \/ device_sends
    <3>1. CASE Numbering
      <4>1. PICK d \in Packets : d.kind = "data" /\ d.n = sent + 1 /\ (up' = up \o <<d>> \/ up' = up \o <<Null, d>>)
        BY <3>1 DEF Numbering
      <4>2. sent' = sent + 1
        BY <3>1 DEF Numbering
      <4>. QED BY <1>0, <1>1, <4>1, <4>2, StreamGrows DEF InHand
    <3>2. CASE sent' = sent /\ up' = up \o <<Null>>
      <4>1. Little(<<Null>>, {})
        BY <1>0 DEF Little
      <4>. QED BY <1>0, <1>1, <3>2, <4>1, StreamGrows DEF InHand
    <3>. QED BY <1>0, <2>2, <3>1, <3>2, NumberingData
  <2>. QED BY <2>1, <2>2 DEF Device
<1>4. Offline => Offline'
  <2> SUFFICES ASSUME Offline PROVE Offline'
    OBVIOUS
  <2>1. CASE device_answers \/ device_judges
    <3>1. Take /\ sent' = sent /\ device'.online = FALSE
      <4>1. ~device.online
        BY DEF Offline
      <4>2. CASE device_answers
        <5>1. device' = device \/ device' = [device EXCEPT !.online = FALSE]
          BY <4>2 DEF device_answers
        <5>. QED BY <1>0, <4>1, <4>2, <5>1 DEF device_answers, Devices
      <4>3. CASE device_judges
        <5>1. \/ device' = [device EXCEPT !.prompts = @ - 1, !.seed = @ + 1, !.tries = MaxTries]
              \/ device' = [device EXCEPT !.seed = @ + 1, !.tries = @ - 1]
          BY <4>3 DEF device_judges
        <5>2. device'.online = device.online
          BY <1>0, <5>1 DEF Devices
        <5>. QED BY <1>0, <4>1, <4>3, <5>2 DEF device_judges, Devices
      <4>. QED BY <2>1, <4>2, <4>3
    <3>2. down # << >> /\ down' = Tail(down)
      BY <3>1 DEF Take
    <3>3. \A i \in 1..Len(down') : down'[i].kind # "at"
      <4> TAKE i \in 1..Len(down')
      <4>1. Len(down') = Len(down) - 1 /\ Len(down) \in Nat /\ \A k \in 1..Len(down) - 1 : down'[k] = down[k + 1]
        BY <1>0, <3>2, Taking
      <4>2. i \in 1..Len(down) - 1 /\ i + 1 \in 1..Len(down)
        BY <4>1
      <4>. QED BY <4>1, <4>2 DEF Offline
    <3>. QED BY <3>1, <3>3 DEF Offline
  <2>2. ~device_connects
    <3>1. device_connects => down # << >> /\ Head(down).kind = "at"
      BY DEF device_connects, Take
    <3>2. down # << >> => Head(down) = down[1] /\ 1 \in 1..Len(down)
      BY <1>0, Taking
    <3>. QED BY <3>1, <3>2 DEF Offline
  <2>3. ~device_sends
    BY DEF device_sends, Offline
  <2>. QED BY <2>1, <2>2, <2>3 DEF Device
<1>5. (AtSent' <=> AtSent) /\ (Fresh => Fresh')
  BY <1>1 DEF AtSent, Fresh
<1>6. Started'
  BY <1>1, <1>4, <1>5 DEF SerialInv, Started
<1>. QED BY <1>2, <1>3, <1>6

LEMMA SerialStep == SerialInv /\ [Next]_vars => SerialInv'
<1> SUFFICES ASSUME SerialInv, [Next]_vars PROVE SerialInv'
  OBVIOUS
<1>1. TInv'
  BY TypeStep DEF SerialInv
<1>2. Caller => Stream' /\ Kept' /\ Started'
  BY SerialCommands, SerialReads, SerialCalls, SerialEnds DEF Caller, Destroy
<1>3. ASSUME UNCHANGED vars PROVE Stream' /\ Kept' /\ Started'
  <2>1. UNCHANGED <<heard, up, lost, sent, reader, call, opens, device, down>>
    BY <1>3 DEF vars, usbVars, dataVars, history
  <2>2. Stream'
    BY <2>1, StreamSame DEF SerialInv, InHand
  <2>. QED BY <2>1, <2>2 DEF SerialInv, Kept, Started, Offline, Fresh, AtSent
<1>4. Stream' /\ Kept' /\ Started'
  BY <1>2, <1>3, SerialReader, SerialDevice DEF Next, finished
<1>. QED BY <1>1, <1>4 DEF SerialInv

\* Whatever times out or fails, what the handheld sends is heard once and in order,
\* but for what Open and Close read themselves and drop: in a first Open no more than
\* the answer to AT, and nothing from there to Close. A Close or destructor that comes
\* to its end without an exception leaves nobody to call the callback (m_ipmodem.cc).
THEOREM SerialDataAlways == Spec => []SerialData
<1>1. SerialInv => SerialData
  BY SerialParts DEF SerialInv
<1>. QED BY <1>1, SerialInit, SerialStep, PTL DEF Spec

-----------------------------------------------------------------------------
(***************************************************************************)
(* The tries. As long as no answer is late, Open and a device that still   *)
(* asks for its password are in lockstep: what is on the wires is the last *)
(* command or its answer, behind keys and null packets at most.            *)
(***************************************************************************)
AllOf(kind, q) == \A i \in 1..Len(q) : q[i].kind = kind
NoneOf(kind, q) == \A i \in 1..Len(q) : q[i].kind # kind
Ends(q, kinds, rest) ==
  q # << >> /\ q[Len(q)].kind \in kinds /\ \A i \in 1..Len(q) - 1 : q[i].kind = rest

LEMMA AllTail ==
  ASSUME NEW D, NEW q \in Seq(D), q # << >>, NEW kind
  PROVE  /\ AllOf(kind, q) => Head(q).kind = kind /\ AllOf(kind, Tail(q))
         /\ NoneOf(kind, q) => Head(q).kind # kind /\ NoneOf(kind, Tail(q))
<1>1. /\ Head(q) = q[1] /\ Len(q) \in Nat \ {0} /\ Len(Tail(q)) = Len(q) - 1
      /\ \A i \in 1..Len(q) - 1 : Tail(q)[i] = q[i + 1]
  BY Taking
<1>2. 1 \in 1..Len(q) /\ \A i \in 1..Len(Tail(q)) : i + 1 \in 1..Len(q) /\ Tail(q)[i] = q[i + 1]
  BY <1>1
<1>. QED BY <1>1, <1>2 DEF AllOf, NoneOf

LEMMA EndsTail ==
  ASSUME NEW D, NEW q \in Seq(D), NEW kinds, NEW rest, Ends(q, kinds, rest)
  PROVE  \/ Tail(q) = << >> /\ Head(q).kind \in kinds /\ Head(q) = q[Len(q)]
         \/ Head(q).kind = rest /\ Ends(Tail(q), kinds, rest) /\ Tail(q)[Len(Tail(q))] = q[Len(q)]
<1>1. /\ q # << >> /\ Head(q) = q[1] /\ Len(q) \in Nat \ {0} /\ Len(Tail(q)) = Len(q) - 1 /\ Tail(q) \in Seq(D)
      /\ \A i \in 1..Len(q) - 1 : Tail(q)[i] = q[i + 1]
  BY Taking DEF Ends
<1>2. CASE Len(q) = 1
  <2>1. Tail(q) = << >>
    <3>1. Tail(q) \in Seq(D) /\ Len(Tail(q)) = 0
      BY <1>1, <1>2
    <3>. QED BY <3>1, EmptySeq
  <2>. QED BY <1>1, <1>2, <2>1 DEF Ends
<1>3. CASE Len(q) # 1
  <2>1. 1 \in 1..Len(q) - 1 /\ Len(Tail(q)) \in 1..Len(q) - 1 /\ Len(Tail(q)) + 1 = Len(q)
    BY <1>1, <1>3
  <2>2. Tail(q) # << >>
    <3>1. Len(Tail(q)) # 0 /\ Len(<< >>) = 0
      BY <1>1, <2>1
    <3>. QED BY <3>1
  <2>3. Tail(q)[Len(Tail(q))] = q[Len(q)]
    BY <1>1, <2>1
  <2>4. \A i \in 1..Len(Tail(q)) - 1 : i + 1 \in 1..Len(q) - 1 /\ Tail(q)[i] = q[i + 1]
    BY <1>1
  <2>. QED BY <1>1, <2>1, <2>2, <2>3, <2>4 DEF Ends
<1>. QED BY <1>2, <1>3

LEMMA AllAppend ==
  ASSUME NEW D, NEW q \in Seq(D), NEW e \in D, NEW kind
  PROVE  /\ AllOf(kind, q) /\ e.kind = kind => AllOf(kind, Append(q, e))
         /\ NoneOf(kind, q) /\ e.kind # kind => NoneOf(kind, Append(q, e))
<1>1. /\ Len(Append(q, e)) = Len(q) + 1 /\ Len(q) \in Nat
      /\ \A i \in 1..Len(q) : Append(q, e)[i] = q[i]
      /\ Append(q, e)[Len(q) + 1] = e
  BY Adding
<1>2. \A i \in 1..Len(Append(q, e)) : (i \in 1..Len(q) /\ Append(q, e)[i] = q[i]) \/ Append(q, e)[i] = e
  BY <1>1
<1>. QED BY <1>2 DEF AllOf, NoneOf

LEMMA EndsAppend ==
  ASSUME NEW D, NEW q \in Seq(D), NEW e \in D, NEW kinds, NEW rest, AllOf(rest, q), e.kind \in kinds
  PROVE  Ends(Append(q, e), kinds, rest) /\ Append(q, e)[Len(Append(q, e))] = e
<1>1. /\ Len(Append(q, e)) = Len(q) + 1 /\ Len(q) \in Nat /\ Append(q, e) \in Seq(D)
      /\ \A i \in 1..Len(q) : Append(q, e)[i] = q[i]
      /\ Append(q, e)[Len(q) + 1] = e
  BY Adding
<1>2. Append(q, e) # << >>
  BY <1>1, EmptySeq
<1>3. \A i \in 1..Len(Append(q, e)) - 1 : i \in 1..Len(q)
  BY <1>1
<1>. QED BY <1>1, <1>2, <1>3 DEF Ends, AllOf

\* A command is taken, or a password sent.
OneHash(q) == \A i, j \in 1..Len(q) : q[i].kind = "hash" /\ q[j].kind = "hash" => i = j

LEMMA HashTail ==
  ASSUME NEW D, NEW q \in Seq(D), q # << >>, OneHash(q)
  PROVE  OneHash(Tail(q)) /\ (Head(q).kind = "hash" => NoneOf("hash", Tail(q)))
<1>1. /\ Head(q) = q[1] /\ Len(q) \in Nat \ {0} /\ Len(Tail(q)) = Len(q) - 1
      /\ \A i \in 1..Len(q) - 1 : Tail(q)[i] = q[i + 1]
  BY Taking
<1>2. 1 \in 1..Len(q) /\ \A i \in 1..Len(Tail(q)) : i \in Nat \ {0} /\ i + 1 \in 1..Len(q) /\ Tail(q)[i] = q[i + 1]
  BY <1>1
<1>3. OneHash(Tail(q))
  <2> SUFFICES ASSUME NEW i \in 1..Len(Tail(q)), NEW j \in 1..Len(Tail(q)),
                      Tail(q)[i].kind = "hash", Tail(q)[j].kind = "hash"
               PROVE  i = j
    BY DEF OneHash
  <2>1. i + 1 = j + 1
    BY <1>2 DEF OneHash
  <2>. QED BY <1>2, <2>1
<1>4. ASSUME Head(q).kind = "hash", NEW i \in 1..Len(Tail(q)), Tail(q)[i].kind = "hash" PROVE FALSE
  <2>1. i + 1 = 1
    BY <1>1, <1>2, <1>4 DEF OneHash
  <2>. QED BY <1>2, <2>1
<1>. QED BY <1>3, <1>4 DEF NoneOf

LEMMA HashAppend ==
  ASSUME NEW D, NEW q \in Seq(D), NEW e \in D, OneHash(q), e.kind = "hash" => NoneOf("hash", q)
  PROVE  OneHash(Append(q, e))
<1>1. /\ Len(Append(q, e)) = Len(q) + 1 /\ Len(q) \in Nat
      /\ \A i \in 1..Len(q) : Append(q, e)[i] = q[i]
      /\ Append(q, e)[Len(q) + 1] = e
  BY Adding
<1>2. \A i \in 1..Len(Append(q, e)) : (i \in 1..Len(q) /\ Append(q, e)[i] = q[i])
                                        \/ (i = Len(q) + 1 /\ Append(q, e)[i] = e)
  BY <1>1
<1>. QED BY <1>2 DEF OneHash, NoneOf

-----------------------------------------------------------------------------
Spared == device.tries >= before /\ (~sloppy => device.tries >= MinTries)

Silent == down = << >> /\ up = << >>
Keyed == AllOf("key", down) /\ AllOf("null", up)
Asked(kind) == Ends(down, {kind}, "key") /\ AllOf("null", up)
Told(kinds) == down = << >> /\ Ends(up, kinds, "null")
Judged == Told({"verdict"}) /\ (up[Len(up)].seed # OtherSeed => device.tries = MaxTries)
Exchange(kind) ==
  \/ Silent
  \/ Len(down) = 1 /\ down[1].kind = kind /\ up = << >>
  \/ down = << >> /\ Len(up) = 1

Lockstep ==
  /\ call.pc \in {"stop", "start", "restart", "key"} => Silent
  /\ call.pc = "stop_wait" => Exchange("stop")
  /\ call.pc \in {"start_wait", "restart_wait"} => Exchange("start")
  /\ call.pc = "hash" => IF call.back = "at" THEN Keyed ELSE Silent
  /\ call.pc = "at" => Keyed
  /\ call.pc \in {"hash_wait", "null_wait"} => Asked("hash") \/ Judged
  /\ call.pc = "at_wait" => Asked("at") \/ Told({"request", "protected"})
  /\ call.pc \in {"at_null_wait", "spawn"} => NoneOf("hash", down)

\* A device that does not ask, or no longer asks, has all its tries and is sent no password.
Content ==
  /\ NoneOf("hash", down) /\ call.pc # "hash" /\ device.tries >= before
  /\ NoneOf("request", up)
  /\ call.pc = "key" => call.answer.kind # "request"

Looking == Opening \ {"hash_wait", "null_wait", "at_null_wait", "spawn"}

\* A request tells the tries that are left.
Asks == {"start_wait", "restart_wait", "at_wait"}
Frank == \A i \in 1..Len(up) : up[i].kind = "request" => up[i].n = device.tries
Warned == call.answer.kind = "request" => call.answer.n = device.tries

\* A password is on its way only while its Open waits for the verdict, and leaves with
\* the tries that were left when Open began, and enough of them if it was heedful.
Counted ==
  /\ device.tries >= before - 1 /\ (~sloppy => device.tries >= MinTries - 1)
  /\ OneHash(down)
  /\ NoneOf("hash", down) \/ (Spared /\ call.pc \notin Opening \ {"hash_wait", "null_wait"})
  /\ call.pc = "hash" => Spared
  /\ call.pc \in Looking => device.tries >= before
  /\ call.pc \in Asks => Frank
  /\ call.pc = "key" => Warned

Guarded ==
  /\ Counted
  /\ call.pc \in Opening /\ device.prompts > 0 => Lockstep
  /\ call.pc \in Opening /\ device.prompts = 0 => Content

TriesInv == TInv /\ (~late => Guarded)

-----------------------------------------------------------------------------
\* The device takes a command.
LEMMA TakenDown ==
  ASSUME TInv, Take, OneHash(down)
  PROVE  /\ OneHash(down')
         /\ NoneOf("hash", down) => NoneOf("hash", down') /\ Head(down).kind # "hash"
         /\ Head(down).kind = "hash" => NoneOf("hash", down')
         /\ AllOf("key", down) => AllOf("key", down') /\ Head(down).kind = "key"
         /\ down \in Seq(Orders) /\ down # << >> /\ down' = Tail(down) /\ device.tries > 0
BY HashTail, AllTail DEF TInv, Typed, Take

\* The answers, one by one.
Fits(kind, p) ==
  /\ kind # "end"
  /\ kind = "stop" => p.kind = "ack"
  /\ kind = "start" => p.kind \in {"request", "null", "ack"}
  /\ kind = "key" => p.kind = "null"
  /\ kind = "at" => p.kind \in {"request", "protected"}
  /\ p.kind = "request" => device.prompts > 0 /\ p.n = device.tries

LEMMA AnswersFit ==
  ASSUME TInv, device_answers
  PROVE  /\ Head(down).kind # "hash" /\ device'.tries = device.tries /\ device'.prompts = device.prompts
         /\ \/ up' = up /\ Head(down).kind \in {"stop", "key", "end"}
            \/ \E p \in Packets : up' = Append(up, p) /\ Fits(Head(down).kind, p)
<1>0. up \in Seq(Packets) /\ device \in Devices
  BY DEF TInv, Typed
<1>1. \A p \in Packets : up \o <<p>> = Append(up, p) /\ up \o << >> = up
  BY <1>0, OneByOne
<1>2. /\ Request \in Packets /\ Request.kind = "request" /\ Request.n = device.tries
      /\ Null \in Packets /\ Null.kind = "null" /\ Ack \in Packets /\ Ack.kind = "ack"
      /\ Packet("protected", 0, 0) \in Packets /\ Packet("protected", 0, 0).kind = "protected"
  BY <1>0, Nothing DEF Devices, Packets, Request, Packet, Null, Ack
<1>3. \/ up' = up /\ Head(down).kind \in {"stop", "key", "end"}
      \/ \E p \in Packets : up' = Append(up, p) /\ Fits(Head(down).kind, p)
  <2> DEFINE kind == Head(down).kind
  <2>1. CASE kind = "stop" /\ \E p \in {<< >>, <<Ack>>} : Answer(p)
    BY <1>1, <1>2, <2>1 DEF Answer, Fits
  <2>2. CASE kind = "start" /\ \E p \in IF device.prompts > 0 THEN {<<Request>>, <<Null>>} ELSE {<<Ack>>} : Answer(p)
    <3>1. CASE device.prompts > 0
      BY <1>1, <1>2, <2>2, <3>1 DEF Answer, Fits
    <3>2. CASE ~(device.prompts > 0)
      BY <1>1, <1>2, <2>2, <3>2 DEF Answer, Fits
    <3>. QED BY <3>1, <3>2
  <2>3. CASE kind = "key" /\ \E p \in {<< >>, <<Null>>} : Answer(p)
    BY <1>1, <1>2, <2>3 DEF Answer, Fits
  <2>4. CASE kind = "at" /\ device.prompts > 0 /\ \E p \in {<<Request>>, <<Packet("protected", 0, 0)>>} : Answer(p)
    BY <1>1, <1>2, <2>4 DEF Answer, Fits
  <2>5. CASE kind = "end" /\ Answer(<< >>)
    BY <1>1, <1>2, <2>5 DEF Answer
  <2>. QED BY <2>1, <2>2, <2>3, <2>4, <2>5 DEF device_answers
<1>4. Head(down).kind # "hash"
  BY DEF device_answers
<1>5. device'.tries = device.tries /\ device'.prompts = device.prompts
  <2>1. device' = device \/ device' = [device EXCEPT !.online = FALSE]
    BY DEF device_answers
  <2>. QED BY <1>0, <2>1 DEF Devices
<1>. QED BY <1>3, <1>4, <1>5

LEMMA TriesAnswers == TInv /\ Guarded /\ device_answers => Guarded'
<1> SUFFICES ASSUME TInv, Guarded, device_answers PROVE Guarded'
  OBVIOUS
<1>0. Take /\ UNCHANGED <<call, before, sloppy>> /\ Counted /\ OneHash(down) /\ up \in Seq(Packets)
  BY DEF device_answers, Take, history, Guarded, Counted, TInv, Typed
<1>1. UNCHANGED <<device.tries, device.prompts>> /\ Head(down).kind # "hash" /\ Head(down) \in Orders
      /\ down \in Seq(Orders) /\ down # << >> /\ down' = Tail(down)
  BY <1>0, AnswersFit, TakenDown, Taking
<1>2. CASE up' = up /\ Head(down).kind \in {"stop", "key", "end"}
  <2>1. Counted'
    BY <1>0, <1>1, <1>2, TakenDown DEF Counted, Spared, Frank, Warned
  <2>2. ASSUME call.pc \in Opening, device.prompts > 0 PROVE Lockstep'
    <3>1. Lockstep
      BY <2>2 DEF Guarded
    <3>2. ~Silent /\ ~Told({"verdict"}) /\ ~Told({"request", "protected"})
      BY <1>1 DEF Silent, Told
    <3>3. ASSUME NEW kind \in {"hash", "at"}, Asked(kind) PROVE Asked(kind)'
      <4>1. AllOf("null", up') /\ Head(down).kind # kind
        BY <1>2, <3>3 DEF Asked
      <4>2. Ends(down', {kind}, "key")
        BY <1>1, <3>3, <4>1, EndsTail DEF Asked
      <4>. QED BY <4>1, <4>2 DEF Asked
    <3>4. Keyed => Keyed'
      BY <1>0, <1>1, <1>2, TakenDown DEF Keyed
    <3>5. ASSUME NEW kind \in {"stop", "start"}, Exchange(kind) PROVE Exchange(kind)'
      <4>1. Len(down) = 1 /\ up = << >>
        BY <1>1, <3>2, <3>5 DEF Exchange
      <4>2. Len(Tail(down)) = 0 /\ Tail(down) \in Seq(Orders)
        BY <1>1, <4>1, Taking
      <4>3. down' = << >> /\ up' = << >>
        BY <1>1, <1>2, <4>1, <4>2, EmptySeq
      <4>. QED BY <4>3 DEF Exchange, Silent
    <3>6. NoneOf("hash", down) => NoneOf("hash", down')
      BY <1>0, TakenDown
    <3>. QED BY <1>0, <3>1, <3>2, <3>3, <3>4, <3>5, <3>6 DEF Lockstep, Judged
  <2>3. ASSUME call.pc \in Opening, device.prompts = 0 PROVE Content'
    <3>1. Content
      BY <2>3 DEF Guarded
    <3>. QED BY <1>0, <1>1, <1>2, <3>1, TakenDown DEF Content
  <2>. QED BY <1>0, <1>1, <2>1, <2>2, <2>3 DEF Guarded
<1>3. ASSUME NEW p \in Packets, up' = Append(up, p), Fits(Head(down).kind, p) PROVE Guarded'
  <2>0. /\ Len(up') = Len(up) + 1 /\ Len(up) \in Nat /\ up' \in Seq(Packets)
        /\ \A i \in 1..Len(up) : up'[i] = up[i]
        /\ up'[Len(up) + 1] = p
    BY <1>0, <1>3, Adding
  <2>1. Counted'
    <3>1. ASSUME call.pc \in Asks PROVE \A i \in 1..Len(up') : up'[i].kind = "request" => up'[i].n = device.tries
      <4> TAKE i \in 1..Len(up')
      <4>1. i \in 1..Len(up) \/ up'[i] = p
        BY <2>0
      <4>. QED BY <1>0, <1>3, <2>0, <3>1, <4>1 DEF Counted, Fits, Frank
    <3>. QED BY <1>0, <1>1, <3>1, TakenDown DEF Counted, Spared, Frank, Warned
  <2>2. ASSUME call.pc \in Opening, device.prompts > 0 PROVE Lockstep'
    <3>1. Lockstep
      BY <2>2 DEF Guarded
    <3>2. ~Silent /\ ~Told({"verdict"}) /\ ~Told({"request", "protected"})
      BY <1>1 DEF Silent, Told
    <3>3. ASSUME NEW kind \in {"hash", "at"}, Asked(kind), Head(down).kind = "key" PROVE Asked(kind)'
      <4>1. Ends(down', {kind}, "key")
        BY <1>1, <3>3, EndsTail DEF Asked
      <4>2. AllOf("null", up')
        BY <1>0, <1>3, <3>3, AllAppend DEF Asked, Fits
      <4>. QED BY <4>1, <4>2 DEF Asked
    <3>4. ASSUME Asked("at"), Head(down).kind # "key" PROVE Told({"request", "protected"})'
      <4>1. Tail(down) = << >> /\ Head(down).kind \in {"at"}
        BY <1>1, <3>4, EndsTail DEF Asked
      <4>2. p.kind \in {"request", "protected"}
        BY <1>3, <4>1 DEF Fits
      <4>3. Ends(up', {"request", "protected"}, "null")
        BY <1>0, <1>3, <3>4, <4>2, EndsAppend DEF Asked
      <4>. QED BY <1>1, <4>1, <4>3 DEF Told
    <3>5. Asked("hash") => Head(down).kind = "key"
      BY <1>1, EndsTail DEF Asked
    <3>6. Keyed => Keyed'
      BY <1>0, <1>1, <1>3, TakenDown, AllAppend DEF Keyed, Fits
    <3>7. ASSUME NEW kind \in {"stop", "start"}, Exchange(kind) PROVE Exchange(kind)'
      <4>1. Len(down) = 1 /\ up = << >>
        BY <1>1, <3>2, <3>7 DEF Exchange
      <4>2. Len(Tail(down)) = 0 /\ Tail(down) \in Seq(Orders)
        BY <1>1, <4>1, Taking
      <4>3. down' = << >> /\ Len(up') = 1
        BY <1>1, <2>0, <4>1, <4>2, EmptySeq
      <4>. QED BY <4>3 DEF Exchange
    <3>8. NoneOf("hash", down) => NoneOf("hash", down')
      BY <1>0, TakenDown
    <3>. QED BY <1>0, <3>1, <3>2, <3>3, <3>4, <3>5, <3>6, <3>7, <3>8 DEF Lockstep, Judged
  <2>3. ASSUME call.pc \in Opening, device.prompts = 0 PROVE Content'
    <3>1. Content /\ p.kind # "request"
      BY <1>3, <2>3 DEF Guarded, Fits
    <3>2. NoneOf("request", up')
      BY <1>0, <1>3, <3>1, AllAppend DEF Content
    <3>. QED BY <1>0, <1>1, <3>1, <3>2, TakenDown DEF Content
  <2>. QED BY <1>0, <1>1, <2>1, <2>2, <2>3 DEF Guarded
<1>. QED BY <1>2, <1>3, AnswersFit

\* The verdict: a right hash gives all tries back, a wrong one has a seed that fits none.
LEMMA JudgesExactly ==
  ASSUME TInv, device_judges
  PROVE  \E v \in Packets :
           /\ v.kind = "verdict"
           /\ up' = Append(up, v) \/ up' = Append(Append(up, Null), v)
           /\ \/ device'.tries = MaxTries /\ device.prompts > 0 /\ device'.prompts = device.prompts - 1
              \/ device'.tries = device.tries - 1 /\ device'.prompts = device.prompts /\ v.seed = OtherSeed
<1> DEFINE c == Head(down)
           fits == c.right /\ c.seed = device.seed /\ device.prompts > 0
           news == IF fits THEN {c.seed + 1, 0} ELSE {OtherSeed}
<1>0. device \in Devices /\ device.tries > 0 /\ c \in Orders /\ up \in Seq(Packets)
  BY TakeTyped DEF TInv, Typed, device_judges, Take
<1>1. PICK p \in {<< >>, <<Null>>}, new \in news :
        Answer(Append(p, Packet("verdict", new, device.tries - 1)))
  BY DEF device_judges
<1>2. PICK v : v = Packet("verdict", new, device.tries - 1)
  OBVIOUS
<1>3. new \in Int /\ device.tries - 1 \in Nat
  <2>1. c.seed \in Int /\ OtherSeed \in Int
    BY <1>0 DEF Orders, OtherSeed
  <2>. QED BY <1>0, <1>1, <2>1 DEF Devices
<1>4. v \in Packets /\ v.kind = "verdict" /\ v.seed = new /\ Null \in Packets
  BY <1>2, <1>3, Nothing DEF Packets, Packet
<1>5. Append(p, v) = <<v>> \/ Append(p, v) = <<Null, v>>
  BY <1>1, <1>4, Pairs
<1>6. up' = Append(up, v) \/ up' = Append(Append(up, Null), v)
  BY <1>0, <1>1, <1>2, <1>4, <1>5, OneByOne DEF Answer
<1>7. CASE fits
  <2>1. device' = [device EXCEPT !.prompts = @ - 1, !.seed = @ + 1, !.tries = MaxTries] /\ device.prompts > 0
    BY <1>7 DEF device_judges
  <2>2. device'.tries = MaxTries /\ device'.prompts = device.prompts - 1
    BY <1>0, <2>1 DEF Devices
  <2>. QED BY <1>4, <1>6, <2>1, <2>2
<1>8. CASE ~fits
  <2>1. device' = [device EXCEPT !.seed = @ + 1, !.tries = @ - 1]
    BY <1>8 DEF device_judges
  <2>2. device'.tries = device.tries - 1 /\ device'.prompts = device.prompts
    BY <1>0, <2>1 DEF Devices
  <2>3. v.seed = OtherSeed
    BY <1>1, <1>4, <1>8
  <2>. QED BY <1>4, <1>6, <2>2, <2>3
<1>. QED BY <1>7, <1>8

LEMMA TriesJudges == TInv /\ Guarded /\ device_judges => Guarded'
<1> SUFFICES ASSUME TInv, Guarded, device_judges PROVE Guarded'
  OBVIOUS
<1>0. Take /\ UNCHANGED <<call, before, sloppy>> /\ Counted /\ OneHash(down) /\ Head(down).kind = "hash" /\ up \in Seq(Packets)
  BY DEF device_judges, Take, history, Guarded, Counted, TInv, Typed
<1>1. PICK v \in Packets :
           /\ v.kind = "verdict"
           /\ up' = Append(up, v) \/ up' = Append(Append(up, Null), v)
           /\ \/ device'.tries = MaxTries /\ device.prompts > 0 /\ device'.prompts = device.prompts - 1
              \/ device'.tries = device.tries - 1 /\ device'.prompts = device.prompts /\ v.seed = OtherSeed
  BY JudgesExactly
<1>2. /\ OneHash(down') /\ NoneOf("hash", down') /\ ~NoneOf("hash", down)
      /\ down \in Seq(Orders) /\ down # << >> /\ down' = Tail(down)
  BY <1>0, TakenDown
<1>3. Spared /\ call.pc \notin Opening \ {"hash_wait", "null_wait"}
  BY <1>0, <1>2 DEF Counted
<1>4. device.tries \in Nat /\ before \in 0..MaxTries /\ MinTries \in Nat /\ MaxTries \in Nat /\ MinTries <= MaxTries
      /\ device.prompts \in 0..3 /\ sloppy \in BOOLEAN
  BY IpModemAssumption DEF TInv, Typed, Devices
<1>5. device'.tries >= before - 1 /\ (sloppy \/ device'.tries >= MinTries - 1)
  BY <1>1, <1>3, <1>4 DEF Spared
<1>6. Counted'
  <2>1. call.pc # "hash" /\ call.pc \notin Looking /\ call.pc \notin Asks /\ call.pc # "key"
    BY <1>3 DEF Looking, Opening, Asks
  <2>. QED BY <1>0, <1>2, <1>5, <2>1 DEF Counted
<1>7. ASSUME call.pc \in Opening, device.prompts > 0
      PROVE  Judged' /\ NoneOf("request", up')
  <2>1. call.pc \in {"hash_wait", "null_wait"} /\ (Asked("hash") \/ Judged)
    BY <1>3, <1>7 DEF Guarded, Lockstep
  <2>2. Asked("hash")
    BY <1>2, <2>1 DEF Judged, Told
  <2>3. down' = << >> /\ AllOf("null", up)
    BY <1>0, <1>2, <2>2, EndsTail DEF Asked
  <2>4. Null \in Packets /\ Null.kind = "null"
    BY Nothing DEF Null, Packet
  <2>5. PICK u \in Seq(Packets) : AllOf("null", u) /\ up' = Append(u, v)
    BY <1>0, <1>1, <2>3, <2>4, AllAppend, Adding
  <2>6. Ends(up', {"verdict"}, "null") /\ up'[Len(up')] = v
    BY <1>1, <2>5, EndsAppend
  <2>7. NoneOf("request", up')
    <3>1. NoneOf("request", u)
      BY <2>5 DEF AllOf, NoneOf
    <3>. QED BY <1>1, <2>5, <3>1, AllAppend
  <2>8. v.seed # OtherSeed => device'.tries = MaxTries
    BY <1>1
  <2>. QED BY <2>3, <2>6, <2>7, <2>8 DEF Judged, Told
<1>8. ASSUME call.pc \in Opening PROVE device.prompts > 0
  <2>1. ~Content
    BY <1>2 DEF Content
  <2>. QED BY <1>4, <1>8, <2>1 DEF Guarded
<1>9. ASSUME call.pc \in Opening, device'.prompts > 0 PROVE Lockstep'
  <2>1. call.pc \in {"hash_wait", "null_wait"} /\ Judged'
    BY <1>3, <1>7, <1>8, <1>9
  <2>. QED BY <1>0, <2>1 DEF Lockstep
<1>10. ASSUME call.pc \in Opening, device'.prompts = 0 PROVE Content'
  <2>1. device'.tries = MaxTries
    BY <1>1, <1>4, <1>8, <1>10
  <2>2. call.pc \in {"hash_wait", "null_wait"} /\ NoneOf("request", up')
    BY <1>3, <1>7, <1>8, <1>10
  <2>3. device'.tries >= before
    BY <1>4, <2>1
  <2>. QED BY <1>0, <1>2, <2>2, <2>3 DEF Content
<1>. QED BY <1>0, <1>6, <1>9, <1>10 DEF Guarded

\* The device sends data, or says that it will: it no longer asks for a password.
LEMMA TriesData == TInv /\ Guarded /\ (device_connects \/ device_sends) => Guarded'
<1> SUFFICES ASSUME TInv, Guarded, device_connects \/ device_sends PROVE Guarded'
  OBVIOUS
<1>0. UNCHANGED <<call, before, sloppy>> /\ Counted /\ OneHash(down) /\ up \in Seq(Packets) /\ device \in Devices
  BY DEF device_connects, device_sends, Take, history, Guarded, Counted, TInv, Typed
<1>1. device.prompts = 0 /\ device'.prompts = 0 /\ device'.tries = device.tries
  <2>1. CASE device_connects
    <3>1. device' = [device EXCEPT !.online = TRUE] /\ device.prompts = 0
      BY <2>1 DEF device_connects
    <3>. QED BY <1>0, <3>1 DEF Devices
  <2>2. CASE device_sends
    <3>1. device' = device /\ device.online
      BY <2>2 DEF device_sends
    <3>. QED BY <3>1 DEF TInv, Control
  <2>. QED BY <2>1, <2>2
<1>2. OneHash(down') /\ (NoneOf("hash", down) => NoneOf("hash", down'))
  <2>1. CASE device_connects
    BY <1>0, <2>1, TakenDown DEF device_connects
  <2>2. CASE device_sends
    <3>1. down' = down
      BY <2>2 DEF device_sends
    <3>. QED BY <1>0, <3>1
  <2>. QED BY <2>1, <2>2
<1>3. /\ Null \in Packets /\ Null.kind = "null"
      /\ NoneOf("request", up) => NoneOf("request", up')
  <2>1. Null \in Packets /\ Null.kind = "null"
    BY Nothing DEF Null, Packet
  <2>2. \E d \in Packets : d.kind # "request" /\ (up' = up \o <<d>> \/ up' = up \o <<Null, d>>)
    BY <2>1, NumberingData DEF Numbering
  <2>3. PICK d \in Packets : d.kind # "request" /\ (up' = Append(up, d) \/ up' = Append(Append(up, Null), d))
    BY <1>0, <2>1, <2>2, OneByOne
  <2>4. PICK u : u = Append(up, Null)
    OBVIOUS
  <2>5. u \in Seq(Packets) /\ (NoneOf("request", up) => NoneOf("request", u))
    BY <1>0, <2>1, <2>4, AllAppend, Adding
  <2>. QED BY <1>0, <2>1, <2>3, <2>4, <2>5, AllAppend
<1>4. ASSUME call.pc \in Opening PROVE Content /\ Content'
  <2>1. Content
    BY <1>1, <1>4 DEF Guarded
  <2>. QED BY <1>0, <1>1, <1>2, <1>3, <2>1 DEF Content
<1>5. Counted'
  <2>1. call.pc \in Asks => Frank'
    BY <1>4, <1>0 DEF Content, Opening, Asks, Frank, NoneOf
  <2>2. call.pc = "key" => Warned'
    BY <1>0, <1>1 DEF Counted, Warned
  <2>. QED BY <1>0, <1>1, <1>2, <2>1, <2>2 DEF Counted, Spared
<1>. QED BY <1>0, <1>1, <1>4, <1>5 DEF Guarded

LEMMA TriesDevice == TInv /\ Guarded /\ Device => Guarded'
BY TriesAnswers, TriesJudges, TriesData DEF Device

-----------------------------------------------------------------------------
\* What a write and a read of a call do to the lockstep.
LEMMA SendsInto ==
  ASSUME TInv, NEW o \in Orders, down' = Append(down, o), up' = up
  PROVE  /\ Silent => Exchange(o.kind)' /\ Keyed
         /\ Keyed => Asked(o.kind)' /\ (o.kind = "key" => Keyed')
         /\ o.kind # "hash" /\ NoneOf("hash", down) => NoneOf("hash", down')
         /\ OneHash(down) /\ (o.kind = "hash" => NoneOf("hash", down)) => OneHash(down')
<1>0. down \in Seq(Orders)
  BY DEF TInv, Typed
<1>1. Len(down') = Len(down) + 1 /\ down'[Len(down) + 1] = o
  BY <1>0, Adding
<1>2. ASSUME Silent PROVE Exchange(o.kind)' /\ Keyed
  <2>1. Len(down) = 0 /\ Len(up) = 0
    BY <1>2 DEF Silent
  <2>2. Len(down') = 1 /\ down'[1] = o /\ up' = << >>
    BY <1>1, <1>2, <2>1 DEF Silent
  <2>. QED BY <2>1, <2>2 DEF Exchange, Keyed, AllOf
<1>3. ASSUME Keyed PROVE Asked(o.kind)' /\ (o.kind = "key" => Keyed')
  <2>1. AllOf("key", down) /\ AllOf("null", up')
    BY <1>3 DEF Keyed
  <2>2. Ends(down', {o.kind}, "key")
    BY <1>0, <2>1, EndsAppend
  <2>3. o.kind = "key" => AllOf("key", down')
    BY <1>0, <2>1, AllAppend
  <2>. QED BY <2>1, <2>2, <2>3 DEF Asked, Keyed
<1>4. o.kind # "hash" /\ NoneOf("hash", down) => NoneOf("hash", down')
  BY <1>0, AllAppend
<1>5. OneHash(down) /\ (o.kind = "hash" => NoneOf("hash", down)) => OneHash(down')
  BY <1>0, HashAppend
<1>. QED BY <1>2, <1>3, <1>4, <1>5

LEMMA ReadsFrom ==
  ASSUME TInv, up # << >>, up' = Tail(up), down' = down
  PROVE  /\ ~Silent
         /\ NoneOf("request", up) => Head(up).kind # "request" /\ NoneOf("request", up')
         /\ \A kind : Exchange(kind) => Silent'
         /\ \A kind : Asked(kind) => Head(up).kind = "null" /\ Asked(kind)'
         /\ \A kinds : Told(kinds) =>
              \/ Head(up).kind \in kinds /\ Silent' /\ Head(up) = up[Len(up)]
              \/ Head(up).kind = "null" /\ Told(kinds)' /\ up'[Len(up')] = up[Len(up)]
<1>0. up \in Seq(Packets) /\ up' \in Seq(Packets) /\ Len(up') = Len(up) - 1 /\ Len(up) \in Nat
  BY Taking DEF TInv, Typed
<1>1. ~Silent
  BY DEF Silent
<1>2. NoneOf("request", up) => Head(up).kind # "request" /\ NoneOf("request", up')
  BY <1>0, AllTail
<1>3. ASSUME NEW kind, Exchange(kind) PROVE Silent'
  <2>1. down = << >> /\ Len(up) = 1
    BY <1>1, <1>3 DEF Exchange
  <2>2. up' = << >>
    <3>1. Len(up') = 0
      BY <1>0, <2>1
    <3>. QED BY <1>0, <3>1, EmptySeq
  <2>. QED BY <2>1, <2>2 DEF Silent
<1>4. ASSUME NEW kind, Asked(kind) PROVE Head(up).kind = "null" /\ Asked(kind)'
  BY <1>0, <1>4, AllTail DEF Asked
<1>5. ASSUME NEW kinds, Told(kinds)
      PROVE  \/ Head(up).kind \in kinds /\ Silent' /\ Head(up) = up[Len(up)]
             \/ Head(up).kind = "null" /\ Told(kinds)' /\ up'[Len(up')] = up[Len(up)]
  BY <1>0, <1>5, EndsTail DEF Told, Silent
<1>. QED BY <1>1, <1>2, <1>3, <1>4, <1>5

\* A step of a call that ends it, or is not one of Open.
LEMMA TriesElsewhere ==
  ASSUME TInv, Counted, UNCHANGED <<device, before>>, sloppy' = sloppy, call'.pc \notin Opening,
         OneHash(down'), NoneOf("hash", down) => NoneOf("hash", down')
  PROVE  Guarded'
<1>1. Counted'
  BY DEF Counted, Spared, Looking, Opening, Asks
<1>. QED BY <1>1 DEF Guarded

\* A step of Open that sends no hash: Counted, but for what is particular to it.
LEMMA CountedOn ==
  ASSUME TInv, Counted, UNCHANGED <<device, before>>, sloppy' = sloppy \/ sloppy' = TRUE,
         OneHash(down'), NoneOf("hash", down) => NoneOf("hash", down'),
         NoneOf("hash", down) \/ call'.pc \notin Opening \ {"hash_wait", "null_wait"},
         call'.pc = "hash" => Spared',
         call'.pc \in Looking => device.tries >= before,
         call'.pc \in Asks => NoneOf("request", up'),
         call'.pc = "key" => Warned'
  PROVE  Counted'
<1>1. sloppy' = FALSE => sloppy = FALSE
  OBVIOUS
<1>2. sloppy \in BOOLEAN /\ sloppy' \in BOOLEAN
  BY DEF TInv, Typed
<1>3. Spared => Spared'
  BY <1>1, <1>2 DEF Spared
<1>4. device'.tries >= before' - 1 /\ (~sloppy' => device'.tries >= MinTries - 1)
  BY <1>1, <1>2 DEF Counted
<1>. QED BY <1>3, <1>4 DEF Counted, NoneOf, Frank

LEMMA TriesCommand == TInv /\ Guarded /\ SendCommand => Guarded'
<1> SUFFICES ASSUME TInv, Guarded, SendCommand PROVE Guarded'
  OBVIOUS
<1>0. call \in Calls /\ Counted /\ OneHash(down) /\ device.prompts \in 0..3
  BY DEF TInv, Typed, Guarded, Counted, Devices
<1>1. PICK c \in Commands : call.pc = c[1] /\ Send(c[2]) /\ Goto(c[3]) /\ UNCHANGED history /\ Quiet
  BY DEF SendCommand
<1>2. PICK o : o = [kind |-> c[2], seed |-> call.seed, right |-> call.password = RightPassword]
  OBVIOUS
<1>3. o \in Orders /\ o.kind = c[2]
  <2>1. c[2] \in {"stop", "start", "hash", "key", "at", "end"}
    BY DEF Commands
  <2>. QED BY <1>0, <1>2, <2>1 DEF Calls, Orders
<1>4. down' = Append(down, o) /\ up' = up /\ UNCHANGED <<device, before, sloppy>>
  BY <1>1, <1>2 DEF Send, Quiet, history
<1>5. call'.pc = c[3] /\ call'.back = call.back /\ call'.answer = call.answer
  BY <1>0, <1>1 DEF Goto, Calls
<1>6. \/ c = <<"stop", "stop", "stop_wait">> \/ c = <<"start", "start", "start_wait">>
      \/ c = <<"hash", "hash", "hash_wait">> \/ c = <<"restart", "start", "restart_wait">>
      \/ c = <<"at", "at", "at_wait">> \/ c = <<"end", "end", "end_stop">> \/ c = <<"end_stop", "stop", "end_wait">>
  BY DEF Commands
<1>7. CASE c[1] \in {"end", "end_stop"}
  <2>1. c[3] \notin Opening /\ c[2] # "hash"
    BY <1>6, <1>7 DEF Opening
  <2>. QED BY <1>0, <1>3, <1>4, <1>5, <2>1, SendsInto, TriesElsewhere
<1>8. CASE c[1] = "hash"
  <2>1. c[2] = "hash" /\ c[3] = "hash_wait" /\ call.pc = "hash"
    BY <1>1, <1>6, <1>8
  <2>2. Spared /\ NoneOf("hash", down) /\ device.prompts > 0
    BY <1>0, <2>1 DEF Counted, Opening, Guarded, Content
  <2>3. Counted'
    <3>1. OneHash(down')
      BY <1>0, <1>3, <1>4, <2>2, SendsInto
    <3>. QED BY <1>0, <1>4, <1>5, <2>1, <2>2, <3>1 DEF Counted, Spared, Looking, Asks
  <2>4. Asked("hash")'
    <3>1. Keyed
      BY <1>3, <1>4, <2>1, <2>2, SendsInto DEF Guarded, Lockstep, Opening
    <3>. QED BY <1>3, <1>4, <2>1, <3>1, SendsInto
  <2>. QED BY <1>4, <1>5, <2>1, <2>2, <2>3, <2>4 DEF Guarded, Lockstep
<1>9. CASE c[1] \in {"stop", "start", "restart", "at"}
  <2>1. /\ c[2] # "hash" /\ call.pc \in Looking /\ call.pc \in Opening \ {"hash_wait", "null_wait"}
        /\ c[3] \in {"stop_wait", "start_wait", "restart_wait", "at_wait"}
    BY <1>1, <1>6, <1>9 DEF Looking, Opening
  <2>2. NoneOf("hash", down) /\ device.tries >= before /\ OneHash(down') /\ NoneOf("hash", down')
    <3>1. NoneOf("hash", down) /\ device.tries >= before
      BY <1>0, <2>1 DEF Counted
    <3>. QED BY <1>0, <1>3, <1>4, <2>1, <3>1, SendsInto
  <2>3. NoneOf("request", up') \/ c[3] \notin Asks
    <3>1. ASSUME c[3] \in Asks PROVE NoneOf("request", up)
      <4>1. call.pc \in {"start", "restart", "at"} /\ call.pc \in Opening
        BY <1>1, <1>6, <2>1, <3>1 DEF Asks
      <4>2. CASE device.prompts > 0
        <5>1. Silent \/ Keyed
          BY <4>1, <4>2 DEF Guarded, Lockstep
        <5>2. Silent => Len(up) = 0
          BY DEF Silent
        <5>. QED BY <5>1, <5>2 DEF NoneOf, AllOf, Keyed
      <4>3. CASE device.prompts = 0
        BY <4>1, <4>3 DEF Guarded, Content
      <4>. QED BY <1>0, <4>2, <4>3
    <3>. QED BY <1>4, <3>1
  <2>4. Counted'
    BY <1>0, <1>4, <1>5, <2>1, <2>2, <2>3, CountedOn
  <2>5. ASSUME device.prompts > 0 PROVE Lockstep'
    <3>1. Lockstep
      BY <2>1, <2>5 DEF Guarded
    <3>2. /\ c[3] = "stop_wait" => Silent /\ o.kind = "stop"
          /\ c[3] \in {"start_wait", "restart_wait"} => Silent /\ o.kind = "start"
          /\ c[3] = "at_wait" => Keyed /\ o.kind = "at"
      BY <1>1, <1>3, <1>6, <3>1, <2>1 DEF Lockstep
    <3>3. /\ c[3] = "stop_wait" => Exchange("stop")'
          /\ c[3] \in {"start_wait", "restart_wait"} => Exchange("start")'
          /\ c[3] = "at_wait" => Asked("at")'
      BY <1>3, <1>4, <3>2, SendsInto
    <3>. QED BY <1>5, <2>1, <3>3 DEF Lockstep
  <2>6. ASSUME device.prompts = 0 PROVE Content'
    <3>1. Content
      BY <2>1, <2>6 DEF Guarded
    <3>. QED BY <1>4, <1>5, <2>1, <2>2, <3>1 DEF Content
  <2>. QED BY <1>4, <2>4, <2>5, <2>6 DEF Guarded
<1>. QED BY <1>6, <1>7, <1>8, <1>9

\* The session key, and what Open then makes of the answer to its last start.
LEMMA TriesKey == TInv /\ Guarded /\ SendSessionKey => Guarded'
<1> SUFFICES ASSUME TInv, Guarded, SendSessionKey PROVE Guarded'
  OBVIOUS
<1>0. call \in Calls /\ Counted /\ OneHash(down) /\ device.prompts \in 0..3 /\ call.pc = "key" /\ call.pc \in Opening
  BY DEF TInv, Typed, Guarded, Counted, Devices, SendSessionKey, Opening
<1>1. PICK o \in Orders : down' = Append(down, o) /\ o.kind = "key"
  <2>1. PICK o : o = [kind |-> "key", seed |-> call.seed, right |-> call.password = RightPassword]
    OBVIOUS
  <2>2. o \in Orders /\ o.kind = "key"
    BY <1>0, <2>1 DEF Calls, Orders
  <2>. QED BY <2>1, <2>2 DEF SendSessionKey, Send
<1>2. up' = up /\ UNCHANGED <<device, before>>
  BY DEF SendSessionKey, Quiet
<1>3. NoneOf("hash", down) /\ NoneOf("hash", down') /\ OneHash(down') /\ device.tries >= before
  <2>1. NoneOf("hash", down) /\ device.tries >= before
    BY <1>0 DEF Counted, Opening, Looking
  <2>. QED BY <1>0, <1>1, <1>2, <2>1, SendsInto
<1>4. device.prompts > 0 => Keyed'
  <2>1. device.prompts > 0 => Silent
    BY <1>0 DEF Guarded, Lockstep
  <2>. QED BY <1>1, <1>2, <2>1, SendsInto
<1>5. device.prompts = 0 => Content
  BY <1>0 DEF Guarded
<1>8. /\ Careless(call.answer) => sloppy' = TRUE
      /\ ~Careless(call.answer) => sloppy' = sloppy
  <2>1. sloppy \in BOOLEAN /\ sloppy' = (sloppy \/ Careless(call.answer))
    BY DEF TInv, Typed, SendSessionKey
  <2>. QED BY <2>1
<1>6. CASE call.answer.kind = "request"
  <2>1. SendPassword(call.answer.seed, "at") /\ call.answer.seed \in Nat /\ call.answer.n \in Nat
    BY <1>0, <1>6 DEF SendSessionKey, Calls, Packets
  <2>2. device.prompts > 0
    BY <1>0, <1>5, <1>6 DEF Content
  <2>3. call'.pc = "idle" \/ (call'.pc = "hash" /\ call'.back = "at")
    BY <1>0, <2>1, SendingPassword
  <2>4. call'.pc = "hash" => Spared'
    <3>1. ASSUME call'.pc = "hash" PROVE call.password # NoPassword
      <4>1. Return("BadPassword") => call'.pc # "hash"
        BY <1>0, Returning
      <4>. QED BY <2>1, <3>1, <4>1 DEF SendPassword
    <3>2. call.answer.n = device.tries
      BY <1>0, <1>6 DEF Counted, Warned
    <3>3. call.answer.n < MinTries /\ call.password # NoPassword => sloppy' = TRUE
      BY <1>6, <1>8 DEF Careless
    <3>4. MinTries \in Nat /\ device.tries \in Nat
      BY IpModemAssumption DEF TInv, Typed, Devices
    <3>5. call'.pc = "hash" /\ ~sloppy' => device.tries >= MinTries
      <4>1. call'.pc = "hash" /\ ~sloppy' => ~(call.answer.n < MinTries)
        BY <3>1, <3>3
      <4>. QED BY <3>2, <3>4, <4>1
    <3>. QED BY <1>2, <1>3, <3>5 DEF Spared
  <2>6. sloppy' = sloppy \/ sloppy' = TRUE
    BY <1>8
  <2>7. call'.pc \notin Asks /\ call'.pc # "key"
    BY <2>3 DEF Asks
  <2>5. Counted'
    BY <1>0, <1>2, <1>3, <2>3, <2>4, <2>6, <2>7, CountedOn
  <2>. QED BY <1>2, <1>4, <2>2, <2>3, <2>5 DEF Guarded, Lockstep, Opening
<1>7. CASE call.answer.kind # "request"
  <2>1. sloppy' = sloppy /\ call'.pc = "at"
    BY <1>0, <1>7, <1>8 DEF SendSessionKey, Goto, Calls, Careless
  <2>2. Counted'
    BY <1>0, <1>2, <1>3, <2>1, CountedOn DEF Asks
  <2>3. device.prompts > 0 => Lockstep'
    BY <1>4, <2>1 DEF Lockstep
  <2>4. device.prompts = 0 => Content'
    BY <1>2, <1>3, <1>5, <2>1 DEF Content
  <2>. QED BY <1>2, <2>2, <2>3, <2>4 DEF Guarded
<1>. QED BY <1>6, <1>7

LEMMA TriesIgnored == TInv /\ Guarded /\ (ignored_response \/ restart_response) => Guarded'
<1> SUFFICES ASSUME TInv, Guarded, ignored_response \/ restart_response PROVE Guarded'
  OBVIOUS
<1>0. /\ call \in Calls /\ Counted /\ OneHash(down) /\ device.prompts \in 0..3
      /\ up # << >> /\ up' = Tail(up) /\ UNCHANGED <<down, device, before, sloppy>>
  BY DEF TInv, Typed, Guarded, Counted, Devices, ignored_response, restart_response, Receive
<1>1. \/ call.pc = "stop_wait" /\ call'.pc = "start"
      \/ call.pc = "restart_wait" /\ call'.pc = "key" /\ call'.answer = Head(up)
      \/ call.pc = "at_null_wait" /\ call'.pc = "spawn"
  BY <1>0 DEF ignored_response, restart_response, Goto, Calls
<1>2. call.pc \in Opening /\ (call.pc # "at_null_wait" => call.pc \in Looking)
  BY <1>1 DEF Opening, Looking
<1>3. NoneOf("hash", down)
  <2>1. CASE call.pc = "at_null_wait"
    BY <1>0, <2>1 DEF Counted, Opening
  <2>2. CASE call.pc # "at_null_wait"
    BY <1>0, <1>1, <2>2 DEF Counted, Opening
  <2>. QED BY <2>1, <2>2
<1>4. Counted'
  <2>1. call'.pc \in Looking => device.tries >= before
    BY <1>0, <1>1, <1>2 DEF Counted, Looking
  <2>2. Head(up) = up[1] /\ 1 \in 1..Len(up)
    BY <1>0, Taking DEF TInv, Typed
  <2>3. call'.pc = "key" => Warned'
    BY <1>0, <1>1, <2>2 DEF Counted, Asks, Frank, Warned
  <2>. QED BY <1>0, <1>1, <1>3, <2>1, <2>3, CountedOn DEF Asks
<1>5. ASSUME device.prompts > 0 PROVE Lockstep'
  <2>1. Lockstep
    BY <1>2, <1>5 DEF Guarded
  <2>2. call.pc # "at_null_wait" => Silent'
    BY <1>0, <1>1, <2>1, ReadsFrom DEF Lockstep
  <2>. QED BY <1>0, <1>1, <1>3, <2>2 DEF Lockstep
<1>6. ASSUME device.prompts = 0 PROVE Content'
  <2>1. Content
    BY <1>2, <1>6 DEF Guarded
  <2>2. Head(up).kind # "request" /\ NoneOf("request", up')
    BY <1>0, <2>1, ReadsFrom DEF Content
  <2>. QED BY <1>0, <1>1, <2>1, <2>2 DEF Content
<1>. QED BY <1>0, <1>4, <1>5, <1>6 DEF Guarded

\* The answer to start says how many tries are left, and they are.
LEMMA TriesStart == TInv /\ Guarded /\ start_response => Guarded'
<1> SUFFICES ASSUME TInv, Guarded, start_response PROVE Guarded'
  OBVIOUS
<1>0. /\ call \in Calls /\ Counted /\ OneHash(down) /\ device.prompts \in 0..3 /\ Head(up) \in Packets
      /\ up # << >> /\ up' = Tail(up) /\ UNCHANGED <<down, device, before, sloppy>>
      /\ call.pc = "start_wait" /\ call.pc \in Opening
  BY Taking DEF TInv, Typed, Guarded, Counted, Devices, start_response, Receive, Opening
<1>1. NoneOf("hash", down) /\ device.tries >= before
  BY <1>0 DEF Counted, Looking, Opening
<1>2. Head(up).kind = "request" => Head(up).n = device.tries
  <2>1. Head(up) = up[1] /\ 1 \in 1..Len(up)
    BY <1>0, Taking DEF TInv, Typed
  <2>. QED BY <1>0, <2>1 DEF Counted, Asks, Frank
<1>3. device.prompts > 0 => Silent'
  BY <1>0, ReadsFrom DEF Guarded, Lockstep
<1>4. device.prompts = 0 => Content /\ Head(up).kind # "request" /\ NoneOf("request", up')
  BY <1>0, ReadsFrom DEF Guarded, Content
<1>5. ASSUME Return("BadPassword") PROVE Guarded'
  <2>1. call'.pc = "idle"
    BY <1>0, <1>5, Returning
  <2>. QED BY <1>0, <2>1, TriesElsewhere DEF Opening
<1>6. ASSUME Head(up).kind = "request", Head(up).n >= MinTries, SendPassword(Head(up).seed, "restart") PROVE Guarded'
  <2>1. Head(up).seed \in Nat
    BY <1>0, <1>6 DEF Packets
  <2>2. CASE call'.pc = "idle"
    BY <1>0, <2>2, TriesElsewhere DEF Opening
  <2>3. CASE call'.pc = "hash" /\ call'.back = "restart"
    <3>1. Spared'
      BY <1>0, <1>1, <1>2, <1>6 DEF Spared
    <3>2. Counted'
      BY <1>0, <1>1, <2>3, <3>1, CountedOn DEF Asks
    <3>3. device.prompts > 0
      BY <1>0, <1>4, <1>6
    <3>. QED BY <1>0, <1>3, <2>3, <3>2, <3>3 DEF Guarded, Lockstep
  <2>. QED BY <1>0, <1>6, <2>1, <2>2, <2>3, SendingPassword
<1>7. ASSUME Head(up).kind # "request", call' = [call EXCEPT !.pc = "key", !.answer = Head(up)] PROVE Guarded'
  <2>1. call'.pc = "key" /\ call'.answer = Head(up)
    BY <1>0, <1>7 DEF Calls
  <2>2. Counted'
    BY <1>0, <1>1, <1>7, <2>1, CountedOn DEF Asks, Warned
  <2>3. device.prompts > 0 => Lockstep'
    BY <1>3, <2>1 DEF Lockstep
  <2>4. device.prompts = 0 => Content'
    BY <1>0, <1>1, <1>4, <1>7, <2>1 DEF Content
  <2>. QED BY <1>0, <2>2, <2>3, <2>4 DEF Guarded
<1>. QED BY <1>5, <1>6, <1>7 DEF start_response

\* The answer to a password: accepted only when it gave all tries back.
LEMMA TriesVerdict == TInv /\ Guarded /\ password_response => Guarded'
<1> SUFFICES ASSUME TInv, Guarded, password_response PROVE Guarded'
  OBVIOUS
<1>0. /\ call \in Calls /\ Counted /\ OneHash(down) /\ device.prompts \in 0..3 /\ Head(up) \in Packets
      /\ before \in 0..MaxTries /\ up # << >> /\ up' = Tail(up) /\ UNCHANGED <<down, device, before, sloppy>>
      /\ call.pc \in {"hash_wait", "null_wait"} /\ call.pc \in Opening
  BY Taking DEF TInv, Typed, Guarded, Counted, Devices, password_response, Receive, Opening
<1>1. ASSUME device.prompts > 0
      PROVE  \/ Asked("hash") /\ Head(up).kind = "null" /\ Asked("hash")'
             \/ Judged /\ Head(up).kind = "null" /\ Judged'
             \/ Judged /\ Silent' /\ Head(up).kind = "verdict" /\ NoneOf("hash", down)
                /\ (Head(up).seed # OtherSeed => device.tries >= before)
  <2>1. Asked("hash") \/ Judged
    BY <1>0, <1>1 DEF Guarded, Lockstep
  <2>2. CASE Asked("hash")
    BY <1>0, <2>2, ReadsFrom
  <2>3. CASE Judged
    <3>1. \/ Head(up).kind = "verdict" /\ Silent' /\ Head(up) = up[Len(up)]
          \/ Head(up).kind = "null" /\ Told({"verdict"})' /\ up'[Len(up')] = up[Len(up)]
      <4>1. Told({"verdict"})
        BY <2>3 DEF Judged
      <4>. QED BY <1>0, <4>1, ReadsFrom
    <3>2. NoneOf("hash", down)
      <4>1. Len(down) = 0
        BY <2>3 DEF Judged, Told
      <4>. QED BY <4>1 DEF NoneOf
    <3>3. MaxTries >= before
      BY <1>0, IpModemAssumption
    <3>4. up[Len(up)].seed # OtherSeed => device.tries = MaxTries
      BY <2>3 DEF Judged
    <3>. QED BY <1>0, <2>3, <3>1, <3>2, <3>3, <3>4 DEF Judged
  <2>. QED BY <2>1, <2>2, <2>3
<1>2. device.prompts = 0 => Content /\ NoneOf("request", up')
  BY <1>0, ReadsFrom DEF Guarded, Content
<1>3. CASE Head(up).kind = "null" /\ Goto("null_wait")
  <2>1. call'.pc = "null_wait"
    BY <1>0, <1>3 DEF Goto, Calls
  <2>2. Counted'
    BY <1>0, <2>1, CountedOn DEF Looking, Asks
  <2>3. device.prompts > 0 => Lockstep'
    BY <1>1, <1>3, <2>1 DEF Lockstep
  <2>4. device.prompts = 0 => Content'
    BY <1>0, <1>2, <2>1 DEF Content
  <2>. QED BY <1>0, <2>2, <2>3, <2>4 DEF Guarded
<1>4. CASE CheckVerdict(Head(up))
  <2>1. \/ call'.pc = "idle"
        \/ /\ call'.pc = call.back /\ Head(up).kind \in {"ack", "verdict"}
           /\ Head(up).kind = "verdict" => Head(up).seed = call.seed + 1 \/ Head(up).seed = 0
    BY <1>0, <1>4, Judging
  <2>2. CASE call'.pc = "idle"
    BY <1>0, <2>2, TriesElsewhere DEF Opening
  <2>3. ASSUME call'.pc = call.back, call'.pc # "idle", Head(up).kind \in {"ack", "verdict"},
               Head(up).kind = "verdict" => Head(up).seed = call.seed + 1 \/ Head(up).seed = 0
        PROVE  Guarded'
    <3>1. call'.pc \in {"restart", "at", "spawn"} /\ call.seed \in Nat
      BY <1>0, <2>3 DEF Calls
    <3>2. Head(up).kind = "verdict" => Head(up).seed # OtherSeed
      BY <2>3, <3>1 DEF OtherSeed
    <3>3. device.prompts > 0 => Silent' /\ NoneOf("hash", down) /\ device.tries >= before
      BY <1>1, <2>3, <3>2
    <3>4. NoneOf("hash", down) /\ device.tries >= before
      BY <1>0, <1>2, <3>3 DEF Content
    <3>5. Counted'
      BY <1>0, <3>1, <3>4, CountedOn DEF Asks
    <3>6. device.prompts > 0 => Lockstep'
      <4>1. Silent' => Keyed'
        BY DEF Silent, Keyed, AllOf
      <4>. QED BY <1>0, <3>1, <3>3, <4>1 DEF Lockstep
    <3>7. device.prompts = 0 => Content'
      BY <1>0, <1>2, <3>1 DEF Content
    <3>. QED BY <1>0, <3>5, <3>6, <3>7 DEF Guarded
  <2>. QED BY <2>1, <2>2, <2>3
<1>. QED BY <1>3, <1>4 DEF password_response

LEMMA TriesAt == TInv /\ Guarded /\ at_response => Guarded'
<1> SUFFICES ASSUME TInv, Guarded, at_response PROVE Guarded'
  OBVIOUS
<1>0. /\ call \in Calls /\ Counted /\ OneHash(down) /\ device.prompts \in 0..3 /\ Head(up) \in Packets
      /\ up # << >> /\ up' = Tail(up) /\ UNCHANGED <<down, device, before>>
      /\ call.pc = "at_wait" /\ call.pc \in Opening /\ sloppy \in BOOLEAN
      /\ sloppy' = (sloppy \/ Careless(Head(up)))
  BY Taking DEF TInv, Typed, Guarded, Counted, Devices, at_response, Receive, Opening
<1>1. NoneOf("hash", down) /\ device.tries >= before
  BY <1>0 DEF Counted, Looking, Opening
<1>2. device.prompts > 0 => \/ Head(up).kind = "null"
                            \/ Head(up).kind \in {"request", "protected"} /\ Silent'
  <2>1. device.prompts > 0 => Asked("at") \/ Told({"request", "protected"})
    BY <1>0 DEF Guarded, Lockstep
  <2>. QED BY <1>0, <2>1, ReadsFrom
<1>3. device.prompts = 0 => Content /\ Head(up).kind # "request" /\ NoneOf("request", up')
  BY <1>0, ReadsFrom DEF Guarded, Content
<1>4. sloppy' = sloppy \/ sloppy' = TRUE
  BY <1>0
<1>10. Head(up).kind = "request" => Head(up).n = device.tries /\ Head(up).n \in Nat
  <2>1. Head(up) = up[1] /\ 1 \in 1..Len(up)
    BY <1>0, Taking DEF TInv, Typed
  <2>. QED BY <1>0, <2>1 DEF Counted, Asks, Frank, Packets
<1>5. ASSUME NEW pc \in {"at_null_wait", "spawn"}, Goto(pc) PROVE Guarded'
  <2>1. call'.pc = pc
    BY <1>0, <1>5 DEF Goto, Calls
  <2>2. Counted'
    BY <1>0, <1>1, <1>4, <2>1, CountedOn DEF Asks
  <2>3. Lockstep'
    BY <1>0, <1>1, <2>1 DEF Lockstep
  <2>4. device.prompts = 0 => Content'
    BY <1>0, <1>3, <2>1 DEF Content
  <2>. QED BY <1>0, <2>2, <2>3, <2>4 DEF Guarded
<1>6. ASSUME call'.pc = "idle" PROVE Guarded'
  <2>1. Counted'
    BY <1>0, <1>1, <1>4, <1>6, CountedOn DEF Looking, Opening, Asks
  <2>. QED BY <1>6, <2>1 DEF Guarded, Opening
<1>7. ASSUME Head(up).kind = "request", call'.pc = "hash", call'.back = "spawn", call.password # NoPassword
      PROVE  Guarded'
  <2>1. Spared'
    <3>1. ~sloppy' => ~sloppy /\ ~(Head(up).n < MinTries)
      BY <1>0, <1>7 DEF Careless
    <3>2. MinTries \in Nat
      BY IpModemAssumption
    <3>. QED BY <1>0, <1>1, <1>7, <1>10, <3>1, <3>2 DEF Spared
  <2>2. Counted'
    BY <1>0, <1>1, <1>4, <1>7, <2>1, CountedOn DEF Asks
  <2>3. device.prompts > 0 /\ Silent'
    BY <1>0, <1>2, <1>3, <1>7
  <2>. QED BY <1>0, <1>7, <2>2, <2>3 DEF Guarded, Lockstep
<1>8. ASSUME Head(up).kind = "request", SendPassword(Head(up).seed, "spawn") PROVE Guarded'
  <2>1. Head(up).seed \in Nat
    BY <1>0, <1>8 DEF Packets
  <2>2. CASE call.password = NoPassword
    <3>1. Return("BadPassword")
      BY <1>8, <2>2 DEF SendPassword
    <3>. QED BY <1>0, <1>6, <3>1, Returning
  <2>. QED BY <1>0, <1>6, <1>7, <1>8, <2>1, <2>2, SendingPassword
<1>9. ASSUME Return("BadPassword") PROVE Guarded'
  BY <1>0, <1>6, <1>9, Returning
<1>. QED BY <1>5, <1>8, <1>9 DEF at_response

\* Open begins: nothing is on the wires, or an answer will be late.
LEMMA TriesOpen == ASSUME TInv, Guarded, NEW password \in Passwords, Open(password), ~late' PROVE Guarded'
<1>0. /\ call \in Calls /\ device \in Devices /\ Counted /\ up = << >> /\ down = << >>
      /\ UNCHANGED <<up, down, device, sloppy>> /\ before' = device.tries
      /\ call' = [call EXCEPT !.op = "Open", !.pc = "stop", !.password = password]
  BY DEF TInv, Typed, Guarded, Open, Quiet
<1>1. call'.pc = "stop" /\ device.tries \in Nat
  BY <1>0 DEF Calls, Devices
<1>2. Len(down') = 0 /\ Len(up') = 0 /\ Silent'
  BY <1>0 DEF Silent
<1>3. NoneOf("hash", down') /\ OneHash(down') /\ NoneOf("request", up')
  BY <1>2 DEF NoneOf, OneHash
<1>4. Counted'
  <2>1. device'.tries >= before' - 1 /\ device'.tries >= before'
    BY <1>0, <1>1
  <2>. QED BY <1>0, <1>1, <1>3, <2>1 DEF Counted, Asks
<1>5. Lockstep' /\ Content'
  <2>1. device'.tries >= before'
    BY <1>0, <1>1
  <2>. QED BY <1>1, <1>2, <1>3, <2>1 DEF Lockstep, Content
<1>. QED BY <1>4, <1>5 DEF Guarded

LEMMA TriesOthers ==
  ASSUME TInv, Guarded,
         \/ \E text \in Chunks : Write(text)
         \/ \E op \in {"Close", "Destroy"} : Close(op)
         \/ usb_error \/ spawn \/ close_response \/ join
  PROVE  Guarded'
<1>0. call \in Calls /\ Counted /\ OneHash(down)
  BY DEF TInv, Typed, Guarded, Counted
<1>1. ASSUME NEW text \in Chunks, Write(text) PROVE Guarded'
  <2>1. /\ call.pc = "idle" /\ UNCHANGED <<down, device, before, sloppy>>
        /\ \/ call' = [call EXCEPT !.op = "Write"]
           \/ call' = [call EXCEPT !.op = "Write", !.result = "Error"]
    BY <1>1 DEF Write, usbVars
  <2>2. call'.pc = "idle"
    BY <1>0, <2>1 DEF Calls
  <2>. QED BY <1>0, <2>1, <2>2, TriesElsewhere DEF Opening
<1>2. ASSUME NEW op \in {"Close", "Destroy"}, Close(op) PROVE Guarded'
  <2>1. call' = [call EXCEPT !.op = op, !.pc = "end"] /\ UNCHANGED <<down, device, before, sloppy>>
    BY <1>2 DEF Close, usbVars, history
  <2>2. call'.pc = "end"
    BY <1>0, <2>1 DEF Calls
  <2>. QED BY <1>0, <2>1, <2>2, TriesElsewhere DEF Opening
<1>3. CASE usb_error
  <2>1. Return("Error") /\ UNCHANGED <<down, device, before, sloppy>>
    BY <1>3 DEF usb_error, usbVars
  <2>2. call'.pc = "idle"
    BY <1>0, <2>1, Returning
  <2>. QED BY <1>0, <2>1, <2>2, TriesElsewhere DEF Opening
<1>4. CASE spawn
  <2>1. (Return("returned") \/ Return("Error")) /\ UNCHANGED <<down, device, before, sloppy>>
    BY <1>4 DEF spawn, usbVars, history
  <2>2. call'.pc = "idle"
    BY <1>0, <2>1, Returning
  <2>. QED BY <1>0, <2>1, <2>2, TriesElsewhere DEF Opening
<1>5. CASE close_response
  <2>1. StopThread /\ UNCHANGED <<down, device, before, sloppy>>
    BY <1>5 DEF close_response, history
  <2>2. call'.pc \in {"join", "idle"}
    <3>1. Goto("join") \/ Return("returned")
      BY <2>1 DEF StopThread
    <3>2. Return("returned") => call'.pc = "idle"
      BY <1>0, Returning
    <3>. QED BY <1>0, <3>1, <3>2 DEF Goto, Calls
  <2>. QED BY <1>0, <2>1, <2>2, TriesElsewhere DEF Opening
<1>6. CASE join
  <2>1. Return("returned") /\ UNCHANGED <<down, device, before, sloppy>>
    BY <1>6 DEF join, usbVars, history
  <2>2. call'.pc = "idle"
    BY <1>0, <2>1, Returning
  <2>. QED BY <1>0, <2>1, <2>2, TriesElsewhere DEF Opening
<1>. QED BY <1>1, <1>2, <1>3, <1>4, <1>5, <1>6

\* A read that times out with nothing on the wires leaves nothing behind.
LEMMA TriesTimeout == ASSUME TInv, Guarded, timeout, ~late' PROVE Guarded'
<1>0. /\ call \in Calls /\ Counted /\ OneHash(down) /\ up = << >> /\ down = << >>
      /\ UNCHANGED <<up, down, device, before, sloppy>> /\ call.pc \in Waiting
  BY DEF TInv, Typed, Guarded, Counted, timeout, usbVars
<1>1. Len(down) = 0 /\ Len(up) = 0 /\ Silent'
  BY <1>0 DEF Silent
<1>2. NoneOf("hash", down) /\ NoneOf("request", up')
  BY <1>0, <1>1 DEF NoneOf
<1>3. \/ call'.pc \in {"idle", "join"}
      \/ call.pc = "stop_wait" /\ call'.pc = "start"
      \/ call.pc = "at_null_wait" /\ call'.pc = "spawn"
  <2>1. ASSUME NEW result \in {"returned", "Error", "Timeout"}, Return(result) PROVE call'.pc = "idle"
    BY <1>0, <2>1, Returning
  <2>2. ASSUME NEW pc, Goto(pc) PROVE call'.pc = pc
    BY <1>0, <2>2 DEF Goto, Calls
  <2>3. \/ call.pc = "stop_wait" /\ Goto("start")
        \/ call.pc = "at_null_wait" /\ Goto("spawn")
        \/ Goto("join") \/ Return("returned") \/ Return("Error") \/ Return("Timeout")
    BY DEF timeout, StopThread
  <2>. QED BY <2>1, <2>2, <2>3
<1>4. CASE call'.pc \in {"idle", "join"}
  BY <1>0, <1>4, TriesElsewhere DEF Opening
<1>5. CASE (call.pc = "stop_wait" /\ call'.pc = "start") \/ (call.pc = "at_null_wait" /\ call'.pc = "spawn")
  <2>1. call.pc \in Opening /\ (call'.pc = "start" => device.tries >= before)
    BY <1>0, <1>5 DEF Counted, Looking, Opening
  <2>2. Counted'
    BY <1>0, <1>2, <1>5, <2>1, CountedOn DEF Looking, Asks
  <2>3. Lockstep'
    BY <1>0, <1>1, <1>2, <1>5 DEF Lockstep
  <2>4. device.prompts = 0 => Content'
    BY <1>0, <1>2, <1>5, <2>1 DEF Guarded, Content
  <2>. QED BY <1>0, <2>2, <2>3, <2>4 DEF Guarded
<1>. QED BY <1>3, <1>4, <1>5

LEMMA TriesThread == TInv /\ Guarded /\ DataReadThread => Guarded'
<1> SUFFICES ASSUME TInv, Guarded, DataReadThread PROVE Guarded'
  OBVIOUS
<1>1. UNCHANGED <<call, device, down, before, sloppy>> /\ reader.pc # "none"
  BY DEF DataReadThread, reader_tests, reader_reads, reader_gets_nothing, callback, usbVars, dataVars, history
<1>2. call.pc \notin Opening
  BY <1>1, NoThread
<1>3. Counted /\ OneHash(down')
  BY <1>1 DEF Guarded, Counted
<1>. QED BY <1>1, <1>2, <1>3, TriesElsewhere

LEMMA TriesStep == TriesInv /\ [Next]_vars => TriesInv'
<1> SUFFICES ASSUME TriesInv, [Next]_vars PROVE TriesInv'
  OBVIOUS
<1>1. TInv /\ TInv' /\ late \in BOOLEAN /\ late' \in BOOLEAN
  BY TypeStep DEF TriesInv, TInv, Typed
<1>2. late => late'
  <2>1. ASSUME timeout \/ \E password \in Passwords : Open(password) PROVE late => late'
    BY <2>1 DEF timeout, Open
  <2>2. ASSUME UNCHANGED late PROVE late => late'
    BY <2>2
  <2>3. Caller => UNCHANGED late \/ timeout \/ \E password \in Passwords : Open(password)
    BY DEF Caller, SendCommand, SendSessionKey, ignored_response, start_response, password_response,
           restart_response, at_response, spawn, Write, Close, Destroy, close_response, join, usb_error,
           Receive, history
  <2>4. DataReadThread \/ Device => UNCHANGED late
    BY DEF DataReadThread, reader_tests, reader_reads, reader_gets_nothing, callback,
           Device, device_answers, device_connects, device_judges, device_sends, Take, history
  <2>5. UNCHANGED vars => UNCHANGED late
    BY DEF vars, history
  <2>. QED BY <2>1, <2>2, <2>3, <2>4, <2>5 DEF Next, finished
<1>3. ASSUME Guarded, ~late' PROVE Guarded'
  <2>1. Caller => Guarded'
    BY <1>1, <1>3, TriesOpen, TriesCommand, TriesKey, TriesIgnored, TriesStart, TriesVerdict, TriesAt,
       TriesOthers, TriesTimeout DEF Caller, Destroy
  <2>2. ASSUME UNCHANGED vars PROVE Guarded'
    <3>1. UNCHANGED <<call, device, down, up, before, sloppy>>
      BY <2>2 DEF vars, usbVars, history
    <3>. QED BY <1>3, <3>1 DEF Guarded, Counted, Spared, Frank, Warned, Lockstep, Content, Exchange, Silent, Keyed, Asked, Told, Judged
  <2>. QED BY <1>1, <1>3, <2>1, <2>2, TriesThread, TriesDevice DEF Next, finished
<1>. QED BY <1>1, <1>2, <1>3 DEF TriesInv

LEMMA TriesInit == Init => TriesInv
<1> SUFFICES ASSUME Init PROVE TriesInv
  OBVIOUS
<1>1. /\ call.pc = "idle" /\ Len(down) = 0 /\ device.tries = MaxTries /\ before = MaxTries
      /\ MaxTries \in Nat /\ MinTries \in Nat /\ MinTries <= MaxTries
  BY IpModemAssumption DEF Init
<1>2. OneHash(down) /\ NoneOf("hash", down)
  BY <1>1 DEF OneHash, NoneOf
<1>3. device.tries >= before - 1 /\ device.tries >= MinTries - 1
  BY <1>1
<1>4. Counted
  BY <1>1, <1>2, <1>3 DEF Counted, Looking, Opening, Asks
<1>. QED BY <1>1, <1>4, TypeInit DEF TriesInv, Guarded, Opening

\* "Refusing to proceed, to avoid device zapping itself": as long as no answer was late,
\* one Open costs the device at most one try, whichever of its requests Open obeys, and
\* none goes below the limit until Open obeys a request that says that too few are left,
\* as it does after the session key and after AT (m_ipmodem.cc).
THEOREM TriesSparedAlways == Spec => []TriesSpared
<1>1. TriesInv => TriesSpared
  BY DEF TriesInv, Guarded, Counted, TriesSpared
<1>. QED BY <1>1, TriesInit, TriesStep, PTL DEF Spec

-----------------------------------------------------------------------------
(***************************************************************************)
(* Folds. What the filter, the receiver and Plain compute is found by      *)
(* induction over the beginnings of a sequence: the least number in a set  *)
(* of counterexamples stands for the induction theorems, which take an     *)
(* operator.                                                               *)
(***************************************************************************)
LEMMA Least == ASSUME NEW T \in SUBSET Nat, T # {} PROVE \E m \in T : \A k \in T : m <= k
<1>1. PICK m \in T : \A k \in T : <<k, m>> \notin OpToRel(<, Nat)
  BY WFMin, NatLessThanWellFounded, Zenon
<1>2. \A k \in T : ~ (k < m)
  BY <1>1, Zenon DEF OpToRel
<1>3. \A k \in T : m <= k
  BY <1>2
<1>. QED BY <1>3

\* Induction over a set in place of a predicate.
LEMMA Inductive ==
  ASSUME NEW N \in Nat, NEW G, 0 \in G, \A m \in 0..(N - 1) : m \in G => m + 1 \in G
  PROVE  \A m \in 0..N : m \in G
<1>. DEFINE Bad == {m \in 0..N : m \notin G}
<1>1. SUFFICES ASSUME Bad # {} PROVE FALSE
  OBVIOUS
<1>2. Bad \in SUBSET Nat
  OBVIOUS
<1>3. PICK m \in Bad : \A k \in Bad : m <= k
  <2>. HIDE DEF Bad
  <2>. QED BY <1>1, <1>2, Least, Zenon
<1>4. m # 0 /\ m \in 0..N /\ m \notin G
  BY <1>3
<1>5. m - 1 \in 0..(N - 1) /\ m - 1 \notin Bad /\ (m - 1) + 1 = m
  BY <1>3, <1>4
<1>6. m - 1 \in G
  BY <1>5
<1>. QED BY <1>4, <1>5, <1>6

\* What a fold makes of each beginning of a sequence.
IsFold(g, v, step, s) ==
  g = [n \in 0..Len(s) |-> IF n = 0 THEN v ELSE step[<<g[n - 1], s[n]>>]]

Upto(g, v, step, s, m) ==
  /\ g[0] = v
  /\ \A n \in 1..m : g[n] = step[<<g[n - 1], s[n]>>]

LEMMA FoldExists ==
  ASSUME NEW V, NEW B, NEW v \in V, NEW step \in [V \X B -> V], NEW s \in Seq(B)
  PROVE  \E g \in [0..Len(s) -> V] : IsFold(g, v, step, s)
<1>. DEFINE N == Len(s)
            Good == {m \in 0..N : \E g \in [0..N -> V] : Upto(g, v, step, s, m)}
<1>1. N \in Nat /\ \A n \in 1..N : s[n] \in B
  BY LenProperties, ElementOfSeq
<1>2. 0 \in Good
  <2>. DEFINE g == [n \in 0..N |-> v]
  <2>1. g \in [0..N -> V] /\ g[0] = v
    BY <1>1
  <2>2. Upto(g, v, step, s, 0)
    BY <2>1 DEF Upto
  <2>. QED BY <1>1, <2>1, <2>2
<1>3. ASSUME NEW m \in 0..N, m \in Good, m + 1 <= N PROVE m + 1 \in Good
  <2>1. PICK g \in [0..N -> V] : Upto(g, v, step, s, m)
    BY <1>3
  <2>. DEFINE h == [g EXCEPT ![m + 1] = step[<<g[m], s[m + 1]>>]]
  <2>2. m + 1 \in 1..N /\ s[m + 1] \in B /\ g[m] \in V /\ m \in 0..N
    BY <1>1, <1>3
  <2>3. step[<<g[m], s[m + 1]>>] \in V
    BY <2>2
  <2>4. h \in [0..N -> V]
    BY <2>3
  <2>5. \A n \in 0..m : h[n] = g[n]
    BY <2>2, <1>1
  <2>6. h[m + 1] = step[<<g[m], s[m + 1]>>]
    BY <2>2, <1>1
  <2>7. Upto(h, v, step, s, m + 1)
    <3>1. h[0] = v
      BY <2>1, <2>5, <2>2 DEF Upto
    <3>2. ASSUME NEW n \in 1..(m + 1) PROVE h[n] = step[<<h[n - 1], s[n]>>]
      <4>1. CASE n = m + 1
        <5>1. h[m] = g[m] /\ n - 1 = m
          BY <4>1, <2>5, <2>2
        <5>. QED BY <4>1, <5>1, <2>6
      <4>2. CASE n # m + 1
        <5>1. n \in 1..m /\ n \in 0..m /\ n - 1 \in 0..m
          BY <4>2, <2>2
        <5>2. h[n] = g[n] /\ h[n - 1] = g[n - 1]
          BY <5>1, <2>5
        <5>3. g[n] = step[<<g[n - 1], s[n]>>]
          BY <5>1, <2>1 DEF Upto
        <5>. QED BY <5>2, <5>3
      <4>. QED BY <4>1, <4>2
    <3>. HIDE DEF h
    <3>. QED BY <3>1, <3>2 DEF Upto
  <2>. HIDE DEF h
  <2>8. \E f \in [0..N -> V] : Upto(f, v, step, s, m + 1)
    BY <2>4, <2>7, Zenon
  <2>9. m + 1 \in 0..N
    BY <2>2, <1>1
  <2>. QED BY <2>8, <2>9, Zenon
<1>4. N \in Good
  <2>. HIDE DEF Good
  <2>1. \A m \in 0..(N - 1) : m \in Good => m + 1 \in Good
    BY <1>1, <1>3
  <2>2. \A m \in 0..N : m \in Good
    BY <1>1, <1>2, <2>1, Inductive, Zenon
  <2>. QED BY <1>1, <2>2
<1>5. PICK g \in [0..N -> V] : Upto(g, v, step, s, N)
  BY <1>4
<1>. DEFINE gg == [n \in 0..N |-> IF n = 0 THEN v ELSE step[<<g[n - 1], s[n]>>]]
<1>6. \A n \in 0..N : g[n] = gg[n]
  BY <1>5, <1>1 DEF Upto
<1>7. g = gg
  BY <1>6
<1>. QED BY <1>7, Zenon DEF IsFold

LEMMA FoldValues ==
  ASSUME NEW g, NEW v, NEW step, NEW s, Len(s) \in Nat, IsFold(g, v, step, s)
  PROVE  g[0] = v /\ \A n \in 1..Len(s) : n - 1 \in 0..(Len(s) - 1) /\ g[n] = step[<<g[n - 1], s[n]>>]
<1>1. 0 \in 0..Len(s) /\ \A n \in 1..Len(s) : n \in 0..Len(s) /\ n # 0 /\ n - 1 \in 0..(Len(s) - 1)
  OBVIOUS
<1>2. g[0] = v
  BY <1>1 DEF IsFold
<1>3. ASSUME NEW n \in 1..Len(s) PROVE g[n] = step[<<g[n - 1], s[n]>>]
  BY <1>1 DEF IsFold
<1>. QED BY <1>1, <1>2, <1>3

Runs(d, V, v, step, s) ==
  d[0] = v /\ \A n \in 1..Len(s) : d[n - 1] \in V => d[n] = step[<<d[n - 1], s[n]>>]

LEMMA FoldIs ==
  ASSUME NEW V, NEW v, NEW step, NEW s, Len(s) \in Nat, NEW g \in [0..Len(s) -> V], IsFold(g, v, step, s),
         NEW d, Runs(d, V, v, step, s)
  PROVE  d[Len(s)] = g[Len(s)]
<1>. DEFINE Agreed == {n \in 0..Len(s) : d[n] = g[n]}
<1>1. Len(s) \in Nat
  OBVIOUS
<1>2. g[0] = v /\ \A n \in 1..Len(s) : g[n] = step[<<g[n - 1], s[n]>>]
  BY <1>1, FoldValues
<1>a. d[0] = v /\ \A n \in 1..Len(s) : d[n - 1] \in V => d[n] = step[<<d[n - 1], s[n]>>]
  BY DEF Runs
<1>3. 0 \in Agreed
  BY <1>a, <1>1, <1>2
<1>4. ASSUME NEW m \in 0..(Len(s) - 1), m \in Agreed PROVE m + 1 \in Agreed
  <2>1. m \in 0..Len(s) /\ m + 1 \in 1..Len(s) /\ m + 1 \in 0..Len(s) /\ (m + 1) - 1 = m
    BY <1>1
  <2>2. d[m] = g[m] /\ d[m] \in V
    BY <1>4, <2>1
  <2>3. d[m + 1] = step[<<d[m], s[m + 1]>>] /\ g[m + 1] = step[<<g[m], s[m + 1]>>]
    BY <1>a, <1>2, <2>1, <2>2
  <2>4. d[m + 1] = g[m + 1]
    BY <2>2, <2>3
  <2>. QED BY <2>1, <2>4
<1>5. \A n \in 0..Len(s) : n \in Agreed
  <2>. HIDE DEF Agreed
  <2>. QED BY <1>1, <1>3, <1>4, Inductive, Zenon
<1>. QED BY <1>1, <1>5

LEMMA FoldAppend ==
  ASSUME NEW B, NEW s \in Seq(B), NEW b \in B, NEW v, NEW step, NEW g, NEW h,
         IsFold(g, v, step, s), IsFold(h, v, step, Append(s, b))
  PROVE  Len(Append(s, b)) = Len(s) + 1 /\ h[Len(s) + 1] = step[<<g[Len(s)], b>>]
<1>. DEFINE Agreed == {n \in 0..Len(s) : h[n] = g[n]}
            t == Append(s, b)
<1>1. /\ Len(s) \in Nat /\ Len(t) = Len(s) + 1 /\ t[Len(s) + 1] = b
      /\ \A n \in 1..Len(s) : t[n] = s[n]
  BY AppendProperties, LenProperties
<1>. HIDE DEF t
<1>2. h[0] = v /\ \A n \in 1..(Len(s) + 1) : h[n] = step[<<h[n - 1], t[n]>>]
  <2>1. Len(t) \in Nat
    BY <1>1
  <2>2. IsFold(h, v, step, t)
    BY DEF t
  <2>3. h[0] = v /\ \A n \in 1..Len(t) : h[n] = step[<<h[n - 1], t[n]>>]
    BY <2>1, <2>2, FoldValues
  <2>. QED BY <1>1, <2>3
<1>3. g[0] = v /\ \A n \in 1..Len(s) : g[n] = step[<<g[n - 1], s[n]>>]
  BY <1>1, FoldValues
<1>4. 0 \in Agreed
  BY <1>1, <1>2, <1>3
<1>5. ASSUME NEW m \in 0..(Len(s) - 1), m \in Agreed PROVE m + 1 \in Agreed
  <2>1. m + 1 \in 1..Len(s) /\ m + 1 \in 1..(Len(s) + 1) /\ m + 1 \in 0..Len(s) /\ (m + 1) - 1 = m
    BY <1>1
  <2>2. h[m + 1] = step[<<h[m], t[m + 1]>>] /\ g[m + 1] = step[<<g[m], s[m + 1]>>]
    BY <1>2, <1>3, <2>1
  <2>3. h[m] = g[m] /\ t[m + 1] = s[m + 1]
    BY <1>1, <1>5, <2>1
  <2>4. h[m + 1] = g[m + 1]
    BY <2>2, <2>3
  <2>. QED BY <2>1, <2>4
<1>6. \A n \in 0..Len(s) : n \in Agreed
  <2>. HIDE DEF Agreed
  <2>. QED BY <1>1, <1>4, <1>5, Inductive, Zenon
<1>7. h[Len(s)] = g[Len(s)]
  BY <1>1, <1>6
<1>8. Len(s) + 1 \in 1..(Len(s) + 1) /\ (Len(s) + 1) - 1 = Len(s)
  BY <1>1
<1>9. h[Len(s) + 1] = step[<<h[Len(s)], t[Len(s) + 1]>>]
  BY <1>2, <1>8
<1>. QED BY <1>1, <1>7, <1>9 DEF t

\* The three recursions of the filter, its receiver and Framed are folds.
States == [after_flag : BOOLEAN, out : Seq(Bytes)]
Receivers == [ppp : BOOLEAN, inside : BOOLEAN, bare : BOOLEAN]
Putting == [p \in States \X Bytes |-> Put(p[1], p[2])]
Hearing == [p \in Receivers \X Bytes |-> Hear(p[1], p[2])]
Keeping == [p \in Seq(Bytes) \X Bytes |-> IF p[2] = Flag THEN p[1] ELSE Append(p[1], p[2])]

LEMMA PutTyped == ASSUME NEW f \in States, NEW b \in Bytes PROVE Put(f, b) \in States
<1>1. Flag \in Bytes
  BY IpModemAssumption
<1>2. CASE f.after_flag /\ b # Flag
  <2>1. Put(f, b) = [after_flag |-> FALSE, out |-> f.out \o <<Flag, b>>]
    BY <1>2 DEF Put
  <2>2. f.out \in Seq(Bytes) /\ <<Flag, b>> \in Seq(Bytes)
    BY <1>1 DEF States
  <2>3. f.out \o <<Flag, b>> \in Seq(Bytes)
    BY <2>2
  <2>. QED BY <2>1, <2>3 DEF States
<1>3. CASE b = Flag
  <2>1. Put(f, b) = [after_flag |-> ~f.after_flag, out |-> Append(f.out, b)]
    BY <1>3 DEF Put
  <2>2. f.out \in Seq(Bytes) /\ f.after_flag \in BOOLEAN
    BY DEF States
  <2>3. Append(f.out, b) \in Seq(Bytes)
    BY <2>2
  <2>. QED BY <2>1, <2>2, <2>3 DEF States
<1>4. CASE ~f.after_flag /\ b # Flag
  <2>1. Put(f, b) = [f EXCEPT !.out = Append(@, b)]
    BY <1>4 DEF Put
  <2>2. f.out \in Seq(Bytes) /\ f.after_flag \in BOOLEAN
    BY DEF States
  <2>3. Append(f.out, b) \in Seq(Bytes)
    BY <2>2
  <2>. QED BY <2>1, <2>2, <2>3 DEF States
<1>. QED BY <1>2, <1>3, <1>4 DEF States

LEMMA HearTyped == ASSUME NEW r \in Receivers, NEW b \in Bytes PROVE Hear(r, b) \in Receivers
<1>1. CASE b = Flag
  BY <1>1 DEF Hear, Receivers
<1>2. CASE b # Flag
  BY <1>2 DEF Hear, Receivers
<1>. QED BY <1>1, <1>2

LEMMA StepsTyped ==
  /\ Putting \in [States \X Bytes -> States]
  /\ Hearing \in [Receivers \X Bytes -> Receivers]
  /\ Keeping \in [Seq(Bytes) \X Bytes -> Seq(Bytes)]
<1>1. Putting \in [States \X Bytes -> States]
  <2>1. \A p \in States \X Bytes : Put(p[1], p[2]) \in States
    BY PutTyped
  <2>. QED BY <2>1 DEF Putting
<1>2. Hearing \in [Receivers \X Bytes -> Receivers]
  <2>1. \A p \in Receivers \X Bytes : Hear(p[1], p[2]) \in Receivers
    BY HearTyped
  <2>. QED BY <2>1 DEF Hearing
<1>3. Keeping \in [Seq(Bytes) \X Bytes -> Seq(Bytes)]
  BY DEF Keeping
<1>. QED BY <1>1, <1>2, <1>3

LEMMA FilterIsFold ==
  ASSUME NEW a \in BOOLEAN, NEW src \in Seq(Bytes)
  PROVE  \E g \in [0..Len(src) -> States] :
           /\ IsFold(g, [after_flag |-> a, out |-> << >>], Putting, src)
           /\ Filter(a, src) = g[Len(src)]
<1>. DEFINE v == [after_flag |-> a, out |-> << >>]
            body(g) == [n \in 0..Len(src) |-> IF n = 0 THEN v ELSE Put(g[n - 1], src[n])]
            done == CHOOSE g : g = body(g)
<1>1. v \in States
  BY DEF States
<1>2. PICK g \in [0..Len(src) -> States] : IsFold(g, v, Putting, src)
  BY <1>1, StepsTyped, FoldExists, Zenon
<1>3. ASSUME NEW h \in [0..Len(src) -> States], NEW n \in 0..Len(src), n # 0
      PROVE  Putting[<<h[n - 1], src[n]>>] = Put(h[n - 1], src[n])
  <2>1. h[n - 1] \in States /\ src[n] \in Bytes
    BY <1>3, LenProperties, ElementOfSeq
  <2>. QED BY <2>1 DEF Putting
<1>4. g = body(g)
  BY <1>2, <1>3 DEF IsFold
<1>5. done = body(done)
  <2>. HIDE DEF body
  <2>. QED BY <1>4
<1>6. done[0] = v /\ \A n \in 1..Len(src) : done[n] = Put(done[n - 1], src[n])
  <2>. HIDE DEF done
  <2>1. Len(src) \in Nat
    BY LenProperties
  <2>. QED BY <1>5, <2>1
<1>7. ASSUME NEW n \in 1..Len(src), done[n - 1] \in States
      PROVE  done[n] = Putting[<<done[n - 1], src[n]>>]
  <2>. HIDE DEF done
  <2>1. src[n] \in Bytes
    BY ElementOfSeq
  <2>. QED BY <1>6, <1>7, <2>1 DEF Putting
<1>8. done[Len(src)] = g[Len(src)]
  <2>. HIDE DEF done, v
  <2>1. \A n \in 1..Len(src) : done[n - 1] \in States => done[n] = Putting[<<done[n - 1], src[n]>>]
    BY <1>7
  <2>2. done[0] = v
    BY <1>6
  <2>3. Runs(done, States, v, Putting, src)
    BY <2>1, <2>2, Zenon DEF Runs
  <2>4. Len(src) \in Nat
    BY LenProperties
  <2>. QED BY <1>2, <2>3, <2>4, FoldIs, SMTT(30)
<1>9. Filter(a, src) = done[Len(src)]
  BY DEF Filter
<1>. HIDE DEF done
<1>. QED BY <1>2, <1>8, <1>9, Zenon

LEMMA HearAllIsFold ==
  ASSUME NEW r \in Receivers, NEW bytes \in Seq(Bytes)
  PROVE  \E g \in [0..Len(bytes) -> Receivers] :
           /\ IsFold(g, r, Hearing, bytes)
           /\ HearAll(r, bytes) = g[Len(bytes)]
<1>. DEFINE v == r
            body(g) == [n \in 0..Len(bytes) |-> IF n = 0 THEN v ELSE Hear(g[n - 1], bytes[n])]
            done == CHOOSE g : g = body(g)
<1>1. v \in Receivers
  OBVIOUS
<1>2. PICK g \in [0..Len(bytes) -> Receivers] : IsFold(g, v, Hearing, bytes)
  BY <1>1, StepsTyped, FoldExists, Zenon
<1>3. ASSUME NEW h \in [0..Len(bytes) -> Receivers], NEW n \in 0..Len(bytes), n # 0
      PROVE  Hearing[<<h[n - 1], bytes[n]>>] = Hear(h[n - 1], bytes[n])
  <2>1. h[n - 1] \in Receivers /\ bytes[n] \in Bytes
    BY <1>3, LenProperties, ElementOfSeq
  <2>. QED BY <2>1 DEF Hearing
<1>4. g = body(g)
  BY <1>2, <1>3 DEF IsFold
<1>5. done = body(done)
  <2>. HIDE DEF body
  <2>. QED BY <1>4
<1>6. done[0] = v /\ \A n \in 1..Len(bytes) : done[n] = Hear(done[n - 1], bytes[n])
  <2>. HIDE DEF done
  <2>1. Len(bytes) \in Nat
    BY LenProperties
  <2>. QED BY <1>5, <2>1
<1>7. ASSUME NEW n \in 1..Len(bytes), done[n - 1] \in Receivers
      PROVE  done[n] = Hearing[<<done[n - 1], bytes[n]>>]
  <2>. HIDE DEF done
  <2>1. bytes[n] \in Bytes
    BY ElementOfSeq
  <2>. QED BY <1>6, <1>7, <2>1 DEF Hearing
<1>8. done[Len(bytes)] = g[Len(bytes)]
  <2>. HIDE DEF done, v
  <2>1. \A n \in 1..Len(bytes) : done[n - 1] \in Receivers => done[n] = Hearing[<<done[n - 1], bytes[n]>>]
    BY <1>7
  <2>2. done[0] = v
    BY <1>6
  <2>3. Runs(done, Receivers, v, Hearing, bytes)
    BY <2>1, <2>2, Zenon DEF Runs
  <2>4. Len(bytes) \in Nat
    BY LenProperties
  <2>. QED BY <1>2, <2>3, <2>4, FoldIs, SMTT(30)
<1>9. HearAll(r, bytes) = done[Len(bytes)]
  BY DEF HearAll
<1>. HIDE DEF done
<1>. QED BY <1>2, <1>8, <1>9, Zenon

LEMMA PlainIsFold ==
  ASSUME NEW text \in Seq(Bytes)
  PROVE  \E g \in [0..Len(text) -> Seq(Bytes)] :
           /\ IsFold(g, << >>, Keeping, text)
           /\ Plain(text) = g[Len(text)]
<1>. DEFINE v == << >>
            body(g) == [n \in 0..Len(text) |-> IF n = 0 THEN v ELSE (IF text[n] = Flag THEN g[n - 1] ELSE Append(g[n - 1], text[n]))]
            done == CHOOSE g : g = body(g)
<1>1. v \in Seq(Bytes)
  OBVIOUS
<1>2. PICK g \in [0..Len(text) -> Seq(Bytes)] : IsFold(g, v, Keeping, text)
  BY <1>1, StepsTyped, FoldExists, Zenon
<1>3. ASSUME NEW h \in [0..Len(text) -> Seq(Bytes)], NEW n \in 0..Len(text), n # 0
      PROVE  Keeping[<<h[n - 1], text[n]>>] = (IF text[n] = Flag THEN h[n - 1] ELSE Append(h[n - 1], text[n]))
  <2>a. n - 1 \in 0..Len(text) /\ n \in 1..Len(text)
    BY <1>3, LenProperties
  <2>1. h[n - 1] \in Seq(Bytes) /\ text[n] \in Bytes
    BY <1>3, <2>a, ElementOfSeq, Zenon
  <2>. QED BY <2>1 DEF Keeping
<1>4. g = body(g)
  BY <1>2, <1>3 DEF IsFold
<1>5. done = body(done)
  <2>. HIDE DEF body
  <2>. QED BY <1>4
<1>6. done[0] = v /\ \A n \in 1..Len(text) : done[n] = (IF text[n] = Flag THEN done[n - 1] ELSE Append(done[n - 1], text[n]))
  <2>. HIDE DEF done
  <2>1. Len(text) \in Nat
    BY LenProperties
  <2>. DEFINE next(p, b) == IF b = Flag THEN p ELSE Append(p, b)
  <2>2. \A n \in 0..Len(text) : done[n] = IF n = 0 THEN v ELSE next(done[n - 1], text[n])
    <3>. HIDE DEF v
    <3>. QED BY <1>5, Zenon
  <2>. HIDE DEF next, v
  <2>3. done[0] = v /\ \A n \in 1..Len(text) : done[n] = next(done[n - 1], text[n])
    BY <2>1, <2>2
  <2>. QED BY <2>3, Zenon DEF next
<1>7. ASSUME NEW n \in 1..Len(text), done[n - 1] \in Seq(Bytes)
      PROVE  done[n] = Keeping[<<done[n - 1], text[n]>>]
  <2>. HIDE DEF done
  <2>1. text[n] \in Bytes
    BY ElementOfSeq
  <2>. QED BY <1>6, <1>7, <2>1 DEF Keeping
<1>8. done[Len(text)] = g[Len(text)]
  <2>. HIDE DEF done, v
  <2>1. \A n \in 1..Len(text) : done[n - 1] \in Seq(Bytes) => done[n] = Keeping[<<done[n - 1], text[n]>>]
    BY <1>7
  <2>2. done[0] = v
    BY <1>6
  <2>3. Runs(done, Seq(Bytes), v, Keeping, text)
    BY <2>1, <2>2, Zenon DEF Runs
  <2>4. Len(text) \in Nat
    BY LenProperties
  <2>. QED BY <1>2, <2>3, <2>4, FoldIs, SMTT(30)
<1>9. Plain(text) = done[Len(text)]
  BY DEF Plain
<1>. HIDE DEF done
<1>. QED BY <1>2, <1>8, <1>9, Zenon

\* What one byte more does to the text without its flags, and to the receiver.
LEMMA PlainEmpty == Plain(<< >>) = << >>
<1>1. << >> \in Seq(Bytes) /\ Len(<< >>) = 0
  OBVIOUS
<1>2. PICK e : e = << >>
  OBVIOUS
<1>3. e \in Seq(Bytes) /\ Len(e) = 0
  BY <1>1, <1>2
<1>4. PICK g \in [0..Len(e) -> Seq(Bytes)] : IsFold(g, << >>, Keeping, e) /\ Plain(e) = g[Len(e)]
  BY <1>3, PlainIsFold, Zenon
<1>5. g[0] = << >>
  BY <1>3, <1>4 DEF IsFold
<1>. QED BY <1>2, <1>3, <1>4, <1>5

LEMMA HearEmpty == ASSUME NEW r \in Receivers PROVE HearAll(r, << >>) = r
<1>1. << >> \in Seq(Bytes) /\ Len(<< >>) = 0
  OBVIOUS
<1>2. PICK e : e = << >>
  OBVIOUS
<1>3. e \in Seq(Bytes) /\ Len(e) = 0
  BY <1>1, <1>2
<1>4. PICK g \in [0..Len(e) -> Receivers] : IsFold(g, r, Hearing, e) /\ HearAll(r, e) = g[Len(e)]
  BY <1>3, HearAllIsFold, Zenon
<1>5. g[0] = r
  BY <1>3, <1>4 DEF IsFold
<1>. QED BY <1>2, <1>3, <1>4, <1>5

LEMMA PlainTyped == ASSUME NEW s \in Seq(Bytes) PROVE Plain(s) \in Seq(Bytes)
<1>1. PICK g \in [0..Len(s) -> Seq(Bytes)] : Plain(s) = g[Len(s)]
  BY PlainIsFold, Zenon
<1>2. Len(s) \in 0..Len(s)
  BY LenProperties
<1>. QED BY <1>1, <1>2, Zenon

LEMMA PlainAppend ==
  ASSUME NEW s \in Seq(Bytes), NEW b \in Bytes
  PROVE  /\ b = Flag => Plain(Append(s, b)) = Plain(s)
         /\ b # Flag => Plain(Append(s, b)) = Append(Plain(s), b)
<1>1. PICK t : t = Append(s, b)
  OBVIOUS
<1>2. t \in Seq(Bytes)
  BY <1>1, AppendProperties
<1>3. PICK g \in [0..Len(s) -> Seq(Bytes)] : IsFold(g, << >>, Keeping, s) /\ Plain(s) = g[Len(s)]
  BY PlainIsFold, Zenon
<1>4. PICK h \in [0..Len(t) -> Seq(Bytes)] : IsFold(h, << >>, Keeping, t) /\ Plain(t) = h[Len(t)]
  BY <1>2, PlainIsFold, Zenon
<1>5. IsFold(h, << >>, Keeping, Append(s, b))
  BY <1>1, <1>4
<1>6. Len(Append(s, b)) = Len(s) + 1 /\ h[Len(s) + 1] = Keeping[<<g[Len(s)], b>>]
  <2>1. IsFold(g, << >>, Keeping, s) /\ IsFold(h, << >>, Keeping, Append(s, b))
    BY <1>3, <1>5
  <2>2. \A gg, hh, v, step : IsFold(gg, v, step, s) /\ IsFold(hh, v, step, Append(s, b)) =>
           Len(Append(s, b)) = Len(s) + 1 /\ hh[Len(s) + 1] = step[<<gg[Len(s)], b>>]
    BY FoldAppend
  <2>. QED BY <2>1, <2>2, Zenon
<1>7. Plain(Append(s, b)) = Keeping[<<Plain(s), b>>]
  BY <1>1, <1>3, <1>4, <1>6
<1>8. Keeping[<<Plain(s), b>>] = IF b = Flag THEN Plain(s) ELSE Append(Plain(s), b)
  BY PlainTyped DEF Keeping
<1>. QED BY <1>7, <1>8

LEMMA HearAllTyped == ASSUME NEW r \in Receivers, NEW s \in Seq(Bytes) PROVE HearAll(r, s) \in Receivers
<1>1. PICK g \in [0..Len(s) -> Receivers] : HearAll(r, s) = g[Len(s)]
  BY HearAllIsFold, Zenon
<1>2. Len(s) \in 0..Len(s)
  BY LenProperties
<1>. QED BY <1>1, <1>2, Zenon

LEMMA HearAppend ==
  ASSUME NEW r \in Receivers, NEW s \in Seq(Bytes), NEW b \in Bytes
  PROVE  HearAll(r, Append(s, b)) = Hear(HearAll(r, s), b)
<1>1. PICK t : t = Append(s, b)
  OBVIOUS
<1>2. t \in Seq(Bytes)
  BY <1>1, AppendProperties
<1>3. PICK g \in [0..Len(s) -> Receivers] : IsFold(g, r, Hearing, s) /\ HearAll(r, s) = g[Len(s)]
  BY HearAllIsFold, Zenon
<1>4. PICK h \in [0..Len(t) -> Receivers] : IsFold(h, r, Hearing, t) /\ HearAll(r, t) = h[Len(t)]
  BY <1>2, HearAllIsFold, Zenon
<1>5. IsFold(h, r, Hearing, Append(s, b))
  BY <1>1, <1>4
<1>6. Len(Append(s, b)) = Len(s) + 1 /\ h[Len(s) + 1] = Hearing[<<g[Len(s)], b>>]
  <2>1. IsFold(g, r, Hearing, s) /\ IsFold(h, r, Hearing, Append(s, b))
    BY <1>3, <1>5
  <2>2. \A gg, hh, rr, step : IsFold(gg, rr, step, s) /\ IsFold(hh, rr, step, Append(s, b)) =>
           Len(Append(s, b)) = Len(s) + 1 /\ hh[Len(s) + 1] = step[<<gg[Len(s)], b>>]
    BY FoldAppend
  <2>. QED BY <2>1, <2>2, Zenon
<1>7. HearAll(r, Append(s, b)) = Hearing[<<HearAll(r, s), b>>]
  BY <1>1, <1>3, <1>4, <1>6
<1>8. Hearing[<<HearAll(r, s), b>>] = Hear(HearAll(r, s), b)
  BY HearAllTyped DEF Hearing
<1>. QED BY <1>7, <1>8

\* What the filter has made of the first n bytes: the same text, in the room it
\* reserves, and a receiver that was between frames exactly when the filter was is so
\* again and has heard no byte outside a frame.
Faithful(a, f, n, kept) ==
  /\ Plain(f.out) = kept
  /\ 2 * Len(f.out) <= 3 * n + (IF f.after_flag THEN 0 ELSE 1)
  /\ \A r \in Receivers : ~r.bare /\ r.inside = ~a =>
       ~HearAll(r, f.out).bare /\ HearAll(r, f.out).inside = ~f.after_flag

Doubled(x, n, a) == 2 * x <= 3 * n + (IF a THEN 0 ELSE 1)

LEMMA Room ==
  ASSUME NEW x \in Nat, NEW n \in Nat, NEW a \in BOOLEAN, Doubled(x, n, a)
  PROVE  /\ a => Doubled(x + 2, n + 1, FALSE)
         /\ Doubled(x + 1, n + 1, ~a)
         /\ ~a => Doubled(x + 1, n + 1, FALSE)
BY DEF Doubled

LEMMA HearFlag ==
  ASSUME NEW r \in Receivers, ~r.bare
  PROVE  Hear(r, Flag) \in Receivers /\ ~Hear(r, Flag).bare /\ Hear(r, Flag).inside = ~r.inside
<1>1. Hear(r, Flag) = [r EXCEPT !.ppp = TRUE, !.inside = ~@]
  BY DEF Hear
<1>. QED BY <1>1 DEF Receivers

LEMMA HearByte ==
  ASSUME NEW r \in Receivers, ~r.bare, NEW b \in Bytes, b # Flag, r.inside \/ ~r.ppp
  PROVE  Hear(r, b) = r
<1>1. Hear(r, b) = [r EXCEPT !.bare = @ \/ (r.ppp /\ ~r.inside)]
  BY DEF Hear
<1>. QED BY <1>1 DEF Receivers

LEMMA FaithfulPut ==
  ASSUME NEW a \in BOOLEAN, NEW f \in States, NEW n \in Nat, NEW kept \in Seq(Bytes), NEW b \in Bytes,
         Faithful(a, f, n, kept)
  PROVE  Faithful(a, Put(f, b), n + 1, IF b = Flag THEN kept ELSE Append(kept, b))
<1>1. Flag \in Bytes /\ f.out \in Seq(Bytes) /\ f.after_flag \in BOOLEAN /\ Len(f.out) \in Nat
  BY IpModemAssumption, LenProperties DEF States
<1>2. Plain(f.out) = kept /\ Doubled(Len(f.out), n, f.after_flag)
  BY Zenon DEF Faithful, Doubled
<1>3. ASSUME NEW r \in Receivers, ~r.bare, r.inside = ~a
      PROVE  /\ HearAll(r, f.out) \in Receivers /\ ~HearAll(r, f.out).bare
             /\ HearAll(r, f.out).inside = ~f.after_flag
  BY <1>1, <1>3, HearAllTyped, Zenon DEF Faithful
<1>4. Append(f.out, Flag) \in Seq(Bytes) /\ Append(f.out, b) \in Seq(Bytes)
  BY <1>1, AppendProperties
<1>5. CASE b = Flag
  <2>1. Put(f, b).after_flag = ~f.after_flag /\ Put(f, b).out = Append(f.out, Flag)
    BY <1>5 DEF Put
  <2>2. Plain(Append(f.out, Flag)) = kept
    BY <1>1, <1>2, PlainAppend, Zenon
  <2>3. Len(Append(f.out, Flag)) = Len(f.out) + 1
    BY <1>1, AppendProperties
  <2>4. Doubled(Len(f.out) + 1, n + 1, ~f.after_flag)
    BY <1>1, <1>2, Room, Zenon
  <2>5. ASSUME NEW r \in Receivers, ~r.bare, r.inside = ~a
        PROVE  ~HearAll(r, Append(f.out, Flag)).bare /\ HearAll(r, Append(f.out, Flag)).inside = ~ ~f.after_flag
    <3>1. HearAll(r, Append(f.out, Flag)) = Hear(HearAll(r, f.out), Flag)
      BY <1>1, HearAppend, Zenon
    <3>. QED BY <3>1, <2>5, <1>3, HearFlag, Zenon
  <2>. QED BY <1>5, <2>1, <2>2, <2>3, <2>4, <2>5, Zenon DEF Faithful, Doubled
<1>6. CASE b # Flag /\ ~f.after_flag
  <2>1. Put(f, b).after_flag = FALSE /\ Put(f, b).out = Append(f.out, b)
    <3>1. Put(f, b) = [f EXCEPT !.out = Append(@, b)]
      BY <1>6 DEF Put
    <3>. QED BY <1>6, <3>1 DEF States
  <2>2. Plain(Append(f.out, b)) = Append(kept, b)
    BY <1>1, <1>2, <1>6, PlainAppend, Zenon
  <2>3. Len(Append(f.out, b)) = Len(f.out) + 1
    BY <1>1, AppendProperties
  <2>4. Doubled(Len(f.out) + 1, n + 1, FALSE)
    BY <1>1, <1>2, <1>6, Room, Zenon
  <2>5. ASSUME NEW r \in Receivers, ~r.bare, r.inside = ~a
        PROVE  ~HearAll(r, Append(f.out, b)).bare /\ HearAll(r, Append(f.out, b)).inside = ~FALSE
    <3>1. HearAll(r, Append(f.out, b)) = Hear(HearAll(r, f.out), b)
      BY <1>1, HearAppend, Zenon
    <3>2. /\ HearAll(r, f.out) \in Receivers /\ ~HearAll(r, f.out).bare
          /\ HearAll(r, f.out).inside = ~f.after_flag
      BY <2>5, <1>3
    <3>3. Hear(HearAll(r, f.out), b) = HearAll(r, f.out)
      BY <3>2, <1>6, HearByte, Zenon
    <3>. QED BY <3>1, <3>2, <3>3, <1>6
  <2>. QED BY <1>6, <2>1, <2>2, <2>3, <2>4, <2>5, Zenon DEF Faithful, Doubled
<1>7. CASE b # Flag /\ f.after_flag
  <2>. DEFINE t == Append(f.out, Flag)
  <2>1. Put(f, b).after_flag = FALSE /\ Put(f, b).out = Append(t, b)
    <3>1. Put(f, b) = [after_flag |-> FALSE, out |-> f.out \o <<Flag, b>>]
      BY <1>7 DEF Put
    <3>2. f.out \o <<Flag, b>> = Append(t, b)
      BY <1>1
    <3>. QED BY <3>1, <3>2
  <2>2. Plain(Append(t, b)) = Append(kept, b)
    <3>1. Plain(t) = kept
      BY <1>1, <1>2, PlainAppend, Zenon
    <3>. QED BY <3>1, <1>4, <1>7, PlainAppend, Zenon
  <2>3. Len(Append(t, b)) = Len(f.out) + 2
    <3>1. Len(t) = Len(f.out) + 1 /\ Len(Append(t, b)) = Len(t) + 1
      BY <1>1, <1>4, AppendProperties
    <3>. QED BY <3>1, <1>1
  <2>4. Doubled(Len(f.out) + 2, n + 1, FALSE)
    BY <1>1, <1>2, <1>7, Room, Zenon
  <2>5. ASSUME NEW r \in Receivers, ~r.bare, r.inside = ~a
        PROVE  ~HearAll(r, Append(t, b)).bare /\ HearAll(r, Append(t, b)).inside = ~FALSE
    <3>1. HearAll(r, Append(t, b)) = Hear(HearAll(r, t), b) /\ HearAll(r, t) = Hear(HearAll(r, f.out), Flag)
      BY <1>1, <1>4, HearAppend, Zenon
    <3>2. /\ HearAll(r, f.out) \in Receivers /\ ~HearAll(r, f.out).bare
          /\ HearAll(r, f.out).inside = ~f.after_flag
      BY <2>5, <1>3
    <3>3. HearAll(r, t) \in Receivers /\ ~HearAll(r, t).bare /\ HearAll(r, t).inside = ~ ~f.after_flag
      BY <3>1, <3>2, HearFlag, Zenon
    <3>4. HearAll(r, t).inside
      BY <3>3, <1>7
    <3>5. Hear(HearAll(r, t), b) = HearAll(r, t)
      <4>. HIDE DEF t
      <4>. QED BY <3>3, <3>4, <1>7, HearByte, Zenon
    <3>. QED BY <3>1, <3>3, <3>4, <3>5
  <2>. HIDE DEF t
  <2>. QED BY <1>7, <2>1, <2>2, <2>3, <2>4, <2>5, Zenon DEF Faithful, Doubled
<1>. QED BY <1>1, <1>5, <1>6, <1>7

LEMMA FilterFaithful ==
  ASSUME NEW a \in BOOLEAN, NEW src \in Seq(Bytes)
  PROVE  Filter(a, src) \in States /\ Faithful(a, Filter(a, src), Len(src), Plain(src))
<1>1. PICK g \in [0..Len(src) -> States] :
        IsFold(g, [after_flag |-> a, out |-> << >>], Putting, src) /\ Filter(a, src) = g[Len(src)]
  BY FilterIsFold, Zenon
<1>2. PICK k \in [0..Len(src) -> Seq(Bytes)] : IsFold(k, << >>, Keeping, src) /\ Plain(src) = k[Len(src)]
  BY PlainIsFold, Zenon
<1>3. Len(src) \in Nat /\ \A n \in 1..Len(src) : src[n] \in Bytes
  BY LenProperties, ElementOfSeq
<1>4. g[0] = [after_flag |-> a, out |-> << >>] /\ \A n \in 1..Len(src) : g[n] = Putting[<<g[n - 1], src[n]>>]
  BY <1>1, <1>3, FoldValues
<1>5. k[0] = << >> /\ \A n \in 1..Len(src) : k[n] = Keeping[<<k[n - 1], src[n]>>]
  BY <1>2, <1>3, FoldValues
<1>. DEFINE G == {n \in 0..Len(src) : Faithful(a, g[n], n, k[n])}
<1>6. 0 \in G
  <2>1. g[0].out = << >> /\ g[0].after_flag = a /\ k[0] = << >>
    BY <1>4, <1>5
  <2>2. Plain(g[0].out) = k[0] /\ \A r \in Receivers : HearAll(r, g[0].out) = r
    BY <2>1, PlainEmpty, HearEmpty, Zenon
  <2>3. 2 * Len(g[0].out) <= 3 * 0 + (IF g[0].after_flag THEN 0 ELSE 1)
    <3>1. PICK e : e = g[0].out
      OBVIOUS
    <3>2. Len(e) = 0
      BY <2>1, <3>1
    <3>. QED BY <3>1, <3>2
  <2>4. Faithful(a, g[0], 0, k[0])
    BY <2>1, <2>2, <2>3, Zenon DEF Faithful
  <2>. QED BY <1>3, <2>4
<1>7. ASSUME NEW n \in 0..(Len(src) - 1), n \in G PROVE n + 1 \in G
  <2>1. n \in Nat /\ n \in 0..Len(src) /\ n + 1 \in 1..Len(src) /\ (n + 1) - 1 = n /\ n + 1 \in 0..Len(src)
    BY <1>3
  <2>2. g[n] \in States /\ k[n] \in Seq(Bytes) /\ src[n + 1] \in Bytes
    BY <1>1, <1>2, <1>3, <2>1, Zenon
  <2>3. g[n + 1] = Putting[<<g[n], src[n + 1]>>] /\ k[n + 1] = Keeping[<<k[n], src[n + 1]>>]
    BY <1>4, <1>5, <2>1
  <2>4. g[n + 1] = Put(g[n], src[n + 1])
    BY <2>2, <2>3 DEF Putting
  <2>5. k[n + 1] = IF src[n + 1] = Flag THEN k[n] ELSE Append(k[n], src[n + 1])
    BY <2>2, <2>3 DEF Keeping
  <2>6. Faithful(a, g[n], n, k[n])
    BY <1>7
  <2>7. Faithful(a, g[n + 1], n + 1, k[n + 1])
    BY <2>1, <2>2, <2>4, <2>5, <2>6, FaithfulPut, Zenon
  <2>. QED BY <2>1, <2>7
<1>8. \A n \in 0..Len(src) : n \in G
  <2>. HIDE DEF G
  <2>. QED BY <1>3, <1>6, <1>7, Inductive, Zenon
<1>9. Len(src) \in 0..Len(src)
  BY <1>3
<1>10. Faithful(a, g[Len(src)], Len(src), k[Len(src)]) /\ g[Len(src)] \in States
  BY <1>1, <1>8, <1>9
<1>. QED BY <1>1, <1>2, <1>10

\* Before PPP has begun, text without a flag passes and leaves the receiver alone.
LEMMA HearText ==
  ASSUME NEW r \in Receivers, ~r.bare, ~r.ppp, NEW s \in Seq(Bytes), \A i \in DOMAIN s : s[i] # Flag
  PROVE  HearAll(r, s) = r
<1>1. PICK g \in [0..Len(s) -> Receivers] : IsFold(g, r, Hearing, s) /\ HearAll(r, s) = g[Len(s)]
  BY HearAllIsFold, Zenon
<1>2. Len(s) \in Nat /\ \A n \in 1..Len(s) : s[n] \in Bytes /\ s[n] # Flag
  BY LenProperties, ElementOfSeq
<1>3. g[0] = r /\ \A n \in 1..Len(s) : g[n] = Hearing[<<g[n - 1], s[n]>>]
  BY <1>1, <1>2, FoldValues
<1>. DEFINE G == {n \in 0..Len(s) : g[n] = r}
<1>4. 0 \in G
  BY <1>2, <1>3
<1>5. ASSUME NEW n \in 0..(Len(s) - 1), n \in G PROVE n + 1 \in G
  <2>1. n + 1 \in 1..Len(s) /\ (n + 1) - 1 = n /\ n + 1 \in 0..Len(s) /\ g[n] = r
    BY <1>2, <1>5
  <2>2. g[n + 1] = Hearing[<<r, s[n + 1]>>] /\ s[n + 1] \in Bytes /\ s[n + 1] # Flag
    BY <1>2, <1>3, <2>1
  <2>3. g[n + 1] = Hear(r, s[n + 1])
    BY <2>2 DEF Hearing
  <2>4. g[n + 1] = r
    BY <2>2, <2>3, HearByte
  <2>. QED BY <2>1, <2>4
<1>6. \A n \in 0..Len(s) : n \in G
  <2>. HIDE DEF G
  <2>. QED BY <1>2, <1>4, <1>5, Inductive, Zenon
<1>. QED BY <1>1, <1>2, <1>6

-----------------------------------------------------------------------------
Filters == [ppp_mode : BOOLEAN, after_flag : BOOLEAN]

Whole(text, bytes) == Plain(bytes) = Plain(text) /\ Len(bytes) <= Needed(text)

\* As long as no Write has failed, the receiver is inside a frame exactly when the
\* filter is.
InStep == receiver.inside = ~filter.after_flag

Frame ==
  /\ filter \in Filters /\ receiver \in Receivers /\ ~receiver.bare
  /\ ~filter.ppp_mode => filter.after_flag
  /\ receiver.ppp => filter.ppp_mode
  /\ call.op \in {"none", "Open"} \/ (call.op = "Write" /\ call.result = "returned") => InStep
  /\ Whole(wire.text, wire.bytes)

LEMMA WholeRoom ==
  ASSUME NEW x \in Nat, NEW n \in Nat, NEW a \in BOOLEAN, Doubled(x, n, a) \/ x = n
  PROVE  x <= (n \div 2) * 3 + 4
<1>1. PICK q \in Nat : q = n \div 2
  OBVIOUS
<1>2. n = 2 * q \/ n = 2 * q + 1
  BY <1>1
<1>3. 2 * x <= 3 * n + 1
  BY DEF Doubled
<1>4. 2 * x <= 6 * q + 4
  BY <1>2, <1>3
<1>. QED BY <1>1, <1>4

LEMMA WholeNothing == Whole(<< >>, << >>)
<1>1. PICK e : e = << >>
  OBVIOUS
<1>2. Len(e) = 0
  BY <1>1
<1>3. Len(e) <= Needed(e)
  BY <1>2 DEF Needed
<1>. QED BY <1>1, <1>3 DEF Whole

Attuned(f, r) ==
  /\ f \in Filters /\ r \in Receivers /\ ~r.bare
  /\ ~f.ppp_mode => f.after_flag
  /\ r.ppp => f.ppp_mode
  /\ r.inside = ~f.after_flag

Begun(f, text) == f.ppp_mode \/ Head(text) = Flag \/ \A i \in DOMAIN text : text[i] # Flag

LEMMA FrameWrites ==
  ASSUME NEW f, NEW r, NEW text \in Seq(Bytes), NEW w,
         w = FilterWrite(f, text), Attuned(f, r), Begun(f, text)
  PROVE  /\ Attuned(w.filter, HearAll(r, w.out)) /\ Whole(text, w.out)
         /\ f.ppp_mode => w.filter.ppp_mode
<1>0. Len(text) \in Nat /\ f \in Filters /\ r \in Receivers /\ ~r.bare
      /\ (~f.ppp_mode => f.after_flag) /\ (r.ppp => f.ppp_mode) /\ r.inside = ~f.after_flag
      /\ (f.ppp_mode \/ Head(text) = Flag \/ \A i \in DOMAIN text : text[i] # Flag)
  BY LenProperties DEF Attuned, Begun
<1>1. CASE f.ppp_mode \/ Head(text) = Flag
  <2>1. PICK p : p = Filter(f.after_flag, text)
    OBVIOUS
  <2>2. w = [filter |-> [ppp_mode |-> TRUE, after_flag |-> p.after_flag], out |-> p.out]
    BY <1>1, <2>1, Zenon DEF FilterWrite
  <2>3. f.after_flag \in BOOLEAN
    BY <1>0 DEF Filters
  <2>4. p \in States /\ Faithful(f.after_flag, p, Len(text), Plain(text))
    BY <2>1, <2>3, FilterFaithful, Zenon
  <2>5. p.after_flag \in BOOLEAN /\ p.out \in Seq(Bytes) /\ Len(p.out) \in Nat
    BY <2>4, LenProperties DEF States
  <2>6. HearAll(r, p.out) \in Receivers /\ ~HearAll(r, p.out).bare /\ HearAll(r, p.out).inside = ~p.after_flag
    BY <1>0, <2>4, <2>5, HearAllTyped, Zenon DEF Faithful
  <2>7. Whole(text, p.out)
    <3>1. Plain(p.out) = Plain(text) /\ Doubled(Len(p.out), Len(text), p.after_flag)
      BY <2>4, Zenon DEF Faithful, Doubled
    <3>2. Len(p.out) <= (Len(text) \div 2) * 3 + 4
      BY <1>0, <2>5, <3>1, WholeRoom, Zenon
    <3>. QED BY <3>1, <3>2, Zenon DEF Whole, Needed
  <2>8. w.filter = [ppp_mode |-> TRUE, after_flag |-> p.after_flag] /\ w.out = p.out
    BY <2>2
  <2>9. w.filter \in Filters /\ w.filter.ppp_mode /\ w.filter.after_flag = p.after_flag
    BY <2>5, <2>8 DEF Filters
  <2>. QED BY <1>0, <2>6, <2>7, <2>8, <2>9 DEF Attuned
<1>2. CASE ~(f.ppp_mode \/ Head(text) = Flag)
  <2>1. w.filter = f /\ w.out = text
    BY <1>2 DEF FilterWrite
  <2>2. ~r.ppp /\ \A i \in DOMAIN text : text[i] # Flag
    BY <1>0, <1>2
  <2>3. HearAll(r, text) = r
    BY <1>0, <2>2, HearText, Zenon
  <2>4. Len(text) <= (Len(text) \div 2) * 3 + 4
    BY <1>0, WholeRoom
  <2>5. Whole(text, text)
    BY <2>4, Zenon DEF Whole, Needed
  <2>. QED BY <1>2, <2>1, <2>2, <2>3, <2>5
<1>. QED BY <1>1, <1>2

\* A step that does not touch the framing, and neither begins nor continues a Write.
LEMMA FrameSame ==
  ASSUME Frame, UNCHANGED <<filter, wire, receiver>>,
         call'.op \in {"none", "Open"} => call.op \in {"none", "Open"},
         call'.op = "Write" => call.op = "Write" /\ call'.result = call.result
  PROVE  Frame'
BY DEF Frame, InStep

\* The steps of a call that has begun; Write is over when it has begun.
LEMMA Ongoing ==
  ASSUME TInv,
         \/ SendCommand \/ SendSessionKey \/ spawn \/ close_response \/ join \/ timeout \/ usb_error
         \/ ignored_response \/ start_response \/ password_response \/ restart_response \/ at_response
  PROVE  call.op # "Write" /\ call'.op = call.op /\ UNCHANGED <<filter, wire, receiver>>
<1>0. call \in Calls
  BY DEF TInv, Typed
<1>1. ASSUME call.pc # "idle" PROVE call.op # "Write"
  BY <1>0, <1>1 DEF TInv, Control, Calls
<1>2. ASSUME NEW result \in {"returned", "BadPassword", "Error", "Timeout"}, Return(result) PROVE call'.op = call.op
  BY <1>0, <1>2, Returning
<1>3. ASSUME NEW pc, Goto(pc) PROVE call'.op = call.op
  BY <1>0, <1>3 DEF Goto, Calls
<1>4. ASSUME NEW p, call' = [call EXCEPT !.pc = "key", !.answer = p] PROVE call'.op = call.op
  BY <1>0, <1>4 DEF Calls
<1>5. ASSUME NEW seed, NEW back, SendPassword(seed, back) PROVE call'.op = call.op
  <2>1. ASSUME call' = [call EXCEPT !.pc = "hash", !.seed = seed, !.back = back] PROVE call'.op = call.op
    BY <1>0, <2>1 DEF Calls
  <2>. QED BY <1>2, <1>5, <2>1 DEF SendPassword
<1>6. ASSUME NEW p, CheckVerdict(p) PROVE call'.op = call.op
  <2>1. ASSUME call' = [call EXCEPT !.pc = call.back, !.back = "idle"] PROVE call'.op = call.op
    BY <1>0, <2>1 DEF Calls
  <2>. QED BY <1>2, <1>6, <2>1 DEF CheckVerdict
<1>7. CASE SendCommand
  BY <1>1, <1>3, <1>7 DEF SendCommand, Commands, Quiet, pppVars
<1>8. CASE SendSessionKey
  BY <1>1, <1>3, <1>5, <1>8 DEF SendSessionKey, Quiet, pppVars
<1>9. CASE spawn
  BY <1>1, <1>2, <1>9 DEF spawn, pppVars
<1>10. ASSUME StopThread PROVE call'.op = call.op
  BY <1>2, <1>3, <1>10 DEF StopThread
<1>11. CASE close_response
  BY <1>1, <1>10, <1>11 DEF close_response, pppVars
<1>12. CASE join
  BY <1>1, <1>2, <1>12 DEF join, pppVars
<1>13. CASE timeout
  <2>1. call.pc # "idle" /\ UNCHANGED <<filter, wire, receiver>>
    BY <1>13 DEF timeout, Waiting, pppVars
  <2>. QED BY <1>1, <1>2, <1>3, <1>10, <1>13, <2>1 DEF timeout
<1>14. CASE usb_error
  <2>1. call.pc # "idle" /\ UNCHANGED <<filter, wire, receiver>>
    BY <1>14 DEF usb_error, Writing, Waiting, pppVars
  <2>. QED BY <1>1, <1>2, <1>14, <2>1 DEF usb_error
<1>15. Receive => UNCHANGED <<filter, wire, receiver>>
  BY DEF Receive, pppVars
<1>16. CASE ignored_response
  BY <1>1, <1>3, <1>15, <1>16 DEF ignored_response
<1>17. CASE start_response
  <2>1. call.pc = "start_wait" /\ Receive
    BY <1>17 DEF start_response
  <2>2. \/ Return("BadPassword") \/ SendPassword(Head(up).seed, "restart")
        \/ call' = [call EXCEPT !.pc = "key", !.answer = Head(up)]
    BY <1>17 DEF start_response
  <2>3. CASE Return("BadPassword")
    BY <1>1, <1>2, <1>15, <2>1, <2>3
  <2>4. CASE SendPassword(Head(up).seed, "restart")
    BY <1>1, <1>5, <1>15, <2>1, <2>4
  <2>5. CASE call' = [call EXCEPT !.pc = "key", !.answer = Head(up)]
    BY <1>1, <1>4, <1>15, <2>1, <2>5
  <2>. QED BY <2>2, <2>3, <2>4, <2>5
<1>18. CASE password_response
  BY <1>1, <1>3, <1>6, <1>15, <1>18 DEF password_response
<1>19. CASE restart_response
  BY <1>1, <1>4, <1>15, <1>19 DEF restart_response
<1>20. CASE at_response
  BY <1>1, <1>2, <1>3, <1>5, <1>15, <1>20 DEF at_response
<1>. QED BY <1>7, <1>8, <1>9, <1>11, <1>12, <1>13, <1>14, <1>16, <1>17, <1>18, <1>19, <1>20

LEMMA FrameWrite == ASSUME TInv, Frame, NEW text \in Chunks, Write(text) PROVE Frame'
<1>0. call \in Calls /\ text \in Seq(Bytes) /\ text # << >>
  BY IpModemAssumption DEF TInv, Typed
<1>1. PICK w : w = FilterWrite(filter, text)
  OBVIOUS
<1>2. call.op \in {"Open", "Write"} /\ call.result = "returned" /\ Dialling(text) /\ filter' = w.filter
  BY <1>1, Zenon DEF Write
<1>3. \/ /\ wire' = [text |-> text, bytes |-> w.out] /\ receiver' = HearAll(receiver, w.out)
         /\ call' = [call EXCEPT !.op = "Write"]
      \/ UNCHANGED <<wire, receiver>> /\ call' = [call EXCEPT !.op = "Write", !.result = "Error"]
  BY <1>1, Zenon DEF Write
<1>4. Attuned(filter, receiver) /\ Whole(wire.text, wire.bytes)
  BY <1>2 DEF Frame, InStep, Attuned
<1>5. Begun(filter, text)
  BY <1>2 DEF Dialling, Begun
<1>6. /\ Attuned(w.filter, HearAll(receiver, w.out)) /\ Whole(text, w.out)
      /\ filter.ppp_mode => w.filter.ppp_mode
  BY <1>0, <1>1, <1>4, <1>5, FrameWrites, Zenon
<1>7. CASE /\ wire' = [text |-> text, bytes |-> w.out] /\ receiver' = HearAll(receiver, w.out)
           /\ call' = [call EXCEPT !.op = "Write"]
  <2>1. wire'.text = text /\ wire'.bytes = w.out
    BY <1>7
  <2>2. Whole(wire'.text, wire'.bytes)
    BY <1>6, <2>1, Zenon
  <2>a. Attuned(filter', receiver')
    BY <1>2, <1>6, <1>7, Zenon
  <2>3. filter' \in Filters /\ receiver' \in Receivers /\ ~receiver'.bare
        /\ (~filter'.ppp_mode => filter'.after_flag) /\ (receiver'.ppp => filter'.ppp_mode)
        /\ receiver'.inside = ~filter'.after_flag
    BY <2>a, Zenon DEF Attuned
  <2>4. InStep'
    BY <2>3 DEF InStep
  <2>. QED BY <2>2, <2>3, <2>4, Zenon DEF Frame
<1>8. CASE UNCHANGED <<wire, receiver>> /\ call' = [call EXCEPT !.op = "Write", !.result = "Error"]
  <2>1. call'.op = "Write" /\ call'.result = "Error"
    BY <1>0, <1>8 DEF Calls
  <2>2. filter' \in Filters /\ (~filter'.ppp_mode => filter'.after_flag) /\ (filter.ppp_mode => filter'.ppp_mode)
    BY <1>2, <1>6, Zenon DEF Attuned
  <2>. QED BY <1>4, <1>8, <2>1, <2>2 DEF Frame, Attuned
<1>. QED BY <1>3, <1>7, <1>8

LEMMA FrameStep == TInv /\ Frame /\ [Next]_vars => Frame'
<1> SUFFICES ASSUME TInv, Frame, [Next]_vars PROVE Frame'
  OBVIOUS
<1>0. call \in Calls
  BY DEF TInv, Typed
<1>1. ASSUME NEW password \in Passwords, Open(password) PROVE Frame'
  <2>1. call.op \in {"none", "Open"} /\ call' = [call EXCEPT !.op = "Open", !.pc = "stop", !.password = password]
        /\ UNCHANGED <<filter, wire, receiver>>
    BY <1>1 DEF Open, Quiet, pppVars
  <2>2. call'.op = "Open"
    BY <1>0, <2>1 DEF Calls
  <2>. QED BY <2>1, <2>2, FrameSame
<1>2. ASSUME NEW op \in {"Close", "Destroy"}, Close(op) PROVE Frame'
  <2>1. call' = [call EXCEPT !.op = op, !.pc = "end"] /\ wire' = [text |-> << >>, bytes |-> << >>]
        /\ UNCHANGED <<filter, receiver>>
    BY <1>2 DEF Close
  <2>2. call'.op = op /\ wire'.text = << >> /\ wire'.bytes = << >>
    BY <1>0, <2>1 DEF Calls
  <2>3. Whole(wire'.text, wire'.bytes)
    BY <2>2, WholeNothing, Zenon
  <2>. QED BY <2>1, <2>2, <2>3 DEF Frame
<1>3. Caller => Frame'
  <2>1. ASSUME \/ SendCommand \/ SendSessionKey \/ spawn \/ close_response \/ join \/ timeout \/ usb_error
               \/ ignored_response \/ start_response \/ password_response \/ restart_response \/ at_response
        PROVE  Frame'
    <3>1. call.op # "Write" /\ call'.op = call.op /\ UNCHANGED <<filter, wire, receiver>>
      BY <2>1, Ongoing
    <3>. QED BY <3>1, FrameSame
  <2>. QED BY <1>1, <1>2, <2>1, FrameWrite DEF Caller, Destroy
<1>4. ASSUME DataReadThread \/ Device \/ UNCHANGED vars PROVE Frame'
  <2>1. UNCHANGED <<call, filter, wire, receiver>>
    BY <1>4 DEF DataReadThread, reader_tests, reader_reads, reader_gets_nothing, callback, Device,
                device_answers, device_connects, device_judges, device_sends, Take, vars, pppVars
  <2>. QED BY <2>1, FrameSame
<1>. QED BY <1>3, <1>4 DEF Next, finished

LEMMA FrameInit == Init => Frame
<1> SUFFICES ASSUME Init PROVE Frame
  OBVIOUS
<1>1. filter \in Filters /\ filter.after_flag = TRUE /\ receiver \in Receivers /\ ~receiver.bare /\ ~receiver.ppp
      /\ InStep
  BY DEF Init, NewFilter, Filters, Receivers, InStep
<1>2. wire.text = << >> /\ wire.bytes = << >>
  BY DEF Init
<1>3. Whole(wire.text, wire.bytes)
  BY <1>2, WholeNothing, Zenon
<1>. QED BY <1>1, <1>3 DEF Frame

\* The filter inserts "missing 0x7e characters wherever they are detected": however
\* pppd cuts its stream into buffers, and of whatever length, every byte of PPP reaches
\* the device between two flags of its own frame, the filter adds nothing but flags, and
\* what it makes of a buffer fits into the room it reserves.
THEOREM FramedAlways == Spec => []Framed
<1>1. Frame => Framed
  BY Zenon DEF Frame, Framed, Whole
<1>. QED BY <1>1, FrameInit, TypeInit, FrameStep, TypeStep, PTL DEF Spec
=============================================================================
