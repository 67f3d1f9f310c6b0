-------------------------- MODULE DebugServer_proof --------------------------
(***************************************************************************)
(* The debug server for any debuggers, requests, messages, threads and     *)
(* modules: the types, which rest on the commands each part of the server  *)
(* still has to send, and then what is on the wires while nothing has gone *)
(* wrong outside the server.                                               *)
(***************************************************************************)
EXTENDS DebugServer, SequenceTheorems, TLAPS

Pcs == {"accept", "attach", "hello", "run", "wait", "status", "command", "detach", "aborted"}
Ats == {"idle", "send", "sequence", "packet", "more", "status", "data", "closing"}
Servers == [pc : Pcs, fd : Debuggers \cup {Nobody}, running : BOOLEAN, request : Requests \cup {"none"}, open : BOOLEAN]
Calls == [todo : Seq(Commands), at : Ats, expect : Nat, offset : Nat]
Orders == [name : Commands, offset : Nat]
Packets == [kind : {"handshake", "size", "data", "closed"}, n : Nat, value : Nat]
Machines == [running : BOOLEAN, owes : BOOLEAN]
Connections == [Debuggers -> [end : {"none", "open", "closed", "reset"},
                              inbox : Requests \cup {"nothing", "Hello", "Other", "several"}, spoke : BOOLEAN]]

Outside ==
  /\ connection \in Connections /\ backlog \in Seq(Debuggers) /\ messages \in 0..MaxMessages
  /\ trouble \subseteq {"crossed", "failed", "reset"}

Typed ==
  /\ server \in Servers /\ call \in Calls /\ down \in Seq(Orders) /\ up \in Seq(Packets)
  /\ machine \in Machines /\ Outside

-----------------------------------------------------------------------------
\* What is left to do of each script: the end of an attachment, in which a Close comes
\* before an Open; that of a Resume or a Suspend; that of a list of threads, in which
\* the first question about a thread is not the last.
Preparing == {"Unknown06", "Unknown07", "Unknown08", "Unknown09", "Unknown10"}
Attaching(todo) ==
  \A i \in 1..Len(todo) :
    /\ todo[i] \in {"Close", "Open", "GetModulesList"} \cup Attached
    /\ todo[i] = "Close" => i < Len(todo) /\ todo[i + 1] = "Open"
Opens(todo) == \E i \in 1..Len(todo) : todo[i] = "Open"
Leading(todo, last) ==
  \A i \in 1..Len(todo) : (i = Len(todo) /\ todo[i] = last) \/ (i < Len(todo) /\ todo[i] \in Preparing)
Threading(todo) ==
  \A i \in 1..Len(todo) :
    /\ todo[i] \in OfAThread \cup {"GetThreadsList"}
    /\ todo[i] = "Unknown11" => i < Len(todo)

\* What a server may have to do, and that it has a debugger and the mode its socket.
Scripts(s, todo) ==
  /\ s.request = "Resume" => Leading(todo, "Go")
  /\ s.request = "Suspend" => Leading(todo, "Stop")
  /\ s.request \notin {"Resume", "Suspend"} => Threading(todo)
Form(s, todo) ==
  /\ s.pc \in {"accept", "hello", "wait"} => todo = <<>>
  /\ s.pc = "attach" => Attaching(todo) /\ (s.open \/ Opens(todo))
  /\ s.pc = "run" => todo \in {<<>>, <<"GetConsoleMessage">>, <<"GetStatus">>}
  /\ s.pc = "status" => todo = <<"GetStatus">>
  /\ s.pc = "command" => Scripts(s, todo)
  /\ s.pc = "detach" => todo \in {<<>>, <<"Close">>}
  /\ s.pc \in {"attach", "hello", "run", "wait", "status", "command"} => s.fd \in Debuggers
  /\ s.pc \in {"hello", "run", "wait", "status", "command"} => s.open

\* Where a call is, and in which command.
Place(s, c) ==
  /\ c.at = "idle" <=> c.todo = <<>>
  /\ c.at = "sequence" => Head(c.todo) = "Open" /\ (s.pc = "aborted" \/ s.open)
  /\ c.at = "closing" => Head(c.todo) = "Close"
  /\ c.at \in {"packet", "more", "data"} => Head(c.todo) \notin {"Open", "Close"}
  /\ c.at = "more" => Head(c.todo) \in {"Go", "Stop"}
  /\ c.at = "status" => s.pc \in {"status", "aborted"}
  /\ s.pc = "status" => c.at \in {"status", "data"}

TInv ==
  /\ Typed /\ Place(server, call)
  /\ server.pc # "aborted" => Form(server, call.todo)

LEMMA TypeParts == TInv => TypeOK
<1>. SUFFICES ASSUME TInv  PROVE TypeOK
  OBVIOUS
<1>1. server.pc \in {"hello", "run", "wait", "status", "command"} => server.fd # Nobody /\ server.open
  BY DebuggersAssumption DEF TInv, Form
<1>2. (call.at = "idle") = (call.todo = <<>>)
  BY DEF TInv, Place
<1>3. Typed
  BY DEF TInv
<1>. QED
  BY <1>1, <1>2, <1>3 DEF Typed, TypeOK, Servers, Calls, Orders, Machines, Connections, Outside, Pcs, Ats

-----------------------------------------------------------------------------
\* Short sequences.
LEMMA One ==
  ASSUME NEW e
  PROVE  Len(<<e>>) = 1 /\ Head(<<e>>) = e /\ Tail(<<e>>) = <<>> /\ <<e>> # <<>> /\ <<e>>[1] = e
OBVIOUS

LEMMA Two ==
  ASSUME NEW e, NEW f
  PROVE  Len(<<e, f>>) = 2 /\ Head(<<e, f>>) = e /\ Tail(<<e, f>>) = <<f>> /\ <<e, f>> # <<>>
OBVIOUS

LEMMA Three ==
  ASSUME NEW e, NEW f, NEW g
  PROVE  Len(<<e, f, g>>) = 3 /\ Head(<<e, f, g>>) = e /\ Tail(<<e, f, g>>) = <<f, g>> /\ <<e, f, g>> # <<>>
OBVIOUS

LEMMA None == Len(<<>>) = 0 /\ \A S : <<>> \in Seq(S)
OBVIOUS

\* What is left of a script.
LEMMA Rests ==
  ASSUME NEW S, NEW s \in Seq(S), s # <<>>
  PROVE  /\ Tail(s) \in Seq(S) /\ Head(s) \in S /\ Len(s) \in Nat \ {0} /\ Len(Tail(s)) = Len(s) - 1
         /\ Head(s) = s[1] /\ \A i \in 1..Len(Tail(s)) : Tail(s)[i] = s[i + 1] /\ i + 1 \in 1..Len(s)
<1>1. Tail(s) \in Seq(S) /\ Head(s) \in S /\ Len(Tail(s)) = Len(s) - 1 /\ Head(s) = s[1] /\ Len(s) \in Nat \ {0}
  BY HeadTailProperties, EmptySeq
<1>2. \A i \in 1..Len(s) - 1 : Tail(s)[i] = s[i + 1]
  BY <1>1, HeadTailProperties
<1>. QED
  BY <1>1, <1>2

\* A packet before others.
LEMMA Before ==
  ASSUME NEW S, NEW e \in S, NEW s \in Seq(S)
  PROVE  <<e>> \o s \in Seq(S) /\ <<e>> \o s # <<>> /\ Head(<<e>> \o s) = e /\ Tail(<<e>> \o s) = s
<1>1. <<e>> \in Seq(S) /\ Len(<<e>>) = 1 /\ <<e>>[1] = e
  OBVIOUS
<1>2. PICK t : t = <<e>> \o s
  OBVIOUS
<1>3. t \in Seq(S) /\ Len(t) = 1 + Len(s) /\ t[1] = e /\ \A i \in 1..Len(s) : t[i + 1] = s[i]
  BY <1>1, <1>2
<1>4. t # <<>>
  BY <1>3, None
<1>5. Tail(t) \in Seq(S) /\ Len(Tail(t)) = Len(s) /\ Head(t) = e /\ \A i \in 1..Len(s) : Tail(t)[i] = s[i]
  BY <1>3, <1>4, Rests
<1>6. Tail(t) = s
  BY <1>5, SeqEqual
<1>. QED
  BY <1>2, <1>3, <1>4, <1>5, <1>6

-----------------------------------------------------------------------------
\* The questions about n threads.
LEMMA ThreadsForm ==
  ASSUME NEW n \in Nat
  PROVE  Threads(n) \in Seq(Commands) /\ Threading(Threads(n))
<1>1. PICK t : t = Threads(n)
  OBVIOUS
<1>2. Thread[1] = "Unknown11" /\ Thread[2] = "Unknown12" /\ Thread[3] = "Unknown13" /\ Thread[4] = "Unknown14" /\ Thread[5] = "Unknown15"
  BY DEF Thread
<1>3. ASSUME NEW i \in 1..5 * n
      PROVE  /\ ((i - 1) % 5) + 1 \in 1..5
             /\ i = 5 * n => ((i - 1) % 5) + 1 = 5
  <2>1. i - 1 \in Nat /\ (i - 1) % 5 \in 0..4
    OBVIOUS
  <2>2. ASSUME i = 5 * n  PROVE (i - 1) % 5 = 4
    <3>1. i - 1 = 5 * (n - 1) + 4  BY <2>2
    <3>. QED  BY <3>1
  <2>. QED  BY <2>1, <2>2
<1>4. 5 * n \in Nat
  OBVIOUS
<1>5. \A i \in 1..5 * n : Thread[((i - 1) % 5) + 1] \in OfAThread
  BY <1>3 DEF OfAThread
<1>6. OfAThread \subseteq Commands
  BY DEF Commands
<1>7. t \in Seq(Commands) /\ Len(t) = 5 * n /\ \A i \in 1..5 * n : t[i] = Thread[((i - 1) % 5) + 1]
  BY <1>1, <1>4, <1>5, <1>6 DEF Threads
<1>8. ASSUME NEW i \in 1..5 * n, t[i] = "Unknown11"  PROVE i < 5 * n
  <2>1. i # 5 * n  BY <1>2, <1>3, <1>7, <1>8
  <2>. QED  BY <1>4, <2>1
<1>. QED
  BY <1>1, <1>5, <1>7, <1>8 DEF Threading

-----------------------------------------------------------------------------
\* A call of a script.
LEMMA Running_a_script ==
  ASSUME NEW todo \in Seq(Commands)
  PROVE  /\ Run(todo) \in Calls /\ Run(todo).todo = todo /\ Run(todo).offset = 0
         /\ Run(todo).at = IF todo = <<>> THEN "idle" ELSE "send"
         /\ \A s : s.pc # "status" => Place(s, Run(todo))
<1>1. PICK at : at = IF todo = <<>> THEN "idle" ELSE "send"
  OBVIOUS
<1>2. at \in Ats
  BY <1>1 DEF Ats
<1>3. PICK idle : idle = Idle
  OBVIOUS
<1>4. <<>> \in Seq(Commands) /\ "idle" \in Ats /\ 0 \in Nat
  BY DEF Ats
<1>5. idle \in Calls /\ idle.offset = 0
  BY <1>3, <1>4 DEF Idle, Calls
<1>6. Run(todo) = [idle EXCEPT !.todo = todo, !.at = at]
  BY <1>1, <1>3, Zenon DEF Run
<1>7. PICK c : c = [idle EXCEPT !.todo = todo, !.at = at]
  OBVIOUS
<1>8. c \in Calls /\ c.todo = todo /\ c.at = at /\ c.offset = 0
  BY <1>2, <1>5, <1>7 DEF Calls
<1>9. \A s : s.pc # "status" => Place(s, c)
  BY <1>1, <1>8 DEF Place
<1>. QED
  BY <1>1, <1>6, <1>7, <1>8, <1>9

\* The first command says what the server is at.
LEMMA FormHead ==
  ASSUME NEW s, NEW todo \in Seq(Commands), todo # <<>>, s.pc \in Pcs, s.pc # "aborted", Form(s, todo)
  PROVE  /\ s.pc \in {"attach", "run", "status", "command", "detach"}
         /\ s.pc = "attach" => Head(todo) \in {"Close", "Open", "GetModulesList"} \cup Attached
         /\ s.pc = "run" => Head(todo) \in {"GetConsoleMessage", "GetStatus"} /\ Tail(todo) = <<>>
         /\ s.pc = "status" => Head(todo) = "GetStatus" /\ Tail(todo) = <<>>
         /\ s.pc = "command" =>
              /\ s.request = "Resume" => Head(todo) \in Preparing \cup {"Go"}
              /\ s.request = "Suspend" => Head(todo) \in Preparing \cup {"Stop"}
              /\ s.request \notin {"Resume", "Suspend"} => Head(todo) \in OfAThread \cup {"GetThreadsList"}
         /\ s.pc = "detach" => Head(todo) = "Close" /\ Tail(todo) = <<>>
<1>1. Len(todo) \in Nat \ {0} /\ 1 \in 1..Len(todo) /\ Head(todo) = todo[1]
  BY Rests
<1>2. s.pc \in {"attach", "run", "status", "command", "detach"}
  BY DEF Form, Pcs
<1>3. s.pc = "attach" => Head(todo) \in {"Close", "Open", "GetModulesList"} \cup Attached
  BY <1>1 DEF Form, Attaching
<1>4. s.pc = "run" => Head(todo) \in {"GetConsoleMessage", "GetStatus"} /\ Tail(todo) = <<>>
  <2>1. s.pc = "run" => todo = <<"GetConsoleMessage">> \/ todo = <<"GetStatus">>
    BY DEF Form
  <2>. QED  BY <2>1, One
<1>5. s.pc = "status" => Head(todo) = "GetStatus" /\ Tail(todo) = <<>>
  BY One DEF Form
<1>6. s.pc = "detach" => Head(todo) = "Close" /\ Tail(todo) = <<>>
  BY One DEF Form
<1>7. ASSUME s.pc = "command"
      PROVE  /\ s.request = "Resume" => Head(todo) \in Preparing \cup {"Go"}
             /\ s.request = "Suspend" => Head(todo) \in Preparing \cup {"Stop"}
             /\ s.request \notin {"Resume", "Suspend"} => Head(todo) \in OfAThread \cup {"GetThreadsList"}
  BY <1>1, <1>7 DEF Form, Scripts, Leading, Threading
<1>. QED
  BY <1>2, <1>3, <1>4, <1>5, <1>6, <1>7

\* A script is kept by doing its first command.
LEMMA ThreadingRest ==
  ASSUME NEW todo \in Seq(Commands), todo # <<>>, Threading(todo)
  PROVE  Threading(Tail(todo)) /\ (Head(todo) = "Unknown11" => Tail(todo) # <<>>)
<1>1. PICK r : r = Tail(todo)
  OBVIOUS
<1>2. Len(todo) \in Nat \ {0} /\ Len(r) = Len(todo) - 1 /\ Head(todo) = todo[1] /\ \A i \in 1..Len(r) : r[i] = todo[i + 1] /\ i + 1 \in 1..Len(todo)
  BY <1>1, Rests
<1>3. Threading(r)
  BY <1>2 DEF Threading
<1>4. Head(todo) = "Unknown11" => Len(r) # 0
  BY <1>2 DEF Threading
<1>. QED
  BY <1>1, <1>3, <1>4, None

LEMMA ScriptsRest ==
  ASSUME NEW s, NEW todo \in Seq(Commands), todo # <<>>, Scripts(s, todo)
  PROVE  Scripts(s, Tail(todo))
<1>1. PICK r : r = Tail(todo)
  OBVIOUS
<1>2. Len(todo) \in Nat \ {0} /\ Len(r) = Len(todo) - 1 /\ \A i \in 1..Len(r) : r[i] = todo[i + 1] /\ i + 1 \in 1..Len(todo)
  BY <1>1, Rests
<1>3. \A last : Leading(todo, last) => Leading(r, last)
  BY <1>2 DEF Leading
<1>4. Threading(todo) => Threading(r)
  BY <1>1, ThreadingRest
<1>. QED
  BY <1>1, <1>3, <1>4 DEF Scripts

LEMMA FormRest ==
  ASSUME NEW s, NEW todo \in Seq(Commands), todo # <<>>, s.pc \in Pcs \ {"aborted", "status"}, Form(s, todo),
         Head(todo) # "Close", Head(todo) = "Open" => s.open
  PROVE  Form(s, Tail(todo))
<1>1. PICK r : r = Tail(todo)
  OBVIOUS
<1>2. Len(todo) \in Nat \ {0} /\ Len(r) = Len(todo) - 1 /\ Head(todo) = todo[1] /\ \A i \in 1..Len(r) : r[i] = todo[i + 1] /\ i + 1 \in 1..Len(todo)
  BY <1>1, Rests
<1>3. ASSUME s.pc = "attach"  PROVE Attaching(r) /\ (s.open \/ Opens(r))
  <2>1. Attaching(todo) /\ (s.open \/ Opens(todo))
    BY <1>3 DEF Form
  <2>2. Attaching(r)
    BY <1>2, <2>1 DEF Attaching
  <2>3. ASSUME NEW i \in 1..Len(todo), todo[i] = "Open", ~s.open  PROVE Opens(r)
    <3>1. i # 1
      BY <1>2, <2>3
    <3>2. i - 1 \in 1..Len(r) /\ (i - 1) + 1 = i
      BY <1>2, <3>1
    <3>3. r[i - 1] = "Open"
      BY <1>2, <2>3, <3>2
    <3>. QED  BY <3>2, <3>3 DEF Opens
  <2>. QED  BY <2>1, <2>2, <2>3 DEF Opens
<1>4. s.pc = "command" => Scripts(s, r)
  BY <1>1, ScriptsRest DEF Form
<1>5. s.pc \in {"run", "detach"} => r = <<>>
  BY <1>1, FormHead
<1>6. s.pc \in {"attach", "run", "command", "detach"}
  BY FormHead
<1>. QED
  BY <1>1, <1>3, <1>4, <1>5, <1>6 DEF Form

LEMMA FormClosed ==
  ASSUME NEW s \in Servers, NEW todo \in Seq(Commands), todo # <<>>, s.pc # "aborted", Form(s, todo), Head(todo) = "Close"
  PROVE  Form([s EXCEPT !.open = FALSE], Tail(todo))
<1>1. PICK r : r = Tail(todo)
  OBVIOUS
<1>2. Len(todo) \in Nat \ {0} /\ Len(r) = Len(todo) - 1 /\ Head(todo) = todo[1] /\ \A i \in 1..Len(r) : r[i] = todo[i + 1] /\ i + 1 \in 1..Len(todo)
  BY <1>1, Rests
<1>3. s.pc \in Pcs
  BY DEF Servers
<1>4. s.pc \in {"attach", "detach"}
  BY <1>3, FormHead DEF Attached, OfAThread, Thread, Preparing
<1>5. ASSUME s.pc = "attach"  PROVE Attaching(r) /\ Opens(r)
  <2>1. Attaching(todo)
    BY <1>5 DEF Form
  <2>2. Attaching(r)
    BY <1>2, <2>1 DEF Attaching
  <2>3. 1 < Len(todo) /\ todo[1 + 1] = "Open"
    BY <1>2, <2>1 DEF Attaching
  <2>4. 1 \in 1..Len(r) /\ r[1] = "Open"
    BY <1>2, <2>3
  <2>. QED  BY <2>2, <2>4 DEF Opens
<1>6. s.pc = "detach" => r = <<>>
  BY <1>1, <1>3, FormHead
<1>7. PICK t : t = [s EXCEPT !.open = FALSE]
  OBVIOUS
<1>8. t.pc = s.pc /\ t.fd = s.fd /\ t.request = s.request
  BY <1>7 DEF Servers
<1>9. s.pc = "attach" => s.fd \in Debuggers
  BY DEF Form
<1>. QED
  BY <1>1, <1>4, <1>5, <1>6, <1>7, <1>8, <1>9 DEF Form

-----------------------------------------------------------------------------
\* What is left after an answer, command by command.
LEMMA TodoCases ==
  ASSUME NEW n, NEW value
  PROVE  /\ Command = "GetModulesList" /\ value # 0 => Todo(n, value) = call.todo
         /\ Command = "GetThreadsList" => Todo(n, value) = Threads(value)
         /\ Command \in OfAThread /\ n = 0 => Todo(n, value) = <<>>
         /\ Command = "Unknown11" /\ n # 0 /\ value = 0 => Todo(n, value) = Tail(Rest)
         /\ Command = "GetConsoleMessage" /\ value = 0 => Todo(n, value) = <<"GetStatus">>
         /\ \/ Command = "GetModulesList" /\ value # 0
            \/ Command = "GetThreadsList"
            \/ Command \in OfAThread /\ n = 0
            \/ Command = "Unknown11" /\ n # 0 /\ value = 0
            \/ Command = "GetConsoleMessage" /\ value = 0
            \/ Todo(n, value) = Rest
<1>1. PICK command : command = Command
  OBVIOUS
<1>2. command \in OfAThread => command # "GetModulesList" /\ command # "GetThreadsList" /\ command # "GetConsoleMessage"
  BY DEF OfAThread, Thread
<1>3. "Unknown11" # "GetModulesList" /\ "Unknown11" # "GetThreadsList" /\ "GetThreadsList" # "GetModulesList"
  OBVIOUS
<1>4. "GetConsoleMessage" # "GetModulesList" /\ "GetConsoleMessage" # "GetThreadsList" /\ "GetConsoleMessage" # "Unknown11"
  OBVIOUS
<1>5. command = "GetModulesList" /\ value # 0 => Todo(n, value) = call.todo
  BY <1>1, <1>2, <1>3, <1>4, Zenon DEF Todo
<1>6. command = "GetThreadsList" => Todo(n, value) = Threads(value)
  BY <1>1, <1>2, <1>3, <1>4, Zenon DEF Todo
<1>7. command \in OfAThread /\ n = 0 => Todo(n, value) = <<>>
  BY <1>1, <1>2, <1>3, <1>4, Zenon DEF Todo
<1>8. command = "Unknown11" /\ n # 0 /\ value = 0 => Todo(n, value) = Tail(Rest)
  BY <1>1, <1>2, <1>3, <1>4, Zenon DEF Todo
<1>9. command = "GetConsoleMessage" /\ value = 0 => Todo(n, value) = <<"GetStatus">>
  BY <1>1, <1>2, <1>3, <1>4, Zenon DEF Todo
<1>10. \/ command = "GetModulesList" /\ value # 0
       \/ command = "GetThreadsList"
       \/ command \in OfAThread /\ n = 0
       \/ command = "Unknown11" /\ n # 0 /\ value = 0
       \/ command = "GetConsoleMessage" /\ value = 0
       \/ Todo(n, value) = Rest
  BY <1>1, Zenon DEF Todo
<1>. QED
  BY <1>1, <1>5, <1>6, <1>7, <1>8, <1>9, <1>10

LEMMA TodoForm ==
  ASSUME TInv, call.todo # <<>>, server.pc # "aborted", Command \notin {"Open", "Close"}, NEW n \in Nat, NEW value \in Nat
  PROVE  /\ Todo(n, value) \in Seq(Commands)
         /\ Command # "GetStatus" => server.pc # "status" /\ Form(server, Todo(n, value))
         /\ Command = "GetStatus" => server.pc \in {"run", "status"} /\ Todo(n, value) = <<>>
<1>1. PICK todo : todo = call.todo
  OBVIOUS
<1>2. PICK command : command = Command
  OBVIOUS
<1>3. todo \in Seq(Commands) /\ server.pc \in Pcs /\ Form(server, todo) /\ command = Head(todo) /\ todo # <<>>
  BY <1>1, <1>2 DEF TInv, Typed, Servers, Calls, Command
<1>4. Tail(todo) \in Seq(Commands) /\ command \in Commands
  BY <1>3, Rests
<1>5. /\ server.pc \in {"attach", "run", "status", "command", "detach"}
      /\ server.pc = "attach" => command \in {"Close", "Open", "GetModulesList"} \cup Attached
      /\ server.pc = "run" => command \in {"GetConsoleMessage", "GetStatus"} /\ Tail(todo) = <<>>
      /\ server.pc = "status" => command = "GetStatus" /\ Tail(todo) = <<>>
      /\ server.pc = "command" =>
           /\ server.request = "Resume" => command \in Preparing \cup {"Go"}
           /\ server.request = "Suspend" => command \in Preparing \cup {"Stop"}
           /\ server.request \notin {"Resume", "Suspend"} => command \in OfAThread \cup {"GetThreadsList"}
      /\ server.pc = "detach" => command = "Close"
  <2>1. server.pc # "aborted"
    OBVIOUS
  <2>. QED  BY <1>3, <2>1, FormHead
<1>6. command \in OfAThread \cup {"GetThreadsList"} => server.pc = "command" /\ server.request \notin {"Resume", "Suspend"}
  BY <1>5 DEF OfAThread, Thread, Attached, Preparing
<1>7. command = "GetConsoleMessage" => server.pc = "run"
  BY <1>5 DEF OfAThread, Thread, Attached, Preparing
<1>8. command = "GetStatus" => server.pc \in {"run", "status"}
  BY <1>5 DEF OfAThread, Thread, Attached, Preparing
<1>9. command # "GetStatus" => server.pc # "status"
  BY <1>5
<1>10. ASSUME command # "GetStatus"  PROVE Form(server, Tail(todo))
  <2>1. command # "Close" /\ command # "Open"
    BY <1>2
  <2>2. server.pc \in Pcs \ {"aborted", "status"}
    BY <1>3, <1>9, <1>10
  <2>. QED  BY <1>3, <2>1, <2>2, FormRest
<1>11. ASSUME command = "GetModulesList", value # 0
       PROVE  Todo(n, value) \in Seq(Commands) /\ Form(server, Todo(n, value))
  <2>1. Todo(n, value) = todo
    BY <1>1, <1>2, <1>11, TodoCases
  <2>. QED  BY <1>3, <2>1
<1>12. ASSUME command = "GetThreadsList"
       PROVE  Todo(n, value) \in Seq(Commands) /\ Form(server, Todo(n, value))
  <2>1. PICK t : t = Todo(n, value)
    OBVIOUS
  <2>2. Todo(n, value) = Threads(value)
    BY <1>2, <1>12, TodoCases
  <2>3. t \in Seq(Commands) /\ Threading(t)
    BY <2>1, <2>2, ThreadsForm
  <2>4. server.pc = "command" /\ server.request \notin {"Resume", "Suspend"}
    BY <1>6, <1>12
  <2>5. Form(server, t)
    BY <1>3, <2>3, <2>4 DEF Form, Scripts
  <2>. QED  BY <2>1, <2>3, <2>5
<1>13. ASSUME command \in OfAThread, n = 0
       PROVE  Todo(n, value) \in Seq(Commands) /\ Form(server, Todo(n, value))
  <2>1. PICK t : t = Todo(n, value)
    OBVIOUS
  <2>2. t = <<>>
    BY <2>1, <1>2, <1>13, TodoCases
  <2>3. t \in Seq(Commands) /\ Len(t) = 0
    BY <2>2, None
  <2>4. Threading(t)
    BY <2>3 DEF Threading
  <2>5. server.pc = "command" /\ server.request \notin {"Resume", "Suspend"}
    BY <1>6, <1>13
  <2>6. Form(server, t)
    BY <1>3, <2>4, <2>5 DEF Form, Scripts
  <2>. QED  BY <2>1, <2>3, <2>6
<1>14. ASSUME command = "Unknown11", n # 0, value = 0
       PROVE  Todo(n, value) \in Seq(Commands) /\ Form(server, Todo(n, value))
  <2>1. PICK t : t = Todo(n, value)
    OBVIOUS
  <2>2. t = Tail(Tail(todo))
    BY <2>1, <1>1, <1>2, <1>14, TodoCases DEF Rest
  <2>3. command \in OfAThread
    BY <1>14 DEF OfAThread, Thread
  <2>4. server.pc = "command" /\ server.request \notin {"Resume", "Suspend"}
    BY <1>6, <2>3
  <2>5. Threading(todo)
    BY <1>3, <2>4 DEF Form, Scripts
  <2>6. Threading(Tail(todo)) /\ Tail(todo) # <<>>
    BY <1>3, <1>14, <2>5, ThreadingRest
  <2>7. t \in Seq(Commands) /\ Threading(t)
    BY <1>4, <2>2, <2>6, ThreadingRest, Rests
  <2>8. Form(server, t)
    BY <1>3, <2>4, <2>7 DEF Form, Scripts
  <2>. QED  BY <2>1, <2>7, <2>8
<1>15. ASSUME command = "GetConsoleMessage", value = 0
       PROVE  Todo(n, value) \in Seq(Commands) /\ Form(server, Todo(n, value))
  <2>1. PICK t : t = Todo(n, value)
    OBVIOUS
  <2>2. t = <<"GetStatus">>
    BY <2>1, <1>2, <1>15, TodoCases
  <2>3. "GetStatus" \in Commands
    BY DEF Commands
  <2>4. t \in Seq(Commands)
    BY <2>2, <2>3
  <2>5. server.pc = "run"
    BY <1>7, <1>15
  <2>6. Form(server, t)
    BY <1>3, <2>2, <2>5 DEF Form
  <2>. QED  BY <2>1, <2>4, <2>6
<1>16. ASSUME Todo(n, value) = Rest, command # "GetStatus"
       PROVE  Todo(n, value) \in Seq(Commands) /\ Form(server, Todo(n, value))
  <2>1. Todo(n, value) = Tail(todo)
    BY <1>1, <1>16 DEF Rest
  <2>. QED  BY <1>4, <1>10, <1>16, <2>1
<1>17. ASSUME command = "GetStatus"  PROVE Todo(n, value) = <<>> /\ Todo(n, value) \in Seq(Commands)
  <2>1. command \notin OfAThread
    BY <1>17 DEF OfAThread, Thread
  <2>2. Todo(n, value) = Rest
    BY <1>2, <1>17, <2>1, TodoCases
  <2>3. Tail(todo) = <<>>
    BY <1>5, <1>8, <1>17
  <2>. QED  BY <1>1, <1>4, <2>2, <2>3 DEF Rest
<1>18. command # "GetStatus" => Todo(n, value) \in Seq(Commands) /\ Form(server, Todo(n, value))
  BY <1>2, <1>11, <1>12, <1>13, <1>14, <1>15, <1>16, TodoCases
<1>. QED
  BY <1>2, <1>8, <1>9, <1>17, <1>18

\* What is read of an answer leaves the server with its types and with a script.
Good == /\ server' \in Servers /\ call' \in Calls /\ Place(server, call)'
        /\ server'.pc # "aborted" => Form(server', call'.todo)

LEMMA AnsweredGood ==
  ASSUME TInv, call.todo # <<>>, server.pc # "aborted", Command \notin {"Open", "Close"}, NEW n \in Nat, NEW value \in Nat,
         Answered(n, value)
  PROVE  Good /\ server'.pc # "aborted" /\ server'.running = server.running /\ server'.request = server.request
<1>1. PICK todo : todo = Todo(n, value)
  OBVIOUS
<1>2. /\ todo \in Seq(Commands)
      /\ Command # "GetStatus" => server.pc # "status" /\ Form(server, todo)
      /\ Command = "GetStatus" => server.pc \in {"run", "status"} /\ todo = <<>>
  BY <1>1, TodoForm
<1>3. PICK c : c = Run(todo)
  OBVIOUS
<1>4. /\ c \in Calls /\ c.todo = todo /\ c.offset = 0
      /\ c.at = IF todo = <<>> THEN "idle" ELSE "send"
  BY <1>2, <1>3, Running_a_script
<1>5. PICK offset : offset = IF Command = "GetModulesList" THEN value ELSE 0
  OBVIOUS
<1>6. offset \in Nat
  BY <1>5
<1>7. call' = [c EXCEPT !.offset = offset]
  BY <1>1, <1>3, <1>5 DEF Answered
<1>8. call' \in Calls /\ call'.todo = todo /\ call'.at = c.at
  BY <1>4, <1>6, <1>7 DEF Calls
<1>9. server \in Servers /\ Form(server, call.todo)
  BY DEF TInv, Typed
<1>10. ASSUME Command # "GetStatus"
       PROVE  Good /\ server'.pc # "aborted" /\ server'.running = server.running /\ server'.request = server.request
  <2>1. server' = server
    BY <1>10 DEF Answered
  <2>2. Place(server', call')
    BY <1>2, <1>4, <1>8, <1>10, <2>1 DEF Place
  <2>. QED  BY <1>2, <1>8, <1>9, <1>10, <2>1, <2>2 DEF Good
<1>11. ASSUME Command = "GetStatus"
       PROVE  Good /\ server'.pc # "aborted" /\ server'.running = server.running /\ server'.request = server.request
  <2>1. PICK pc \in {"wait", "run"} : server' = [server EXCEPT !.pc = pc]
    BY <1>11 DEF Answered
  <2>2. /\ server' \in Servers /\ server'.pc = pc /\ server'.fd = server.fd /\ server'.open = server.open
        /\ server'.running = server.running /\ server'.request = server.request
    BY <1>9, <2>1 DEF Servers, Pcs
  <2>3. server.fd \in Debuggers /\ server.open
    BY <1>2, <1>9, <1>11 DEF Form
  <2>4. Form(server', call'.todo)
    BY <1>2, <1>8, <1>11, <2>1, <2>2, <2>3 DEF Form
  <2>5. Place(server', call')
    BY <1>2, <1>4, <1>8, <1>11, <2>1, <2>2 DEF Place
  <2>. QED  BY <1>8, <2>1, <2>2, <2>4, <2>5 DEF Good
<1>. QED
  BY <1>10, <1>11

-----------------------------------------------------------------------------
\* The commands, one step each.
LEMMA GoodStep ==
  ASSUME Good, down' \in Seq(Orders), up' \in Seq(Packets), machine' \in Machines, Outside'
  PROVE  TInv'
BY DEF Good, TInv, Typed

LEMMA TSend ==
  ASSUME TInv, server.pc # "aborted", Send
  PROVE  TInv' /\ call'.at \in {"sequence", "closing", "packet"} /\ call'.todo = call.todo /\ call'.offset = call.offset
         /\ server'.pc = server.pc /\ server'.running = server.running /\ server'.request = server.request
<1>1. call \in Calls /\ server \in Servers /\ Place(server, call) /\ Form(server, call.todo) /\ call.at = "send" /\ down \in Seq(Orders)
  BY DEF TInv, Typed, Send
<1>2. call.todo # <<>> /\ call.todo \in Seq(Commands)
  BY <1>1 DEF Place, Calls
<1>3. Command \in Commands /\ Command = Head(call.todo)
  BY <1>2, Rests DEF Command
<1>4. PICK order : order = [name |-> Command, offset |-> call.offset]
  OBVIOUS
<1>5. order \in Orders
  BY <1>1, <1>3, <1>4 DEF Orders, Calls
<1>6. down' \in Seq(Orders)
  BY <1>1, <1>4, <1>5 DEF Send
<1>7. PICK at : at = CASE Command = "Open" -> "sequence" [] Command = "Close" -> "closing" [] OTHER -> "packet"
  OBVIOUS
<1>8. /\ Command = "Open" => at = "sequence"
      /\ Command = "Close" => at = "closing"
      /\ Command \notin {"Open", "Close"} => at = "packet"
  BY <1>7
<1>9. call' = [call EXCEPT !.at = at]
  BY <1>7, Zenon DEF Send
<1>10. at \in Ats /\ at \in {"sequence", "closing", "packet"}
  BY <1>8 DEF Ats
<1>11. call' \in Calls /\ call'.todo = call.todo /\ call'.at = at /\ call'.offset = call.offset
  BY <1>1, <1>9, <1>10 DEF Calls
<1>12. PICK open : open = (server.open \/ Command = "Open")
  OBVIOUS
<1>13. server' = [server EXCEPT !.open = open]
  BY <1>12, Zenon DEF Send
<1>14. open \in BOOLEAN /\ (server.open => open) /\ (Command = "Open" => open)
  BY <1>12, Zenon
<1>15. /\ server' \in Servers /\ server'.pc = server.pc /\ server'.fd = server.fd /\ server'.open = open
       /\ server'.running = server.running /\ server'.request = server.request
  BY <1>1, <1>13, <1>14 DEF Servers
<1>16. Form(server', call'.todo)
  BY <1>1, <1>11, <1>14, <1>15 DEF Form, Scripts
<1>17. Place(server', call')
  BY <1>1, <1>2, <1>3, <1>8, <1>10, <1>11, <1>14, <1>15 DEF Place
<1>18. Good
  BY <1>11, <1>15, <1>16, <1>17 DEF Good
<1>19. up' \in Seq(Packets) /\ machine' \in Machines /\ Outside'
  BY DEF TInv, Typed, Send, Outside, sockets
<1>20. TInv'
  BY <1>6, <1>18, <1>19, GoodStep
<1>. QED
  BY <1>10, <1>11, <1>15, <1>20

\* A packet is read; nothing else outside the server and its call changes.
Reading == up # <<>> /\ up' = Tail(up) /\ UNCHANGED <<down, machine, sockets, trouble>>

LEMMA ReadStep ==
  ASSUME TInv, Reading, Good
  PROVE  TInv'
<1>1. up' \in Seq(Packets)
  BY Rests DEF TInv, Typed, Reading
<1>2. down' \in Seq(Orders) /\ machine' \in Machines /\ Outside'
  BY DEF TInv, Typed, Reading, Outside, sockets
<1>. QED
  BY <1>1, <1>2, GoodStep

LEMMA TypedReply ==
  ASSUME TInv, up # <<>>
  PROVE  Reply \in Packets /\ Reply.n \in Nat /\ Reply.value \in Nat
<1>1. Reply \in Packets
  BY Rests DEF TInv, Typed, Reply
<1>. QED
  BY <1>1 DEF Packets

\* A command is over and had no answer to look at.
LEMMA RestGood ==
  ASSUME TInv, call.todo # <<>>, server.pc \notin {"aborted", "status"}, Command # "Close", Command = "Open" => server.open,
         call' = Run(Rest), server' = server
  PROVE  Good
<1>1. call \in Calls /\ server \in Servers /\ Form(server, call.todo)
  BY DEF TInv, Typed
<1>2. PICK todo : todo = Rest
  OBVIOUS
<1>3. call.todo \in Seq(Commands) /\ server.pc \in Pcs \ {"aborted", "status"}
  BY <1>1 DEF Calls, Servers
<1>4. todo \in Seq(Commands)
  BY <1>2, <1>3, Rests DEF Rest
<1>5. Form(server, todo)
  BY <1>1, <1>2, <1>3, FormRest DEF Rest, Command
<1>6. PICK c : c = Run(todo)
  OBVIOUS
<1>7. c \in Calls /\ c.todo = todo /\ \A s : s.pc # "status" => Place(s, c)
  BY <1>4, <1>6, Running_a_script
<1>8. Place(server, c)
  BY <1>7
<1>. QED
  BY <1>1, <1>2, <1>5, <1>6, <1>7, <1>8 DEF Good

LEMMA Tsequence_handshake ==
  ASSUME TInv, server.pc # "aborted", sequence_handshake
  PROVE  TInv'
<1>1. Reading /\ server' = server
  BY DEF sequence_handshake, Reading, wires
<1>2. CASE call.at # "sequence"
  <2>1. call' = call
    BY <1>2 DEF sequence_handshake
  <2>2. Good
    BY <1>1, <2>1 DEF TInv, Typed, Good
  <2>. QED  BY <1>1, <2>2, ReadStep
<1>3. CASE call.at = "sequence"
  <2>1. call' = Run(Rest)
    BY <1>3 DEF sequence_handshake
  <2>2. call.todo # <<>> /\ Command = "Open" /\ server.open /\ server.pc # "status"
    BY <1>3 DEF TInv, Place, Command
  <2>3. Good
    BY <1>1, <2>1, <2>2, RestGood
  <2>. QED  BY <1>1, <2>3, ReadStep
<1>. QED
  BY <1>2, <1>3

LEMMA Texpect_size ==
  ASSUME TInv, server.pc # "aborted", expect_size
  PROVE  TInv'
<1>1. Reading /\ call.at \in {"packet", "more", "status"}
  BY DEF expect_size, Reading
<1>2. Reply.n \in Nat
  BY <1>1, TypedReply DEF Reading
<1>3. call \in Calls /\ server \in Servers /\ Place(server, call) /\ Form(server, call.todo)
  BY DEF TInv, Typed
<1>4. call.todo # <<>> /\ call.todo \in Seq(Commands) /\ (call.at = "status" => server.pc = "status")
  BY <1>1, <1>3 DEF Place, Calls
<1>5. Command \notin {"Open", "Close"}
  <2>1. call.at # "status" => Head(call.todo) \notin {"Open", "Close"}
    BY <1>1, <1>3 DEF Place
  <2>2. call.at = "status" => Head(call.todo) = "GetStatus"
    <3>1. server.pc = "status" => call.todo = <<"GetStatus">>
      BY <1>3 DEF Form
    <3>. QED  BY <1>4, <3>1, One
  <2>. QED  BY <2>1, <2>2 DEF Command
<1>6. ASSUME NEW at \in Ats, NEW n \in Nat, call' = [call EXCEPT !.at = at, !.expect = n], server' = server,
             at = "data" \/ (at = "more" /\ ReadsOn /\ server.pc # "status")
      PROVE  Good
  <2>1. call' \in Calls /\ call'.at = at /\ call'.todo = call.todo
    BY <1>3, <1>6 DEF Calls
  <2>2. Place(server', call')
    BY <1>3, <1>4, <1>5, <1>6, <2>1 DEF Place, Command, ReadsOn
  <2>. QED  BY <1>3, <1>6, <2>1, <2>2 DEF Good
<1>7. CASE Reply.n > 0 /\ call' = [call EXCEPT !.at = "data", !.expect = Reply.n] /\ UNCHANGED server
  <2>1. "data" \in Ats
    BY DEF Ats
  <2>2. Good
    BY <1>2, <1>6, <1>7, <2>1
  <2>. QED  BY <1>1, <2>2, ReadStep
<1>8. CASE Reply.n = 0 /\ ReadsOn /\ call' = [call EXCEPT !.at = "more"] /\ UNCHANGED server
  <2>1. "more" \in Ats
    BY DEF Ats
  <2>2. call.expect \in Nat /\ call' = [call EXCEPT !.at = "more", !.expect = call.expect]
    BY <1>3, <1>8 DEF Calls
  <2>3. server.pc # "status"
    <3>1. server.pc = "status" => call.todo = <<"GetStatus">>
      BY <1>3 DEF Form
    <3>. QED  BY <1>4, <1>8, <3>1, One DEF ReadsOn, Command
  <2>4. Good
    BY <1>6, <1>8, <2>1, <2>2, <2>3
  <2>. QED  BY <1>1, <2>4, ReadStep
<1>9. CASE Reply.n = 0 /\ ~ReadsOn /\ Answered(0, 0)
  <2>1. PICK zero \in Nat : zero = 0
    OBVIOUS
  <2>2. Answered(zero, zero)
    BY <1>9, <2>1
  <2>3. Good
    BY <1>4, <1>5, <2>1, <2>2, AnsweredGood
  <2>. QED  BY <1>1, <2>3, ReadStep
<1>. QED
  BY <1>7, <1>8, <1>9 DEF expect_size

LEMMA TReceiveData ==
  ASSUME TInv, server.pc # "aborted", ReceiveData
  PROVE  TInv'
<1>1. Reading /\ call.at = "data" /\ Answered(Reply.n, Reply.value)
  BY DEF ReceiveData, Reading
<1>2. call.todo # <<>> /\ Command \notin {"Open", "Close"}
  BY <1>1 DEF TInv, Place, Command
<1>3. Reply.n \in Nat /\ Reply.value \in Nat
  BY <1>1, TypedReply DEF Reading
<1>4. Good
  BY <1>1, <1>2, <1>3, AnsweredGood
<1>. QED
  BY <1>1, <1>4, ReadStep

LEMMA Tclosed_socket ==
  ASSUME TInv, server.pc # "aborted", closed_socket
  PROVE  TInv' /\ server'.pc = server.pc /\ server'.running = server.running /\ server'.request = server.request
         /\ call.todo # <<>> /\ Command = "Close" /\ call'.todo = Tail(call.todo) /\ call'.at \in {"idle", "send"}
<1>1. Reading /\ call.at = "closing" /\ server' = [server EXCEPT !.open = FALSE] /\ call' = Run(Rest)
  BY DEF closed_socket, Reading
<1>2. call.todo # <<>> /\ Command = "Close" /\ server.pc # "status"
  BY <1>1 DEF TInv, Place, Command
<1>3. call.todo \in Seq(Commands) /\ server \in Servers /\ Form(server, call.todo)
  BY DEF TInv, Typed, Calls
<1>4. PICK s : s = [server EXCEPT !.open = FALSE]
  OBVIOUS
<1>5. s \in Servers /\ s.pc = server.pc /\ s.running = server.running /\ s.request = server.request
  BY <1>3, <1>4 DEF Servers
<1>6. Form(s, Tail(call.todo))
  BY <1>2, <1>3, <1>4, FormClosed DEF Command
<1>7. PICK todo : todo = Tail(call.todo)
  OBVIOUS
<1>8. todo \in Seq(Commands)
  BY <1>2, <1>3, <1>7, Rests
<1>9. PICK c : c = Run(todo)
  OBVIOUS
<1>10. c \in Calls /\ c.todo = todo /\ c.at \in {"idle", "send"} /\ \A t : t.pc # "status" => Place(t, c)
  BY <1>8, <1>9, Running_a_script
<1>11. Place(s, c)
  BY <1>2, <1>5, <1>10
<1>12. call' = c
  BY <1>1, <1>7, <1>9 DEF Rest
<1>13. Good
  BY <1>1, <1>4, <1>5, <1>6, <1>7, <1>10, <1>11, <1>12 DEF Good
<1>14. TInv'
  BY <1>1, <1>13, ReadStep
<1>. QED
  BY <1>1, <1>2, <1>4, <1>5, <1>7, <1>10, <1>12, <1>14

-----------------------------------------------------------------------------
\* The server, one step each.
LEMMA ThrowStep ==
  ASSUME TInv, NEW why \in SUBSET {"crossed", "failed", "reset"}, Throw(why), UNCHANGED <<call, wires, machine, backlog, messages>>,
         connection' \in Connections
  PROVE  TInv' /\ server'.pc = "aborted" /\ why \subseteq trouble'
<1>1. server \in Servers /\ call \in Calls /\ Place(server, call) /\ trouble \subseteq {"crossed", "failed", "reset"}
  BY DEF TInv, Typed, Outside
<1>2. server' = [server EXCEPT !.pc = "aborted"] /\ trouble' = trouble \cup why /\ call' = call
  BY DEF Throw
<1>3. /\ server' \in Servers /\ server'.pc = "aborted"
  BY <1>1, <1>2 DEF Servers, Pcs
<1>4. Place(server', call')
  BY <1>1, <1>2, <1>3 DEF Place
<1>5. Good
  BY <1>1, <1>2, <1>3, <1>4 DEF Good
<1>6. Outside'
  BY <1>1, <1>2 DEF TInv, Typed, Outside
<1>7. down' \in Seq(Orders) /\ up' \in Seq(Packets) /\ machine' \in Machines
  BY DEF TInv, Typed, wires
<1>. QED
  BY <1>2, <1>3, <1>5, <1>6, <1>7, GoodStep

\* The server goes on elsewhere, between commands.
LEMMA Moves ==
  ASSUME TInv, NEW s \in Servers, NEW todo \in Seq(Commands), server' = s, call' = Run(todo), s.pc # "status", Form(s, todo),
         UNCHANGED <<wires, machine>>, Outside'
  PROVE  TInv' /\ call'.todo = todo /\ call'.at = IF todo = <<>> THEN "idle" ELSE "send"
<1>1. PICK c : c = Run(todo)
  OBVIOUS
<1>2. c \in Calls /\ c.todo = todo /\ (c.at = IF todo = <<>> THEN "idle" ELSE "send") /\ \A t : t.pc # "status" => Place(t, c)
  BY <1>1, Running_a_script
<1>3. Place(s, c)
  BY <1>2
<1>4. Good
  BY <1>1, <1>2, <1>3 DEF Good
<1>5. down' \in Seq(Orders) /\ up' \in Seq(Packets) /\ machine' \in Machines
  BY DEF TInv, Typed, wires
<1>6. TInv'
  BY <1>4, <1>5, GoodStep
<1>. QED
  BY <1>1, <1>2, <1>6

\* An idle call is a script with nothing in it.
LEMMA IdleCall ==
  ASSUME TInv, call.at = "idle" \/ call.todo = <<>>
  PROVE  call.todo = <<>> /\ call.at = "idle"
BY DEF TInv, Place

\* A step of the server alone.
LEMMA ServerMoves ==
  ASSUME TInv, NEW pc \in Pcs, NEW running \in BOOLEAN, NEW request \in Requests \cup {"none"},
         server' = [server EXCEPT !.pc = pc, !.running = running, !.request = request],
         call.todo = <<>>, pc # "status",
         pc \in {"attach", "hello", "run", "wait", "command"} => server.fd \in Debuggers /\ server.open,
         UNCHANGED <<call, wires, machine>>, Outside'
  PROVE  TInv' /\ server'.pc = pc /\ server'.running = running /\ server'.request = request /\ server'.fd = server.fd
<1>1. server \in Servers /\ call \in Calls /\ Place(server, call)
  BY DEF TInv, Typed
<1>2. /\ server' \in Servers /\ server'.pc = pc /\ server'.running = running /\ server'.request = request
      /\ server'.fd = server.fd /\ server'.open = server.open
  BY <1>1 DEF Servers
<1>3. PICK todo : todo = call.todo
  OBVIOUS
<1>4. todo = <<>> /\ Len(todo) = 0
  BY <1>3, None
<1>5. Attaching(todo) /\ Leading(todo, "Go") /\ Leading(todo, "Stop") /\ Threading(todo)
  BY <1>4 DEF Attaching, Leading, Threading
<1>6. Form(server', todo)
  BY <1>2, <1>4, <1>5 DEF Form, Scripts
<1>7. Place(server', call')
  BY <1>1, <1>2 DEF Place
<1>8. Good
  BY <1>1, <1>2, <1>3, <1>6, <1>7 DEF Good
<1>9. down' \in Seq(Orders) /\ up' \in Seq(Packets) /\ machine' \in Machines
  BY DEF TInv, Typed, wires
<1>10. TInv'
  BY <1>8, <1>9, GoodStep
<1>. QED
  BY <1>2, <1>10

\* The commands of an attachment.
LEMMA AttachForm ==
  /\ Attach \in Seq(Commands) /\ <<"Close">> \o Attach \in Seq(Commands)
  /\ Attaching(Attach) /\ Attaching(<<"Close">> \o Attach) /\ Opens(Attach) /\ Opens(<<"Close">> \o Attach)
<1>1. PICK a : a = Attach
  OBVIOUS
<1>2. a = <<"Open", "Unknown01", "Unknown02", "Unknown03", "Unknown04", "Unknown05", "GetModulesList">>
  BY <1>1 DEF Attach
<1>3. /\ Len(a) = 7 /\ a[1] = "Open"
      /\ \A i \in 1..7 : a[i] \in {"Open", "GetModulesList"} \cup Attached
  BY <1>2 DEF Attached
<1>4. \A i \in 1..7 : a[i] \in Commands
  BY <1>1, <1>2 DEF Commands
<1>5. a \in Seq(Commands)
  BY <1>2, <1>4
<1>6. Attaching(a) /\ Opens(a)
  BY <1>3 DEF Attaching, Attached, Opens
<1>7. "Close" \in Commands
  BY DEF Commands
<1>8. PICK t : t = <<"Close">> \o a
  OBVIOUS
<1>9. <<"Close">> \in Seq(Commands) /\ Len(<<"Close">>) = 1 /\ <<"Close">>[1] = "Close"
  BY <1>7
<1>10. t \in Seq(Commands) /\ Len(t) = 8 /\ t[1] = "Close" /\ \A i \in 1..7 : t[i + 1] = a[i]
  <2>1. t \in Seq(Commands) /\ Len(t) = 1 + Len(a) /\ t[1] = "Close" /\ \A i \in 1..Len(a) : t[i + 1] = a[i]
    BY <1>5, <1>8, <1>9
  <2>. QED  BY <1>3, <2>1
<1>11. t[2] = "Open"
  <2>1. t[1 + 1] = a[1]
    BY <1>10
  <2>. QED  BY <1>3, <2>1
<1>12. \A i \in 2..8 : t[i] \in {"Open", "GetModulesList"} \cup Attached
  <2>1. ASSUME NEW i \in 2..8  PROVE t[i] \in {"Open", "GetModulesList"} \cup Attached
    <3>1. i - 1 \in 1..7 /\ (i - 1) + 1 = i
      OBVIOUS
    <3>. QED  BY <1>3, <1>10, <3>1
  <2>. QED  BY <2>1
<1>13. Attaching(t) /\ Opens(t)
  BY <1>10, <1>11, <1>12 DEF Attaching, Attached, Opens
<1>. QED
  BY <1>1, <1>5, <1>6, <1>8, <1>10, <1>13

-----------------------------------------------------------------------------
LEMMA TAcceptConnection ==
  ASSUME TInv, server.pc # "aborted", AcceptConnection
  PROVE  TInv' /\ server'.pc = "attach" /\ server'.running = FALSE /\ call.at = "idle" /\ call'.todo # <<>> /\ call'.at = "send"
<1>1. server \in Servers /\ backlog \in Seq(Debuggers) /\ server.pc = "accept" /\ backlog # <<>> /\ Form(server, call.todo)
  BY DEF TInv, Typed, Outside, AcceptConnection
<1>2. PICK fd : fd = Head(backlog)
  OBVIOUS
<1>3. fd \in Debuggers /\ backlog' \in Seq(Debuggers)
  BY <1>1, <1>2, Rests DEF AcceptConnection
<1>4. PICK first : first = IF server.open THEN <<"Close">> ELSE <<>>
  OBVIOUS
<1>5. PICK todo : todo = first \o Attach
  OBVIOUS
<1>6. call' = Run(todo)
  BY <1>4, <1>5, Zenon DEF AcceptConnection
<1>7. todo \in Seq(Commands) /\ Attaching(todo) /\ Opens(todo)
  <2>1. CASE server.open
    BY <1>4, <1>5, <2>1, AttachForm
  <2>2. CASE ~server.open
    <3>1. first = <<>>
      BY <1>4, <2>2
    <3>2. todo = Attach
      BY <1>5, <3>1, AttachForm
    <3>. QED  BY <3>2, AttachForm
  <2>. QED  BY <2>1, <2>2
<1>8. todo # <<>>
  BY <1>7, None DEF Opens
<1>9. server' = [server EXCEPT !.pc = "attach", !.fd = fd, !.running = FALSE]
  BY <1>2 DEF AcceptConnection
<1>10. PICK s : s = [server EXCEPT !.pc = "attach", !.fd = fd, !.running = FALSE]
  OBVIOUS
<1>11. s \in Servers /\ s.pc = "attach" /\ s.fd = fd /\ s.running = FALSE
  BY <1>1, <1>3, <1>10 DEF Servers, Pcs
<1>12. Form(s, todo)
  BY <1>3, <1>7, <1>11 DEF Form
<1>13. server' = s /\ s.pc # "status"
  BY <1>9, <1>10, <1>11
<1>14. UNCHANGED <<wires, machine>> /\ Outside'
  BY <1>3 DEF AcceptConnection, TInv, Typed, Outside
<1>15. call.at = "idle"
  <2>1. call.todo = <<>>
    BY <1>1 DEF Form
  <2>. QED  BY <2>1, IdleCall
<1>16. TInv' /\ call'.todo = todo /\ call'.at = "send"
  BY <1>6, <1>7, <1>8, <1>11, <1>12, <1>13, <1>14, Moves
<1>. QED
  BY <1>8, <1>11, <1>13, <1>15, <1>16

\* The fields of the server that a step does not name.
LEMMA Fields ==
  ASSUME TInv
  PROVE  /\ server.pc \in Pcs /\ server.running \in BOOLEAN /\ server.request \in Requests \cup {"none"} /\ server.open \in BOOLEAN
         /\ \A pc : [server EXCEPT !.pc = pc] = [server EXCEPT !.pc = pc, !.running = server.running, !.request = server.request]
BY DEF TInv, Typed, Servers

LEMMA TInitVisibleClassList ==
  ASSUME TInv, server.pc # "aborted", InitVisibleClassList
  PROVE  TInv' /\ server'.pc = "hello" /\ server'.running = server.running
<1>1. call.todo = <<>> /\ server.pc = "attach"
  BY IdleCall DEF InitVisibleClassList
<1>2. server.fd \in Debuggers /\ server.open
  <2>1. Attaching(<<>>) /\ ~Opens(<<>>)
    BY None DEF Opens, Attaching
  <2>. QED  BY <1>1, <2>1 DEF TInv, Form
<1>3. server' = [server EXCEPT !.pc = "hello", !.running = server.running, !.request = server.request]
  BY Fields DEF InitVisibleClassList
<1>4. "hello" \in Pcs /\ "hello" # "status" /\ server.running \in BOOLEAN /\ server.request \in Requests \cup {"none"}
  BY Fields DEF Pcs
<1>5. UNCHANGED <<call, wires, machine>> /\ Outside'
  BY DEF InitVisibleClassList, TInv, Typed, Outside, sockets
<1>. QED
  BY <1>1, <1>2, <1>3, <1>4, <1>5, ServerMoves

LEMMA TDetachFromDevice ==
  ASSUME TInv, server.pc # "aborted", DetachFromDevice
  PROVE  TInv' /\ server'.pc = "accept" /\ server'.running = server.running
<1>1. call.todo = <<>>
  BY IdleCall DEF DetachFromDevice
<1>2. server' = [server EXCEPT !.pc = "accept", !.running = server.running, !.request = server.request]
  BY Fields DEF DetachFromDevice
<1>3. "accept" \in Pcs \ {"attach", "hello", "run", "wait", "command", "status"}
      /\ server.running \in BOOLEAN /\ server.request \in Requests \cup {"none"}
  BY Fields DEF Pcs
<1>4. UNCHANGED <<call, wires, machine>> /\ Outside'
  BY DEF DetachFromDevice, TInv, Typed, Outside, sockets
<1>. QED
  BY <1>1, <1>2, <1>3, <1>4, ServerMoves

LEMMA TGetConsoleMessage ==
  ASSUME TInv, server.pc # "aborted", GetConsoleMessage
  PROVE  TInv' /\ server' = server /\ server.pc = "run" /\ call.at = "idle" /\ call'.todo = <<"GetConsoleMessage">> /\ call'.at = "send"
<1>1. PICK todo : todo = <<"GetConsoleMessage">>
  OBVIOUS
<1>2. "GetConsoleMessage" \in Commands
  BY DEF Commands
<1>3. todo \in Seq(Commands) /\ todo # <<>>
  BY <1>1, <1>2, One
<1>4. server.pc = "run" /\ call.at = "idle" /\ server' = server /\ call' = Run(todo)
  BY <1>1 DEF GetConsoleMessage, Polling
<1>5. PICK c : c = Run(todo)
  OBVIOUS
<1>6. c \in Calls /\ c.todo = todo /\ c.at = "send" /\ \A s : s.pc # "status" => Place(s, c)
  BY <1>3, <1>5, Running_a_script
<1>7. Place(server, c)
  BY <1>4, <1>6
<1>8. server \in Servers /\ Form(server, todo)
  BY <1>1, <1>4 DEF TInv, Typed, Form
<1>9. Good
  BY <1>4, <1>5, <1>6, <1>7, <1>8 DEF Good
<1>10. down' \in Seq(Orders) /\ up' \in Seq(Packets) /\ machine' \in Machines /\ Outside'
  BY DEF GetConsoleMessage, TInv, Typed, Outside, sockets, wires
<1>11. TInv'
  BY <1>9, <1>10, GoodStep
<1>. QED
  BY <1>1, <1>4, <1>5, <1>6, <1>11

LEMMA TWaitStatus ==
  ASSUME TInv, server.pc # "aborted", WaitStatus
  PROVE  TInv' /\ server.pc = "wait" /\ server'.pc = "status" /\ server'.running = server.running
         /\ call'.at = "status" /\ call'.todo = <<"GetStatus">>
<1>1. server.pc = "wait" /\ server \in Servers /\ server' = [server EXCEPT !.pc = "status"]
  BY DEF WaitStatus, TInv, Typed
<1>2. server' \in Servers /\ server'.pc = "status" /\ server'.running = server.running /\ server'.fd = server.fd /\ server'.open = server.open
  BY <1>1 DEF Servers, Pcs
<1>3. PICK todo : todo = <<"GetStatus">>
  OBVIOUS
<1>4. "GetStatus" \in Commands
  BY DEF Commands
<1>5. todo \in Seq(Commands) /\ todo # <<>> /\ Head(todo) = "GetStatus"
  BY <1>3, <1>4, One
<1>6. PICK c : c = Run(todo)
  OBVIOUS
<1>7. c \in Calls /\ c.todo = todo
  BY <1>5, <1>6, Running_a_script
<1>8. call' = [c EXCEPT !.at = "status"]
  BY <1>3, <1>6 DEF WaitStatus
<1>9. call' \in Calls /\ call'.todo = todo /\ call'.at = "status"
  BY <1>7, <1>8 DEF Calls, Ats
<1>10. server.fd \in Debuggers /\ server.open
  BY <1>1 DEF TInv, Form
<1>11. Form(server', call'.todo) /\ Place(server', call')
  BY <1>2, <1>3, <1>5, <1>9, <1>10 DEF Form, Place
<1>12. Good
  BY <1>2, <1>9, <1>11 DEF Good
<1>13. down' \in Seq(Orders) /\ up' \in Seq(Packets) /\ machine' \in Machines /\ Outside'
  BY DEF WaitStatus, TInv, Typed, Outside, sockets, wires
<1>14. TInv'
  BY <1>12, <1>13, GoodStep
<1>. QED
  BY <1>1, <1>2, <1>3, <1>9, <1>14

LEMMA Tstatus_timeout ==
  ASSUME TInv, server.pc # "aborted", status_timeout
  PROVE  TInv' /\ server'.pc = "wait" /\ server'.running = server.running /\ call'.todo = <<>> /\ call'.at = "idle"
<1>1. server.pc = "status" /\ server' = [server EXCEPT !.pc = "wait"] /\ call' = Idle /\ server \in Servers
  BY DEF status_timeout, TInv, Typed
<1>2. server' \in Servers /\ server'.pc = "wait" /\ server'.running = server.running /\ server'.fd = server.fd /\ server'.open = server.open
  BY <1>1 DEF Servers, Pcs
<1>3. <<>> \in Seq(Commands) /\ "idle" \in Ats
  BY DEF Ats
<1>4. call' \in Calls /\ call'.todo = <<>> /\ call'.at = "idle"
  BY <1>1, <1>3 DEF Idle, Calls
<1>5. server.fd \in Debuggers /\ server.open
  BY <1>1 DEF TInv, Form
<1>6. Form(server', call'.todo) /\ Place(server', call')
  BY <1>2, <1>4, <1>5 DEF Form, Place
<1>7. Good
  BY <1>2, <1>4, <1>6 DEF Good
<1>8. down' \in Seq(Orders) /\ up' \in Seq(Packets) /\ machine' \in Machines /\ Outside'
  BY DEF status_timeout, TInv, Typed, Outside, sockets, wires
<1>9. TInv'
  BY <1>7, <1>8, GoodStep
<1>. QED
  BY <1>2, <1>4, <1>9

-----------------------------------------------------------------------------
\* The debuggers' ends of their connections.
LEMMA ConnectionTypes ==
  ASSUME NEW connections \in Connections, NEW d \in Debuggers,
         NEW end \in {"none", "open", "closed", "reset"},
         NEW inbox \in Requests \cup {"nothing", "Hello", "Other", "several"}
  PROVE  /\ [connections EXCEPT ![d].end = end] \in Connections
         /\ [connections EXCEPT ![d].inbox = inbox] \in Connections
         /\ [connections EXCEPT ![d].inbox = inbox, ![d].spoke = TRUE] \in Connections
         /\ connections[d].end \in {"none", "open", "closed", "reset"}
         /\ connections[d].inbox \in Requests \cup {"nothing", "Hello", "Other", "several"}
BY DEF Connections

LEMMA SendToStep ==
  ASSUME TInv, NEW connections \in Connections, NEW running \in BOOLEAN, SendTo(connections, "run", running),
         server.fd \in Debuggers, server.open, call.todo = <<>>, UNCHANGED <<call, wires, machine, backlog, messages>>
  PROVE  TInv' /\ (trouble' = {} => server'.pc = "run" /\ server'.running = running)
<1>1. CASE Peer.end = "reset"
  <2>1. Throw({"reset"}) /\ connection' = connections
    BY <1>1 DEF SendTo
  <2>2. PICK why : why = {"reset"}
    OBVIOUS
  <2>3. why \in SUBSET {"crossed", "failed", "reset"} /\ Throw(why) /\ connection' \in Connections
    BY <2>1, <2>2
  <2>4. TInv' /\ why \subseteq trouble'
    BY <2>3, ThrowStep
  <2>. QED  BY <2>2, <2>4
<1>2. CASE Peer.end # "reset"
  <2>1. /\ server' = [server EXCEPT !.pc = "run", !.running = running, !.request = "none"]
        /\ connection' = Sent(connections) /\ trouble' = trouble
    BY <1>2 DEF SendTo
  <2>2. PICK end : end = IF connections[server.fd].end = "closed" THEN "reset" ELSE connections[server.fd].end
    OBVIOUS
  <2>3. end \in {"none", "open", "closed", "reset"}
    BY <2>2 DEF Connections
  <2>4. Sent(connections) = [connections EXCEPT ![server.fd].end = end]
    BY <2>2 DEF Sent, Connections
  <2>5. PICK inbox \in Requests \cup {"nothing", "Hello", "Other", "several"} : inbox = "nothing"
    OBVIOUS
  <2>6. connection' \in Connections
    <3>1. [connections EXCEPT ![server.fd].end = end] \in Connections
      BY <2>3, <2>5, ConnectionTypes
    <3>. QED  BY <2>1, <2>4, <3>1
  <2>7. Outside'
    BY <2>1, <2>6 DEF TInv, Typed, Outside
  <2>8. "run" \in Pcs /\ "run" # "status" /\ "none" \in Requests \cup {"none"}
    BY DEF Pcs
  <2>. QED  BY <2>1, <2>7, <2>8, ServerMoves
<1>. QED
  BY <1>1, <1>2

\* All that has arrived is read.
LEMMA ReceivedTypes ==
  ASSUME TInv, server.fd \in Debuggers
  PROVE  Received \in Connections /\ Peer.inbox \in Requests \cup {"nothing", "Hello", "Other", "several"}
<1>1. PICK inbox : inbox = "nothing"
  OBVIOUS
<1>2. PICK end : end = "none"
  OBVIOUS
<1>3. inbox \in Requests \cup {"nothing", "Hello", "Other", "several"} /\ end \in {"none", "open", "closed", "reset"}
      /\ connection \in Connections
  BY <1>1, <1>2 DEF TInv, Typed, Outside
<1>. QED
  BY <1>1, <1>3, ConnectionTypes DEF Received, Peer

LEMMA THello ==
  ASSUME TInv, server.pc # "aborted", Hello
  PROVE  TInv' /\ server.pc = "hello" /\ call.todo = <<>>
         /\ (trouble' = {} => server'.pc \in {"run", "accept"} /\ server'.running = server.running)
<1>1. server.pc = "hello" /\ call.todo = <<>> /\ server.fd \in Debuggers /\ server.open
  BY DEF Hello, TInv, Form
<1>2. UNCHANGED <<call, wires, machine, backlog, messages>>
  BY DEF Hello
<1>3. Received \in Connections /\ server.running \in BOOLEAN
  BY <1>1, ReceivedTypes, Fields
<1>4. CASE Peer.inbox = "Hello"
  <2>1. SendTo(Received, "run", server.running)
    BY <1>4 DEF Hello
  <2>2. PICK connections : connections = Received
    OBVIOUS
  <2>3. PICK running \in BOOLEAN : running = server.running
    BY <1>3
  <2>4. SendTo(connections, "run", running) /\ connections \in Connections
    BY <1>3, <2>1, <2>2, <2>3
  <2>5. TInv' /\ (trouble' = {} => server'.pc = "run" /\ server'.running = running)
    BY <1>1, <1>2, <2>4, SendToStep
  <2>. QED  BY <1>1, <2>3, <2>5
<1>5. CASE Peer.inbox # "Hello"
  <2>1. server' = [server EXCEPT !.pc = "accept"] /\ connection' = Received /\ trouble' = trouble
    BY <1>5 DEF Hello
  <2>2. server' = [server EXCEPT !.pc = "accept", !.running = server.running, !.request = server.request]
    BY <2>1, Fields
  <2>3. Outside'
    BY <1>2, <1>3, <2>1 DEF TInv, Typed, Outside
  <2>4. "accept" \in Pcs \ {"attach", "hello", "run", "wait", "command", "status"}
        /\ server.running \in BOOLEAN /\ server.request \in Requests \cup {"none"}
    BY Fields DEF Pcs
  <2>5. TInv' /\ server'.pc = "accept" /\ server'.running = server.running
    BY <1>1, <1>2, <2>2, <2>3, <2>4, ServerMoves
  <2>. QED  BY <1>1, <2>5
<1>. QED
  BY <1>4, <1>5

LEMMA Tsend_response ==
  ASSUME TInv, server.pc # "aborted", send_response
  PROVE  TInv' /\ server.pc = "command" /\ call.todo = <<>> /\ (trouble' = {} => server'.pc = "run" /\ server'.running = Running)
<1>1. server.pc = "command" /\ call.todo = <<>> /\ server.fd \in Debuggers /\ server.open
  BY IdleCall DEF send_response, TInv, Form
<1>2. UNCHANGED <<call, wires, machine, backlog, messages>> /\ SendTo(connection, "run", Running)
  BY DEF send_response
<1>3. PICK running : running = Running
  OBVIOUS
<1>4. running \in BOOLEAN
  BY <1>3, Zenon DEF Running
<1>5. connection \in Connections
  BY DEF TInv, Typed, Outside
<1>6. SendTo(connection, "run", running)
  BY <1>2, <1>3
<1>7. TInv' /\ (trouble' = {} => server'.pc = "run" /\ server'.running = running)
  BY <1>1, <1>2, <1>4, <1>5, <1>6, SendToStep
<1>. QED
  BY <1>1, <1>3, <1>7

LEMMA Treceive_error ==
  ASSUME TInv, server.pc # "aborted", receive_error
  PROVE  TInv' /\ trouble' # {}
<1>1. PICK why : why = {"reset"}
  OBVIOUS
<1>2. why \in SUBSET {"crossed", "failed", "reset"} /\ Throw(why) /\ UNCHANGED <<call, wires, machine, backlog, messages>>
  BY <1>1 DEF receive_error, sockets
<1>3. connection' \in Connections
  BY DEF receive_error, sockets, TInv, Typed, Outside
<1>4. TInv' /\ why \subseteq trouble'
  BY <1>2, <1>3, ThrowStep
<1>. QED
  BY <1>1, <1>4

LEMMA Tusb_error ==
  ASSUME TInv, server.pc # "aborted", usb_error
  PROVE  TInv' /\ trouble' # {}
<1>1. PICK why : why = {"failed"}
  OBVIOUS
<1>2. why \in SUBSET {"crossed", "failed", "reset"} /\ Throw(why) /\ UNCHANGED <<call, wires, machine, backlog, messages>>
  BY <1>1 DEF usb_error, sockets
<1>3. connection' \in Connections
  BY DEF usb_error, sockets, TInv, Typed, Outside
<1>4. TInv' /\ why \subseteq trouble'
  BY <1>2, <1>3, ThrowStep
<1>. QED
  BY <1>1, <1>4

LEMMA Tbad_packet ==
  ASSUME TInv, server.pc # "aborted", bad_packet
  PROVE  TInv'
<1>1. PICK why : why = {}
  OBVIOUS
<1>2. why \in SUBSET {"crossed", "failed", "reset"} /\ Throw(why) /\ UNCHANGED <<call, wires, machine, backlog, messages>>
  BY <1>1 DEF bad_packet, sockets
<1>3. connection' \in Connections
  BY DEF bad_packet, sockets, TInv, Typed, Outside
<1>. QED
  BY <1>2, <1>3, ThrowStep

-----------------------------------------------------------------------------
\* What the handheld is asked for, request by request.
LEMMA ScriptForm ==
  ASSUME NEW request
  PROVE  /\ Script(request) \in Seq(Commands)
         /\ request = "Resume" => Leading(Script(request), "Go") /\ Script(request) # <<>>
         /\ request = "Suspend" => Leading(Script(request), "Stop") /\ Script(request) # <<>>
         /\ request = "Dispose" => Script(request) = <<"Close">>
         /\ request \notin {"Resume", "Suspend", "Dispose"} => Threading(Script(request))
         /\ request = "Other" => Script(request) = <<>>
<1>1. PICK todo : todo = Script(request)
  OBVIOUS
<1>2. /\ request = "AllThreads" => todo = <<"GetThreadsList">>
      /\ request = "Suspend" => todo = <<"Stop">>
      /\ request = "Resume" => todo = <<"Unknown06", "Unknown07", "Unknown08", "Unknown09", "Unknown10", "Go">>
      /\ request = "Dispose" => todo = <<"Close">>
      /\ request \notin {"AllThreads", "Suspend", "Resume", "Dispose"} => todo = <<>>
  <2>1. /\ "AllThreads" # "Suspend" /\ "AllThreads" # "Resume" /\ "AllThreads" # "Dispose"
        /\ "Suspend" # "Resume" /\ "Suspend" # "Dispose" /\ "Resume" # "Dispose"
    OBVIOUS
  <2>. QED  BY <1>1, <2>1, Zenon DEF Script
<1>3. CASE request = "AllThreads"
  <2>1. todo = <<"GetThreadsList">>
    BY <1>2, <1>3
  <2>2. "GetThreadsList" \in Commands
    BY DEF Commands
  <2>3. todo \in Seq(Commands) /\ Len(todo) = 1 /\ todo[1] = "GetThreadsList"
    BY <2>1, <2>2
  <2>4. Threading(todo)
    BY <2>3 DEF Threading
  <2>. QED  BY <1>1, <1>3, <2>3, <2>4
<1>4. CASE request = "Suspend"
  <2>1. todo = <<"Stop">>
    BY <1>2, <1>4
  <2>2. "Stop" \in Commands
    BY DEF Commands
  <2>3. todo \in Seq(Commands) /\ Len(todo) = 1 /\ todo[1] = "Stop" /\ todo # <<>>
    BY <2>1, <2>2
  <2>4. Leading(todo, "Stop")
    BY <2>3 DEF Leading
  <2>. QED  BY <1>1, <1>4, <2>3, <2>4
<1>5. CASE request = "Resume"
  <2>1. todo = <<"Unknown06", "Unknown07", "Unknown08", "Unknown09", "Unknown10", "Go">>
    BY <1>2, <1>5
  <2>2. {"Unknown06", "Unknown07", "Unknown08", "Unknown09", "Unknown10", "Go"} \subseteq Commands
    BY DEF Commands
  <2>3. Len(todo) = 6 /\ todo[6] = "Go" /\ \A i \in 1..5 : todo[i] \in Preparing
    BY <2>1 DEF Preparing
  <2>4. todo \in Seq(Commands)
    BY <2>1, <2>2
  <2>5. Leading(todo, "Go") /\ todo # <<>>
    BY <2>3, None DEF Leading
  <2>. QED  BY <1>1, <1>5, <2>4, <2>5
<1>6. CASE request = "Dispose"
  <2>1. todo = <<"Close">>
    BY <1>2, <1>6
  <2>2. "Close" \in Commands
    BY DEF Commands
  <2>3. todo \in Seq(Commands)
    BY <2>1, <2>2
  <2>. QED  BY <1>1, <1>6, <2>1, <2>3
<1>7. CASE request \notin {"AllThreads", "Suspend", "Resume", "Dispose"}
  <2>1. todo = <<>>
    BY <1>2, <1>7
  <2>2. todo \in Seq(Commands) /\ Threading(todo)
    BY <2>1, None DEF Threading
  <2>. QED  BY <1>1, <1>7, <2>1, <2>2
<1>. QED
  BY <1>3, <1>4, <1>5, <1>6, <1>7

LEMMA ProcessCases ==
  ASSUME NEW request, CommandsetProcess(request)
  PROVE  /\ request = "Dispose" => server' = [server EXCEPT !.pc = "detach", !.running = FALSE, !.fd = Nobody]
         /\ request = "Other" => server' = [server EXCEPT !.pc = "run"]
         /\ request \notin {"Dispose", "Other"} => server' = [server EXCEPT !.pc = "command", !.request = request]
<1>1. "Dispose" # "Other"
  OBVIOUS
<1>. QED
  BY <1>1, Zenon DEF CommandsetProcess

LEMMA Treceive_request ==
  ASSUME TInv, server.pc # "aborted", receive_request
  PROVE  /\ TInv' /\ call.todo = <<>> /\ call.at = "idle"
         /\ server.pc = "wait" \/ (server.pc = "run" /\ ~server.running)
         /\ \/ server' = server /\ call' = call
            \/ /\ trouble' = {} => up = <<>>
               /\ \/ server'.pc = "run" /\ server'.running = server.running /\ call'.at = "idle"
                  \/ server'.pc = "detach" /\ server'.running = FALSE /\ call'.at = "send"
                  \/ /\ server'.pc = "command" /\ server'.running = server.running /\ call'.at \in {"idle", "send"}
                     /\ server'.request \in {"Resume", "Suspend"} => call'.at = "send"
<1>1. server.pc = "wait" \/ (server.pc = "run" /\ call.at = "idle" /\ ~server.running)
  BY Zenon DEF receive_request, Listening
<1>2. server.pc \in {"wait", "run"} /\ server.fd \in Debuggers /\ server.open /\ call.todo = <<>> /\ call.at = "idle"
  <2>1. Form(server, call.todo)
    BY DEF TInv
  <2>2. call.todo = <<>>
    BY <1>1, <2>1, IdleCall DEF Form
  <2>. QED  BY <1>1, <2>1, <2>2, IdleCall DEF Form
<1>3. connection' = Received /\ Received \in Connections /\ UNCHANGED <<wires, machine, backlog, messages>>
  BY <1>2, ReceivedTypes DEF receive_request
<1>4. PICK request : request = Peer.inbox
  OBVIOUS
<1>5. CASE request \notin Requests
  <2>1. server' = server /\ call' = call /\ trouble' = trouble
    BY <1>4, <1>5 DEF receive_request
  <2>2. Good
    BY <2>1 DEF Good, TInv, Typed
  <2>3. down' \in Seq(Orders) /\ up' \in Seq(Packets) /\ machine' \in Machines /\ Outside'
    BY <1>3, <2>1 DEF TInv, Typed, Outside, wires
  <2>4. TInv'
    BY <2>2, <2>3, GoodStep
  <2>. QED  BY <1>1, <1>2, <2>1, <2>4
<1>6. CASE request \in Requests
  <2>1. CommandsetProcess(request) /\ trouble' = trouble \cup (IF up # <<>> THEN {"crossed"} ELSE {})
    BY <1>4, <1>6 DEF receive_request
  <2>2. trouble' = {} => up = <<>>
    BY <2>1
  <2>3. Outside'
    BY <1>3, <2>1 DEF TInv, Typed, Outside
  <2>4. PICK todo : todo = Script(request)
    OBVIOUS
  <2>5. /\ call' = Run(todo) /\ todo \in Seq(Commands)
        /\ request = "Resume" => Leading(todo, "Go") /\ todo # <<>>
        /\ request = "Suspend" => Leading(todo, "Stop") /\ todo # <<>>
        /\ request = "Dispose" => todo = <<"Close">>
        /\ request \notin {"Resume", "Suspend", "Dispose"} => Threading(todo)
        /\ request = "Other" => todo = <<>>
    <3>1. call' = Run(Script(request))
      BY <2>1 DEF CommandsetProcess
    <3>. QED  BY <2>4, <3>1, ScriptForm
  <2>6. server \in Servers
    BY DEF TInv, Typed
  <2>8. ASSUME request = "Dispose"
        PROVE  TInv' /\ server'.pc = "detach" /\ server'.running = FALSE /\ call'.at = "send"
    <3>1. server' = [server EXCEPT !.pc = "detach", !.running = FALSE, !.fd = Nobody]
      BY <2>1, <2>8, ProcessCases
    <3>2. PICK s : s = [server EXCEPT !.pc = "detach", !.running = FALSE, !.fd = Nobody]
      OBVIOUS
    <3>3. s \in Servers /\ s.pc = "detach" /\ s.running = FALSE
      BY <2>6, <3>2 DEF Servers, Pcs
    <3>4. Form(s, todo) /\ todo # <<>>
      BY <2>5, <2>8, <3>3, One DEF Form
    <3>5. TInv' /\ call'.todo = todo /\ call'.at = IF todo = <<>> THEN "idle" ELSE "send"
      BY <1>3, <2>3, <2>5, <3>1, <3>2, <3>3, <3>4, Moves
    <3>. QED  BY <3>1, <3>2, <3>3, <3>4, <3>5
  <2>9. ASSUME request = "Other"
        PROVE  TInv' /\ server'.pc = "run" /\ server'.running = server.running /\ call'.at = "idle"
    <3>1. server' = [server EXCEPT !.pc = "run"]
      BY <2>1, <2>9, ProcessCases
    <3>2. PICK s : s = [server EXCEPT !.pc = "run"]
      OBVIOUS
    <3>3. s \in Servers /\ s.pc = "run" /\ s.running = server.running /\ s.fd = server.fd /\ s.open = server.open
      BY <2>6, <3>2 DEF Servers, Pcs
    <3>4. Form(s, todo) /\ todo = <<>>
      BY <1>2, <2>5, <2>9, <3>3 DEF Form
    <3>5. TInv' /\ call'.todo = todo /\ call'.at = IF todo = <<>> THEN "idle" ELSE "send"
      BY <1>3, <2>3, <2>5, <3>1, <3>2, <3>3, <3>4, Moves
    <3>. QED  BY <3>1, <3>2, <3>3, <3>4, <3>5
  <2>10. ASSUME request \notin {"Dispose", "Other"}
         PROVE  /\ TInv' /\ server'.pc = "command" /\ server'.running = server.running /\ call'.at \in {"idle", "send"}
                /\ server'.request \in {"Resume", "Suspend"} => call'.at = "send"
    <3>1. server' = [server EXCEPT !.pc = "command", !.request = request]
      BY <2>1, <2>10, ProcessCases
    <3>2. PICK s : s = [server EXCEPT !.pc = "command", !.request = request]
      OBVIOUS
    <3>3. s \in Servers /\ s.pc = "command" /\ s.running = server.running /\ s.fd = server.fd /\ s.open = server.open /\ s.request = request
      BY <1>6, <2>6, <3>2 DEF Servers, Pcs
    <3>4. Form(s, todo)
      BY <1>2, <2>5, <2>10, <3>3 DEF Form, Scripts
    <3>5. TInv' /\ call'.todo = todo /\ call'.at = IF todo = <<>> THEN "idle" ELSE "send"
      BY <1>3, <2>3, <2>5, <3>1, <3>2, <3>3, <3>4, Moves
    <3>. QED  BY <2>5, <3>1, <3>2, <3>3, <3>5
  <2>. QED  BY <1>1, <1>2, <2>2, <2>8, <2>9, <2>10
<1>. QED
  BY <1>5, <1>6

-----------------------------------------------------------------------------
(***************************************************************************)
(* The machine: the answer to each command, before and after the handshake *)
(* in front of it, and what it does to the machine.                        *)
(***************************************************************************)
Item(n, value) == [kind |-> "data", n |-> n, value |-> value]
Least(command) == IF command \in Parsed THEN 2 ELSE 1
Full(command, answer) ==
  /\ command = "Open" => answer = <<>>
  /\ command = "Close" => answer = <<Closed>>
  /\ command \in {"Go", "Stop"} => answer = <<Size(0), Size(1), Item(1, 0)>> \/ answer = <<Size(1), Item(1, 0)>>
  /\ command \notin {"Open", "Close", "Go", "Stop"} =>
       \/ answer = <<Size(0)>>
       \/ \E n, value \in Nat : n >= Least(command) /\ answer = <<Size(n), Item(n, value)>>

LEMMA PacketTypes ==
  ASSUME NEW n \in Nat, NEW value \in Nat
  PROVE  /\ Handshake \in Packets /\ Closed \in Packets /\ Size(n) \in Packets /\ Item(n, value) \in Packets
         /\ Handshake.kind = "handshake" /\ Closed.kind = "closed"
         /\ Size(n).kind = "size" /\ Size(n).n = n
         /\ Item(n, value).kind = "data" /\ Item(n, value).n = n /\ Item(n, value).value = value
         /\ Data(n, value) = <<Size(n), Item(n, value)>>
         /\ <<Size(n), Item(n, value)>> \in Seq(Packets)
<1>1. Handshake \in Packets /\ Closed \in Packets /\ Size(n) \in Packets /\ Item(n, value) \in Packets
  BY DEF Handshake, Closed, Size, Item, Packets
<1>2. /\ Handshake.kind = "handshake" /\ Closed.kind = "closed"
      /\ Size(n).kind = "size" /\ Size(n).n = n
      /\ Item(n, value).kind = "data" /\ Item(n, value).n = n /\ Item(n, value).value = value
  BY DEF Handshake, Closed, Size, Item
<1>3. Data(n, value) = <<Size(n), Item(n, value)>>
  BY DEF Data, Item
<1>4. <<Size(n), Item(n, value)>> \in Seq(Packets)
  BY <1>1
<1>. QED
  BY <1>1, <1>2, <1>3, <1>4

LEMMA FullTypes ==
  ASSUME NEW command, NEW answer, Full(command, answer)
  PROVE  answer \in Seq(Packets)
<1>1. Size(0) \in Packets /\ Size(1) \in Packets /\ Item(1, 0) \in Packets /\ Closed \in Packets
  BY DEF Size, Item, Closed, Packets
<1>2. <<Size(0), Size(1), Item(1, 0)>> \in Seq(Packets) /\ <<Size(1), Item(1, 0)>> \in Seq(Packets)
  BY <1>1
<1>3. <<>> \in Seq(Packets) /\ <<Size(0)>> \in Seq(Packets) /\ <<Closed>> \in Seq(Packets)
  BY <1>1
<1>4. \A n, value \in Nat : <<Size(n), Item(n, value)>> \in Seq(Packets)
  BY PacketTypes
<1>. QED
  BY <1>2, <1>3, <1>4 DEF Full

LEMMA Joined ==
  ASSUME NEW a, NEW b, NEW c
  PROVE  <<a>> \o <<b, c>> = <<a, b, c>>
<1>1. PICK S : a \in S /\ b \in S /\ c \in S
  <2>1. a \in {a, b, c} /\ b \in {a, b, c} /\ c \in {a, b, c}
    OBVIOUS
  <2>. QED  BY <2>1
<1>2. PICK s : s = <<b, c>> /\ s \in Seq(S)
  <2>1. <<b, c>> \in Seq(S)
    BY <1>1
  <2>. QED  BY <2>1
<1>3. PICK r : r = <<a, b, c>> /\ r \in Seq(S)
  <2>1. <<a, b, c>> \in Seq(S)
    BY <1>1
  <2>. QED  BY <2>1
<1>4. PICK t : t = <<a>> \o s
  OBVIOUS
<1>5. a \in S /\ Len(s) = 2 /\ Len(r) = 3
  BY <1>1, <1>2, <1>3
<1>6. t \in Seq(S) /\ t # <<>> /\ Head(t) = a /\ Tail(t) = s
  BY <1>1, <1>2, <1>4, Before
<1>7. Len(t) = 3 /\ t[1] = a /\ t[2] = s[1] /\ t[3] = s[2]
  <2>1. Len(t) \in Nat \ {0} /\ Len(s) = Len(t) - 1 /\ a = t[1] /\ \A i \in 1..Len(s) : s[i] = t[i + 1]
    BY <1>6, Rests
  <2>2. s[1] = t[1 + 1] /\ s[2] = t[2 + 1] /\ 1 + 1 = 2 /\ 2 + 1 = 3
    BY <1>5, <2>1
  <2>3. PICK n \in Nat : n = Len(t)
    BY <2>1
  <2>4. 2 = n - 1
    BY <1>5, <2>1, <2>3
  <2>5. n = 3
    <3>1. \A k \in Nat : 2 = k - 1 => k = 3
      OBVIOUS
    <3>. QED  BY <2>3, <2>4, <3>1
  <2>. QED  BY <2>1, <2>2, <2>3, <2>5
<1>8. r[1] = a /\ r[2] = s[1] /\ r[3] = s[2]
  BY <1>2, <1>3
<1>9. t = r
  <2>1. \A i \in 1..3 : t[i] = r[i]
    BY <1>7, <1>8
  <2>. QED  BY <1>3, <1>5, <1>6, <1>7, <2>1, SeqEqual
<1>. QED
  BY <1>2, <1>3, <1>4, <1>9

\* The commands in groups, each with its answers.
LEMMA AnswerCases ==
  ASSUME NEW command
  PROVE  /\ command.name = "Open" => Answers(command) = {<<>>}
         /\ command.name = "Close" => Answers(command) = {<<Closed>>}
         /\ command.name \in {"Go", "Stop"} => Answers(command) = {Nothing \o Data(1, 0), Data(1, 0)}
         /\ command.name = "GetStatus" => Answers(command) = {Nothing, Data(1, 0)}
         /\ command.name = "GetConsoleMessage" => Answers(command) = {Data(2, length) : length \in {0, 1}}
         /\ command.name = "GetModulesList" => Answers(command) = {Data(2, (command.offset + 1) % MaxModules)}
         /\ command.name = "GetThreadsList" => Answers(command) = {Data(2, n) : n \in 0..MaxThreads} \cup {Nothing}
         /\ command.name \in Attached => Answers(command) = {Data(2, 0)}
         /\ command.name = "Unknown11" => Answers(command) = {Data(2, address) : address \in {0, 1}}
         /\ command.name \in OfAThread /\ command.name # "Unknown11" => Answers(command) = {Data(2, 0), Nothing}
         /\ command.name \notin {"Open", "Close", "Go", "Stop", "GetStatus", "GetConsoleMessage", "GetModulesList", "GetThreadsList"}
              \cup Attached \cup OfAThread => Answers(command) = {Nothing}
<1>1. PICK name : name = command.name
  OBVIOUS
<1>2. Attached \cap ({"Open", "Close", "Go", "Stop", "GetStatus", "GetConsoleMessage", "GetModulesList", "GetThreadsList"} \cup OfAThread) = {}
  BY DEF Attached, OfAThread, Thread
<1>3. OfAThread \cap {"Open", "Close", "Go", "Stop", "GetStatus", "GetConsoleMessage", "GetModulesList", "GetThreadsList"} = {}
      /\ "Unknown11" \in OfAThread
  BY DEF OfAThread, Thread
<1>4. PICK answers : answers = Answers(command)
  OBVIOUS
<1>5. answers =
       CASE name = "Open"              -> {<<>>}
         [] name = "Close"             -> {<<Closed>>}
         [] name \in {"Go", "Stop"}    -> {Nothing \o Data(1, 0), Data(1, 0)}
         [] name = "GetStatus"         -> {Nothing, Data(1, 0)}
         [] name = "GetConsoleMessage" -> {Data(2, length) : length \in {0, 1}}
         [] name = "GetModulesList"    -> {Data(2, (command.offset + 1) % MaxModules)}
         [] name = "GetThreadsList"    -> {Data(2, n) : n \in 0..MaxThreads} \cup {Nothing}
         [] name \in Attached          -> {Data(2, 0)}
         [] name = "Unknown11"         -> {Data(2, address) : address \in {0, 1}}
         [] name \in OfAThread \ {"Unknown11"} -> {Data(2, 0), Nothing}
         [] OTHER                      -> {Nothing}
  BY <1>1, <1>4, Zenon DEF Answers
<1>6. /\ name = "Open" => answers = {<<>>}
      /\ name = "Close" => answers = {<<Closed>>}
      /\ name \in {"Go", "Stop"} => answers = {Nothing \o Data(1, 0), Data(1, 0)}
      /\ name = "GetStatus" => answers = {Nothing, Data(1, 0)}
  BY <1>2, <1>3, <1>5, Zenon
<1>7. /\ name = "GetConsoleMessage" => answers = {Data(2, length) : length \in {0, 1}}
      /\ name = "GetModulesList" => answers = {Data(2, (command.offset + 1) % MaxModules)}
      /\ name = "GetThreadsList" => answers = {Data(2, n) : n \in 0..MaxThreads} \cup {Nothing}
  BY <1>2, <1>3, <1>5, Zenon
<1>8. /\ name \in Attached => answers = {Data(2, 0)}
      /\ name = "Unknown11" => answers = {Data(2, address) : address \in {0, 1}}
  <2>1. name \in Attached \cup {"Unknown11"} =>
          /\ name # "Open" /\ name # "Close" /\ name \notin {"Go", "Stop"} /\ name # "GetStatus"
          /\ name # "GetConsoleMessage" /\ name # "GetModulesList" /\ name # "GetThreadsList"
    BY <1>2, <1>3
  <2>2. name \in Attached => name # "Unknown11" /\ name \notin OfAThread
    BY <1>2, <1>3
  <2>. QED  BY <1>5, <2>1, <2>2, Zenon
<1>9. name \in OfAThread /\ name # "Unknown11" => answers = {Data(2, 0), Nothing}
  BY <1>2, <1>3, <1>5, Zenon
<1>10. name \notin {"Open", "Close", "Go", "Stop", "GetStatus", "GetConsoleMessage", "GetModulesList", "GetThreadsList"}
              \cup Attached \cup OfAThread => answers = {Nothing}
  BY <1>2, <1>3, <1>5, Zenon
<1>. QED
  BY <1>1, <1>4, <1>6, <1>7, <1>8, <1>9, <1>10

LEMMA AnswerForm ==
  ASSUME NEW command \in Orders, NEW answer \in Answers(command)
  PROVE  Full(command.name, answer)
<1>1. PICK name : name = command.name
  OBVIOUS
<1>2. PICK answers : answers = Answers(command)
  OBVIOUS
<1>3. \A n, value \in Nat : Data(n, value) = <<Size(n), Item(n, value)>>
  BY PacketTypes
<1>4. Nothing = <<Size(0)>>
  BY DEF Nothing
<1>5. Attached \cap ({"Open", "Close", "Go", "Stop"} \cup Parsed) = {} /\ OfAThread \cap {"Open", "Close", "Go", "Stop"} = {}
      /\ Parsed = OfAThread \cup {"GetConsoleMessage", "GetModulesList", "GetThreadsList"}
      /\ "Unknown11" \in OfAThread
  BY DEF Attached, OfAThread, Thread, Parsed
<1>6. Least(name) \in {1, 2}
  BY DEF Least
<1>7. CASE name = "Open"
  <2>1. answers = {<<>>}
    BY <1>1, <1>2, <1>7, AnswerCases
  <2>. QED  BY <1>1, <1>2, <1>7, <2>1 DEF Full
<1>8. CASE name = "Close"
  <2>1. answer = <<Closed>>
    BY <1>1, <1>8, AnswerCases
  <2>. QED  BY <1>1, <1>8, <2>1 DEF Full
<1>9. CASE name \in {"Go", "Stop"}
  <2>1. answer = Nothing \o Data(1, 0) \/ answer = Data(1, 0)
    <3>1. answers = {Nothing \o Data(1, 0), Data(1, 0)}
      BY <1>1, <1>2, <1>9, AnswerCases
    <3>. QED  BY <1>2, <3>1
  <2>2. Data(1, 0) = <<Size(1), Item(1, 0)>>
    BY <1>3
  <2>3. PICK a, b, c : a = Size(0) /\ b = Size(1) /\ c = Item(1, 0)
    OBVIOUS
  <2>4. <<a>> \o <<b, c>> = <<a, b, c>>
    BY Joined
  <2>5. answer = <<a, b, c>> \/ answer = <<b, c>>
    BY <1>4, <2>1, <2>2, <2>3, <2>4
  <2>. QED  BY <1>1, <1>9, <2>3, <2>5 DEF Full
<1>10. CASE name \notin {"Open", "Close", "Go", "Stop"}
  <2>1. ASSUME NEW value \in Nat, answer = Data(2, value)  PROVE Full(name, answer)
    <3>1. answer = <<Size(2), Item(2, value)>>
      BY <1>3, <2>1
    <3>2. 2 \in Nat /\ 2 >= Least(name)
      BY <1>6
    <3>. QED  BY <1>10, <3>1, <3>2 DEF Full
  <2>2. ASSUME answer = Nothing  PROVE Full(name, answer)
    BY <1>4, <1>10, <2>2 DEF Full
  <2>3. CASE name = "GetStatus"
    <3>1. answer = Nothing \/ answer = Data(1, 0)
      <4>1. answers = {Nothing, Data(1, 0)}
        BY <1>1, <1>2, <2>3, AnswerCases
      <4>. QED  BY <1>2, <4>1
    <3>2. Least(name) = 1
      BY <1>5, <2>3 DEF Least, OfAThread, Thread
    <3>3. answer = Data(1, 0) => answer = <<Size(1), Item(1, 0)>> /\ 1 >= Least(name)
      BY <1>3, <3>2
    <3>. QED  BY <1>1, <1>10, <2>2, <3>1, <3>3 DEF Full
  <2>4. CASE name = "GetConsoleMessage"
    <3>1. PICK length \in {0, 1} : answer = Data(2, length)
      <4>1. answers = {Data(2, length) : length \in {0, 1}}
        BY <1>1, <1>2, <2>4, AnswerCases
      <4>. QED  BY <1>2, <4>1
    <3>. QED  BY <1>1, <2>1, <3>1
  <2>5. CASE name = "GetModulesList"
    <3>1. PICK offset : offset = (command.offset + 1) % MaxModules
      OBVIOUS
    <3>2. offset \in Nat
      BY <3>1, BoundsAssumption DEF Orders
    <3>3. answer = Data(2, offset)
      BY <1>1, <2>5, <3>1, AnswerCases
    <3>. QED  BY <1>1, <2>1, <3>2, <3>3
  <2>6. CASE name = "GetThreadsList"
    <3>1. answer = Nothing \/ \E n \in 0..MaxThreads : answer = Data(2, n)
      <4>1. answers = {Data(2, n) : n \in 0..MaxThreads} \cup {Nothing}
        BY <1>1, <1>2, <2>6, AnswerCases
      <4>. QED  BY <1>2, <4>1
    <3>2. \A n \in 0..MaxThreads : n \in Nat
      BY BoundsAssumption
    <3>. QED  BY <1>1, <2>1, <2>2, <3>1, <3>2
  <2>7. CASE name \in Attached
    <3>1. answer = Data(2, 0)
      BY <1>1, <2>7, AnswerCases
    <3>. QED  BY <1>1, <2>1, <3>1
  <2>8. CASE name = "Unknown11"
    <3>1. PICK address \in {0, 1} : answer = Data(2, address)
      BY <1>1, <2>8, AnswerCases
    <3>. QED  BY <1>1, <2>1, <3>1
  <2>9. CASE name \in OfAThread /\ name # "Unknown11"
    <3>1. answer = Data(2, 0) \/ answer = Nothing
      BY <1>1, <2>9, AnswerCases
    <3>. QED  BY <1>1, <2>1, <2>2, <3>1
  <2>10. CASE name \notin {"GetStatus", "GetConsoleMessage", "GetModulesList", "GetThreadsList"} \cup Attached \cup OfAThread
    <3>1. answer = Nothing
      BY <1>1, <1>10, <2>10, AnswerCases
    <3>. QED  BY <1>1, <2>2, <3>1
  <2>. QED  BY <2>3, <2>4, <2>5, <2>6, <2>7, <2>8, <2>9, <2>10
<1>. QED
  BY <1>7, <1>8, <1>9, <1>10

\* What a command does to the machine.
LEMMA AfterCases ==
  ASSUME NEW command \in Orders, NEW answer, machine \in Machines, NEW m \in After(command, answer)
  PROVE  /\ m \in Machines
         /\ command.name \in {"Open", "Close", "Stop"} => m.running = FALSE
         /\ command.name = "Go" => m.running = TRUE
         /\ command.name \notin {"Open", "Close", "Stop", "Go"} => m.running = machine.running
         /\ command.name = "GetStatus" => (m.owes <=> answer = Nothing)
<1>1. PICK name : name = command.name
  OBVIOUS
<1>2. PICK owes : owes = (answer = Nothing)
  OBVIOUS
<1>3. owes \in BOOLEAN /\ (owes <=> answer = Nothing)
  BY <1>2, Zenon
<1>4. CASE name \in {"Open", "Close", "Stop"}
  <2>1. m = [running |-> FALSE, owes |-> FALSE]
    BY <1>1, <1>4 DEF After
  <2>. QED  BY <1>1, <1>4, <2>1 DEF Machines
<1>5. CASE name = "Go"
  <2>1. m = [running |-> TRUE, owes |-> FALSE]
    BY <1>1, <1>5 DEF After
  <2>. QED  BY <1>1, <1>5, <2>1 DEF Machines
<1>6. CASE name = "GetStatus"
  <2>1. After(command, answer) = {[machine EXCEPT !.owes = owes]}
    BY <1>1, <1>2, <1>6, Zenon DEF After
  <2>2. m = [machine EXCEPT !.owes = owes]
    BY <2>1
  <2>. QED  BY <1>1, <1>3, <1>6, <2>2 DEF Machines
<1>7. CASE name \notin {"Open", "Close", "Stop", "Go", "GetStatus"}
  <2>1. m = machine \/ m = [machine EXCEPT !.owes = FALSE]
    BY <1>1, <1>7 DEF After
  <2>. QED  BY <1>1, <1>7, <2>1 DEF Machines
<1>. QED
  BY <1>4, <1>5, <1>6, <1>7

LEMMA Tanswer_command ==
  ASSUME TInv, server.pc # "aborted", answer_command
  PROVE  TInv'
<1>1. down \in Seq(Orders) /\ down # <<>> /\ up \in Seq(Packets) /\ machine \in Machines
  BY DEF TInv, Typed, answer_command
<1>2. PICK answer \in Answers(Head(down)) : up' = up \o <<Handshake>> \o answer /\ machine' \in After(Head(down), answer)
  BY DEF answer_command
<1>3. Head(down) \in Orders /\ down' \in Seq(Orders)
  BY <1>1, Rests DEF answer_command
<1>4. answer \in Seq(Packets)
  BY <1>2, <1>3, AnswerForm, FullTypes
<1>5. <<Handshake>> \in Seq(Packets)
  <2>1. Handshake \in Packets
    BY DEF Handshake, Packets
  <2>. QED  BY <2>1
<1>6. up' \in Seq(Packets)
  BY <1>1, <1>2, <1>4, <1>5
<1>7. machine' \in Machines
  BY <1>1, <1>2, <1>3, AfterCases
<1>8. Good /\ Outside'
  BY DEF answer_command, Good, TInv, Typed, Outside, sockets
<1>. QED
  BY <1>3, <1>6, <1>7, <1>8, GoodStep

LEMMA Tlate_status ==
  ASSUME TInv, server.pc # "aborted", late_status
  PROVE  TInv'
<1>1. up \in Seq(Packets) /\ machine \in Machines
  BY DEF TInv, Typed
<1>2. Data(1, 0) \in Seq(Packets)
  <2>1. \A n, value \in Nat : Data(n, value) = <<Size(n), Item(n, value)>> /\ <<Size(n), Item(n, value)>> \in Seq(Packets)
    BY PacketTypes
  <2>2. Data(1, 0) = <<Size(1), Item(1, 0)>> /\ <<Size(1), Item(1, 0)>> \in Seq(Packets)
    BY <2>1
  <2>. QED  BY <2>2
<1>3. up' \in Seq(Packets)
  BY <1>1, <1>2 DEF late_status
<1>4. machine' \in Machines
  BY <1>1 DEF late_status, Machines
<1>5. down' \in Seq(Orders) /\ Good /\ Outside'
  BY DEF late_status, Good, TInv, Typed, Outside, sockets
<1>. QED
  BY <1>3, <1>4, <1>5, GoodStep

\* What the debuggers do leaves the server alone.
LEMMA Outsiders ==
  ASSUME TInv, debugger, connection' \in Connections, backlog' \in Seq(Debuggers), messages' \in 0..MaxMessages
  PROVE  TInv'
<1>1. Good
  BY DEF debugger, Good, TInv, Typed
<1>2. down' \in Seq(Orders) /\ up' \in Seq(Packets) /\ machine' \in Machines /\ Outside'
  BY DEF debugger, wires, TInv, Typed, Outside
<1>. QED
  BY <1>1, <1>2, GoodStep

LEMMA Tdebugger ==
  ASSUME TInv, server.pc # "aborted", debugger
  PROVE  TInv'
<1>1. PICK d \in Debuggers : Connect(d) \/ Speak(d) \/ Leave(d)
  BY DEF debugger
<1>2. connection \in Connections /\ backlog \in Seq(Debuggers) /\ messages \in 0..MaxMessages
  BY DEF TInv, Typed, Outside
<1>3. PICK nothing \in Requests \cup {"nothing", "Hello", "Other", "several"} : TRUE
  OBVIOUS
<1>4. CASE Connect(d)
  <2>1. connection' = [connection EXCEPT ![d].end = "open"] /\ backlog' = Append(backlog, d) /\ messages' = messages
    BY <1>4 DEF Connect
  <2>2. "open" \in {"none", "open", "closed", "reset"}
    OBVIOUS
  <2>3. connection' \in Connections
    BY <1>2, <1>3, <2>1, <2>2, ConnectionTypes
  <2>4. backlog' \in Seq(Debuggers)
    BY <1>2, <2>1
  <2>. QED  BY <1>2, <2>1, <2>3, <2>4, Outsiders
<1>5. CASE Speak(d)
  <2>1. PICK message \in Requests \cup {"Hello", "Other"} : connection' = [connection EXCEPT
          ![d].inbox = IF @ = "nothing" THEN message ELSE "several", ![d].spoke = TRUE]
    BY <1>5 DEF Speak
  <2>2. PICK inbox : inbox = IF connection[d].inbox = "nothing" THEN message ELSE "several"
    OBVIOUS
  <2>3. inbox \in Requests \cup {"nothing", "Hello", "Other", "several"}
    BY <2>1, <2>2
  <2>4. connection' = [connection EXCEPT ![d].inbox = inbox, ![d].spoke = TRUE]
    BY <2>1, <2>2
  <2>5. PICK end \in {"none", "open", "closed", "reset"} : TRUE
    OBVIOUS
  <2>6. connection' \in Connections
    BY <1>2, <2>3, <2>4, <2>5, ConnectionTypes
  <2>7. backlog' = backlog /\ messages' \in 0..MaxMessages
    BY <1>2, <1>5, BoundsAssumption DEF Speak
  <2>. QED  BY <1>2, <2>6, <2>7, Outsiders
<1>6. CASE Leave(d)
  <2>1. PICK end \in {"closed", "reset"} : connection' = [connection EXCEPT ![d].end = end]
    BY <1>6 DEF Leave
  <2>2. end \in {"none", "open", "closed", "reset"}
    BY <2>1
  <2>3. connection' \in Connections
    BY <1>2, <1>3, <2>1, <2>2, ConnectionTypes
  <2>4. backlog' = backlog /\ messages' = messages
    BY <1>6 DEF Leave
  <2>. QED  BY <1>2, <2>3, <2>4, Outsiders
<1>. QED
  BY <1>1, <1>4, <1>5, <1>6

LEMMA TStep ==
  ASSUME TInv, [Next]_vars
  PROVE  TInv'
<1>1. CASE UNCHANGED vars
  <2>1. Good /\ Outside'
    BY <1>1 DEF vars, Good, TInv, Typed, Outside, sockets
  <2>2. down' \in Seq(Orders) /\ up' \in Seq(Packets) /\ machine' \in Machines
    BY <1>1 DEF vars, wires, TInv, Typed
  <2>. QED  BY <2>1, <2>2, GoodStep
<1>2. ASSUME Next  PROVE TInv'
  <2>1. server.pc # "aborted" /\ (Server \/ usb_error \/ answer_command \/ late_status \/ debugger)
    BY <1>2 DEF Next
  <2>2. ASSUME Send \/ sequence_handshake \/ expect_size \/ ReceiveData \/ closed_socket \/ bad_packet  PROVE TInv'
    BY <2>1, <2>2, TSend, Tsequence_handshake, Texpect_size, TReceiveData, Tclosed_socket, Tbad_packet
  <2>3. ASSUME AcceptConnection \/ InitVisibleClassList \/ Hello \/ GetConsoleMessage \/ receive_request  PROVE TInv'
    BY <2>1, <2>3, TAcceptConnection, TInitVisibleClassList, THello, TGetConsoleMessage, Treceive_request
  <2>4. ASSUME receive_error \/ WaitStatus \/ status_timeout \/ send_response \/ DetachFromDevice  PROVE TInv'
    BY <2>1, <2>4, Treceive_error, TWaitStatus, Tstatus_timeout, Tsend_response, TDetachFromDevice
  <2>. QED  BY <2>1, <2>2, <2>3, <2>4, Tusb_error, Tanswer_command, Tlate_status, Tdebugger DEF Server
<1>. QED
  BY <1>1, <1>2

LEMMA TStart == Init => TInv
<1>1. SUFFICES ASSUME Init  PROVE TInv
  OBVIOUS
<1>2. \A S : <<>> \in Seq(S)
  BY None
<1>3. "idle" \in Ats /\ "accept" \in Pcs
  BY DEF Ats, Pcs
<1>4. call \in Calls /\ call.at = "idle" /\ call.todo = <<>>
  BY <1>1, <1>2, <1>3 DEF Init, Idle, Calls
<1>5. server \in Servers /\ server.pc = "accept"
  BY <1>1, <1>3 DEF Init, Servers
<1>6. machine \in Machines /\ connection \in Connections
  BY <1>1 DEF Init, Machines, Connections
<1>7. Outside
  BY <1>1, <1>2, <1>6, BoundsAssumption DEF Init, Outside
<1>8. Place(server, call) /\ Form(server, call.todo)
  BY <1>4, <1>5 DEF Place, Form
<1>. QED
  BY <1>1, <1>2, <1>4, <1>5, <1>6, <1>7, <1>8 DEF Init, TInv, Typed

\* The state has its types for any debuggers, requests and bounds: whenever the server
\* reads or writes it has a debugger, and whenever it sends commands the mode has its socket.
THEOREM TypeCorrect == Spec => []TypeOK
<1>1. TInv /\ [Next]_vars => TInv'
  BY TStep
<1>. QED
  BY <1>1, TStart, TypeParts, PTL DEF Spec

-----------------------------------------------------------------------------
(***************************************************************************)
(* In step.  While nothing has gone wrong outside the server, the wires    *)
(* hold what the call in progress still expects: its command, or the       *)
(* answer with or without its handshake, or what is left of the answer;    *)
(* and between calls nothing, but for a late status while one is waited    *)
(* for.  The server knows whether the machine runs except between asking   *)
(* for a change and answering the debugger; there it is what was asked for *)
(* that decides, once the last command has been answered (Decided).        *)
(***************************************************************************)
Late == up = <<>> \/ (up = <<Size(1), Item(1, 0)>> /\ ~machine.owes)
Answering ==
  \/ down = <<[name |-> Command, offset |-> call.offset]>> /\ up = <<>>
  \/ down = <<>> /\ Full(Command, up)
  \/ down = <<>> /\ up # <<>> /\ Head(up) = Handshake /\ Full(Command, Tail(up))
Arriving ==
  /\ down = <<>> /\ call.expect >= Least(Command)
  /\ \E value \in Nat : up = <<Item(call.expect, value)>>
  /\ server.pc = "status" => ~machine.owes
Wires ==
  /\ call.at \in {"idle", "send"} /\ server.pc # "wait" => down = <<>> /\ up = <<>>
  /\ call.at = "status" \/ server.pc = "wait" => down = <<>> /\ Late
  /\ call.at \in {"sequence", "packet", "closing"} => Answering
  /\ call.at = "more" => down = <<>> /\ up = <<Size(1), Item(1, 0)>>
  /\ call.at = "data" => Arriving

Decided == call.todo = <<>> \/ (Tail(call.todo) = <<>> /\ call.at # "send" /\ down = <<>>)
Asking == server.pc = "command" /\ server.request \in {"Resume", "Suspend"}
Agree ==
  /\ server.pc \in {"accept", "attach", "hello"} => machine.running = FALSE /\ server.running = FALSE
  /\ server.pc \in {"run", "wait", "status"} \/ (server.pc = "command" /\ ~Asking) => server.running = machine.running
  /\ Asking /\ Decided => machine.running = (server.request = "Resume")
  /\ server.pc = "detach" => server.running = FALSE /\ (Decided => machine.running = FALSE)

Sound == server.pc # "aborted" /\ Wires /\ Agree
SInv == trouble = {} => Sound

\* What an answer begins with.
LEMMA FullHead ==
  ASSUME NEW command, NEW answer, Full(command, answer), answer # <<>>
  PROVE  /\ command # "Open" /\ Head(answer).kind \in {"size", "closed"}
         /\ command = "Close" => Head(answer).kind = "closed" /\ Tail(answer) = <<>>
         /\ Head(answer).kind = "closed" => command = "Close"
         /\ Head(answer).kind = "size" =>
              \/ Head(answer).n = 0 /\ Tail(answer) = <<>> /\ command \notin {"Go", "Stop"}
              \/ Head(answer).n = 0 /\ Tail(answer) = <<Size(1), Item(1, 0)>> /\ command \in {"Go", "Stop"}
              \/ \E value \in Nat : Head(answer).n > 0 /\ Head(answer).n >= Least(command) /\ Tail(answer) = <<Item(Head(answer).n, value)>>
<1>1. Closed.kind = "closed" /\ \A n \in Nat : Size(n).kind = "size" /\ Size(n).n = n
  BY DEF Closed, Size
<1>2. Least(command) \in {1, 2}
  BY DEF Least
<1>3. CASE command = "Close"
  <2>1. answer = <<Closed>>
    BY <1>3 DEF Full
  <2>2. Head(answer) = Closed /\ Tail(answer) = <<>>
    BY <2>1, One
  <2>. QED  BY <1>1, <1>3, <2>2
<1>4. CASE command \in {"Go", "Stop"}
  <2>1. Least(command) = 1
    BY <1>4 DEF Least, Parsed, OfAThread, Thread
  <2>2. CASE answer = <<Size(0), Size(1), Item(1, 0)>>
    <3>1. Head(answer) = Size(0) /\ Tail(answer) = <<Size(1), Item(1, 0)>>
      BY <2>2, Three
    <3>. QED  BY <1>1, <1>4, <3>1
  <2>3. CASE answer = <<Size(1), Item(1, 0)>>
    <3>1. Head(answer) = Size(1) /\ Tail(answer) = <<Item(1, 0)>>
      BY <2>3, Two
    <3>. QED  BY <1>1, <1>4, <2>1, <3>1
  <2>. QED  BY <1>4, <2>2, <2>3 DEF Full
<1>5. CASE command \notin {"Open", "Close", "Go", "Stop"}
  <2>1. CASE answer = <<Size(0)>>
    <3>1. Head(answer) = Size(0) /\ Tail(answer) = <<>>
      BY <2>1, One
    <3>. QED  BY <1>1, <1>5, <3>1
  <2>2. ASSUME NEW n \in Nat, NEW value \in Nat, n >= Least(command), answer = <<Size(n), Item(n, value)>>
        PROVE  command # "Open" /\ command # "Close" /\ Head(answer).kind = "size" /\ Head(answer).n = n
               /\ n > 0 /\ Tail(answer) = <<Item(n, value)>>
    <3>1. Head(answer) = Size(n) /\ Tail(answer) = <<Item(n, value)>>
      BY <2>2, Two
    <3>. QED  BY <1>1, <1>2, <1>5, <2>2, <3>1
  <2>. QED  BY <1>5, <2>1, <2>2 DEF Full
<1>. QED
  BY <1>3, <1>4, <1>5 DEF Full

\* Nothing on the wires, and a server that has decided no more than it had.
LEMMA EmptyWires ==
  ASSUME down' = <<>>, up' = <<>>, call'.at \in {"idle", "send", "status"}
  PROVE  Wires'
BY DEF Wires, Late

LEMMA AgreeKept ==
  ASSUME Agree, server'.pc = server.pc, server'.running = server.running, server'.request = server.request,
         machine'.running = machine.running, (Asking \/ server.pc = "detach") /\ Decided' => Decided
  PROVE  Agree'
<1>1. Asking' <=> Asking
  BY DEF Asking
<1>2. CASE Asking
  BY <1>1, <1>2 DEF Agree, Asking
<1>3. CASE ~Asking
  <2>1. server.pc \in {"accept", "attach", "hello"} => machine'.running = FALSE /\ server'.running = FALSE
    BY DEF Agree
  <2>2. server.pc \in {"run", "wait", "status", "command"} => server'.running = machine'.running
    BY <1>3 DEF Agree
  <2>3. server.pc = "detach" => server'.running = FALSE /\ (Decided' => machine'.running = FALSE)
    BY DEF Agree
  <2>. QED  BY <1>1, <1>3, <2>1, <2>2, <2>3 DEF Agree
<1>. QED
  BY <1>2, <1>3

\* The last answer has been read: nothing is decided that was not when it was read.
LEMMA RestDecided ==
  ASSUME TInv, call.todo # <<>>, call.at # "send", down = <<>>, call'.todo = Tail(call.todo), call'.at \in {"idle", "send"}, TInv'
  PROVE  Decided' => Decided
<1>1. ASSUME Decided'  PROVE call'.todo = <<>>
  <2>1. call'.at = "idle" => call'.todo = <<>>
    BY DEF TInv, Place
  <2>. QED  BY <1>1, <2>1 DEF Decided
<1>. QED
  BY <1>1 DEF Decided

-----------------------------------------------------------------------------
LEMMA SSend ==
  ASSUME TInv, Sound, Send
  PROVE  Sound'
<1>1. /\ TInv' /\ call'.at \in {"sequence", "closing", "packet"} /\ call'.todo = call.todo /\ call'.offset = call.offset
      /\ server'.pc = server.pc /\ server'.running = server.running /\ server'.request = server.request
  BY TSend DEF Sound
<1>2. call.at = "send" /\ server.pc # "wait" /\ call.todo # <<>>
  BY DEF Send, TInv, Place, Sound, Form
<1>3. down = <<>> /\ up = <<>>
  BY <1>2 DEF Sound, Wires
<1>4. PICK order : order = [name |-> Command, offset |-> call.offset]
  OBVIOUS
<1>5. down' = <<order>> /\ up' = up /\ machine' = machine
  BY <1>3, <1>4 DEF Send
<1>6. Answering'
  BY <1>1, <1>3, <1>4, <1>5 DEF Answering, Command
<1>7. Wires'
  BY <1>1, <1>2, <1>6 DEF Wires
<1>8. ~Decided'
  <2>1. <<order>> # <<>>
    BY One
  <2>. QED  BY <1>1, <1>2, <1>5, <2>1 DEF Decided
<1>9. Agree'
  BY <1>1, <1>5, <1>8, AgreeKept DEF Sound
<1>. QED
  BY <1>1, <1>7, <1>9 DEF Sound

\* A handshake in front is followed by the answer; there is none in front of the rest of one.
LEMMA Ssequence_handshake ==
  ASSUME TInv, Sound, sequence_handshake
  PROVE  Sound'
<1>1. /\ call.at \in {"packet", "more", "status", "closing", "sequence"} /\ up # <<>> /\ Head(up).kind = "handshake"
      /\ up' = Tail(up) /\ server' = server /\ down' = down /\ machine' = machine
  BY DEF sequence_handshake, Reply
<1>2. TInv'
  BY Tsequence_handshake DEF Sound
<1>3. <<Size(1), Item(1, 0)>> # up
  <2>1. Size(1).kind = "size" /\ Head(<<Size(1), Item(1, 0)>>) = Size(1)
    BY Two DEF Size
  <2>. QED  BY <1>1, <2>1
<1>4. call.at \in {"packet", "closing", "sequence"}
  BY <1>1, <1>3 DEF Sound, Wires, Late
<1>5. down = <<>> /\ Full(Command, Tail(up))
  <2>1. Answering
    BY <1>4 DEF Sound, Wires
  <2>2. ~Full(Command, up)
    BY <1>1, FullHead
  <2>. QED  BY <1>1, <2>1, <2>2 DEF Answering
<1>6. server'.pc # "aborted" /\ server.pc # "aborted"
  BY <1>1 DEF Sound
<1>7. CASE call.at # "sequence"
  <2>1. call' = call
    BY <1>7 DEF sequence_handshake
  <2>2. Command' = Command
    BY <2>1 DEF Command
  <2>3. Answering'
    BY <1>1, <1>5, <2>2 DEF Answering
  <2>4. server.pc # "wait"
    BY <1>4, IdleCall DEF TInv, Form, Sound
  <2>5. Wires'
    BY <1>1, <1>4, <1>7, <2>1, <2>3, <2>4 DEF Wires
  <2>6. Decided' => Decided
    BY <1>1, <2>1 DEF Decided
  <2>7. Agree'
    BY <1>1, <2>6, AgreeKept DEF Sound
  <2>. QED  BY <1>6, <2>5, <2>7 DEF Sound
<1>8. CASE call.at = "sequence"
  <2>1. call' = Run(Rest) /\ call.todo # <<>> /\ Command = "Open"
    BY <1>8 DEF sequence_handshake, TInv, Place, Command
  <2>2. call.todo \in Seq(Commands)
    BY DEF TInv, Typed, Calls
  <2>3. PICK todo : todo = Tail(call.todo)
    OBVIOUS
  <2>4. todo \in Seq(Commands)
    BY <2>1, <2>2, <2>3, Rests
  <2>5. call'.todo = todo /\ call'.at \in {"idle", "send"}
    <3>1. call' = Run(todo)
      BY <2>1, <2>3 DEF Rest
    <3>. QED  BY <2>4, <3>1, Running_a_script
  <2>6. down' = <<>> /\ up' = <<>>
    BY <1>1, <1>5, <2>1 DEF Full
  <2>7. Wires'
    BY <2>5, <2>6, EmptyWires
  <2>8. Decided' => Decided
    BY <1>2, <1>5, <1>8, <2>1, <2>3, <2>5, RestDecided
  <2>9. Agree'
    BY <1>1, <2>8, AgreeKept DEF Sound
  <2>. QED  BY <1>6, <2>7, <2>9 DEF Sound
<1>. QED
  BY <1>7, <1>8

\* The whole answer has been read, and what it says is done.
LEMMA SAnswered ==
  ASSUME TInv, Sound, TInv', call.todo # <<>>, Command \notin {"Open", "Close"}, NEW n \in Nat, NEW value \in Nat, Answered(n, value),
         call.at # "send", down = <<>>, UNCHANGED <<down, machine>>, up' = <<>>
  PROVE  Sound'
<1>1. Good /\ server'.pc # "aborted" /\ server'.running = server.running /\ server'.request = server.request
  BY AnsweredGood DEF Sound
<1>2. call.todo \in Seq(Commands) /\ server.pc \in Pcs /\ server.pc # "aborted" /\ Form(server, call.todo) /\ Command = Head(call.todo)
  BY DEF TInv, Typed, Calls, Servers, Sound, Command
<1>3. PICK todo : todo = Todo(n, value)
  OBVIOUS
<1>4. /\ todo \in Seq(Commands)
      /\ Command # "GetStatus" => server.pc # "status"
      /\ Command = "GetStatus" => server.pc \in {"run", "status"}
  BY <1>2, <1>3, TodoForm
<1>5. call'.todo = todo /\ call'.at \in {"idle", "send"}
  <2>1. PICK c : c = Run(todo)
    OBVIOUS
  <2>2. c.todo = todo /\ c.at \in {"idle", "send"} /\ c \in Calls
    BY <1>4, <2>1, Running_a_script
  <2>3. PICK offset : call' = [c EXCEPT !.offset = offset]
    BY <1>3, <2>1 DEF Answered
  <2>. QED  BY <2>2, <2>3 DEF Calls
<1>6. Wires'
  BY <1>5, EmptyWires
<1>7. CASE Command = "GetStatus"
  <2>1. PICK pc \in {"wait", "run"} : server' = [server EXCEPT !.pc = pc]
    BY <1>7 DEF Answered
  <2>2. server'.pc \in {"wait", "run"}
    BY <2>1 DEF TInv, Typed, Servers
  <2>3. server.running = machine.running
    BY <1>4, <1>7 DEF Sound, Agree
  <2>4. Agree'
    BY <1>1, <2>2, <2>3 DEF Agree, Asking
  <2>. QED  BY <1>1, <1>6, <2>4 DEF Sound
<1>8. CASE Command # "GetStatus"
  <2>1. server' = server
    BY <1>8 DEF Answered
  <2>2. server.pc # "detach"
    BY <1>2, FormHead
  <2>3. ASSUME Asking  PROVE todo = Tail(call.todo)
    <3>1. Command \in Preparing \cup {"Go", "Stop"}
      BY <1>2, <2>3, FormHead DEF Asking
    <3>2. Command \notin OfAThread /\ Command # "GetModulesList" /\ Command # "GetThreadsList"
          /\ Command # "Unknown11" /\ Command # "GetConsoleMessage"
      BY <3>1 DEF Preparing, OfAThread, Thread
    <3>3. todo = Rest
      BY <1>3, <3>2, TodoCases
    <3>. QED  BY <3>3 DEF Rest
  <2>4. Asking /\ Decided' => Decided
    BY <1>5, <2>3, RestDecided
  <2>5. Agree'
    BY <2>1, <2>2, <2>4, AgreeKept DEF Sound
  <2>. QED  BY <1>1, <1>6, <2>5 DEF Sound
<1>. QED
  BY <1>7, <1>8

\* The size that has been read is that of what is left to read.
LEMMA Sexpect_size ==
  ASSUME TInv, Sound, expect_size
  PROVE  Sound'
<1>1. /\ call.at \in {"packet", "more", "status"} /\ up # <<>> /\ Head(up).kind = "size"
      /\ up' = Tail(up) /\ down' = down /\ machine' = machine
  BY DEF expect_size, Reply
<1>2. TInv' /\ server.pc # "aborted"
  BY Texpect_size DEF Sound
<1>3. call \in Calls /\ call.todo # <<>> /\ (call.at = "status" => server.pc = "status") /\ Form(server, call.todo) /\ server.pc # "wait"
  BY <1>1, <1>2 DEF TInv, Typed, Place, Form
<1>4. server.pc = "status" => Command = "GetStatus"
  BY One DEF Command, Form, TInv, Sound
<1>5. call.at \in {"packet", "more"} => Command \notin {"Open", "Close"}
  BY DEF TInv, Place, Command
<1>6. Command \notin {"Open", "Close"}
  BY <1>1, <1>3, <1>4, <1>5
<1>7. Size(1).kind = "size" /\ Size(1).n = 1 /\ Handshake.kind = "handshake"
  BY DEF Size, Handshake
<1>8. /\ down = <<>>
      /\ \/ Head(up).n = 0 /\ Tail(up) = <<>> /\ ~ReadsOn
         \/ Head(up).n = 0 /\ Tail(up) = <<Size(1), Item(1, 0)>> /\ ReadsOn
         \/ \E value \in Nat : Head(up).n > 0 /\ Head(up).n >= Least(Command) /\ Tail(up) = <<Item(Head(up).n, value)>>
      /\ server.pc = "status" => ~machine.owes
  <2>1. CASE call.at = "packet"
    <3>1. Answering /\ server.pc # "status"
      BY <2>1 DEF Sound, Wires, TInv, Place
    <3>2. down = <<>> /\ Full(Command, up)
      BY <1>1, <1>7, <3>1 DEF Answering
    <3>. QED  BY <1>1, <3>1, <3>2, FullHead DEF ReadsOn
  <2>2. CASE call.at \in {"more", "status"}
    <3>1. down = <<>> /\ up = <<Size(1), Item(1, 0)>> /\ (call.at = "status" => ~machine.owes)
      BY <1>1, <2>2 DEF Sound, Wires, Late
    <3>2. Head(up) = Size(1) /\ Tail(up) = <<Item(1, 0)>>
      BY <3>1, Two
    <3>3. Least(Command) = 1
      <4>1. call.at = "more" => Command \in {"Go", "Stop"}
        BY DEF TInv, Place, Command
      <4>. QED  BY <1>3, <1>4, <2>2, <4>1 DEF Least, Parsed, OfAThread, Thread
    <3>4. server.pc = "status" => call.at = "status"
      BY <2>2 DEF TInv, Place
    <3>5. Head(up).n > 0 /\ Head(up).n >= Least(Command) /\ Tail(up) = <<Item(Head(up).n, 0)>>
      BY <1>7, <3>2, <3>3
    <3>. QED  BY <3>1, <3>4, <3>5
  <2>. QED  BY <1>1, <2>1, <2>2
<1>9. CASE Head(up).n > 0 /\ call' = [call EXCEPT !.at = "data", !.expect = Head(up).n] /\ UNCHANGED server
  <2>1. PICK value \in Nat : Head(up).n >= Least(Command) /\ Tail(up) = <<Item(Head(up).n, value)>>
    <3>1. Head(up).n # 0
      BY <1>9
    <3>. QED  BY <1>8, <3>1
  <2>2. call'.at = "data" /\ call'.expect = Head(up).n /\ call'.todo = call.todo
    BY <1>3, <1>9 DEF Calls
  <2>3. Command' = Command
    BY <2>2 DEF Command
  <2>4. Arriving'
    BY <1>1, <1>8, <1>9, <2>1, <2>2, <2>3 DEF Arriving
  <2>5. Wires'
    BY <1>3, <1>9, <2>2, <2>4 DEF Wires
  <2>6. Decided' => Decided
    BY <1>1, <2>2 DEF Decided
  <2>7. Agree'
    BY <1>1, <1>9, <2>6, AgreeKept DEF Sound
  <2>. QED  BY <1>2, <1>9, <2>5, <2>7 DEF Sound
<1>10. CASE Head(up).n = 0 /\ ReadsOn /\ call' = [call EXCEPT !.at = "more"] /\ UNCHANGED server
  <2>1. Tail(up) = <<Size(1), Item(1, 0)>>
    BY <1>8, <1>10
  <2>2. call'.at = "more" /\ call'.todo = call.todo
    BY <1>3, <1>10 DEF Calls
  <2>3. Wires'
    BY <1>1, <1>3, <1>8, <1>10, <2>1, <2>2 DEF Wires
  <2>4. Decided' => Decided
    BY <1>1, <2>2 DEF Decided
  <2>5. Agree'
    BY <1>1, <1>10, <2>4, AgreeKept DEF Sound
  <2>. QED  BY <1>2, <1>10, <2>3, <2>5 DEF Sound
<1>11. CASE Head(up).n = 0 /\ ~ReadsOn /\ Answered(0, 0)
  <2>1. PICK zero \in Nat : zero = 0
    OBVIOUS
  <2>2. Answered(zero, zero)
    BY <1>11, <2>1
  <2>3. up' = <<>>
    BY <1>1, <1>8, <1>11
  <2>4. call.at # "send"
    BY <1>1
  <2>. QED  BY <1>1, <1>2, <1>3, <1>6, <1>8, <2>2, <2>3, <2>4, SAnswered
<1>. QED
  BY <1>9, <1>10, <1>11 DEF expect_size, Reply

LEMMA SReceiveData ==
  ASSUME TInv, Sound, ReceiveData
  PROVE  Sound'
<1>1. call.at = "data" /\ up # <<>> /\ up' = Tail(up) /\ Answered(Reply.n, Reply.value) /\ down' = down /\ machine' = machine
  BY DEF ReceiveData
<1>2. TInv'
  BY TReceiveData DEF Sound
<1>3. down = <<>> /\ \E value \in Nat : up = <<Item(call.expect, value)>>
  BY <1>1 DEF Sound, Wires, Arriving
<1>4. up' = <<>>
  BY <1>1, <1>3, One
<1>5. call.todo # <<>> /\ Command \notin {"Open", "Close"} /\ call.at # "send"
  BY <1>1 DEF TInv, Place, Command
<1>6. PICK n \in Nat, value \in Nat : n = Reply.n /\ value = Reply.value
  BY <1>1, TypedReply
<1>7. Answered(n, value)
  BY <1>1, <1>6
<1>. QED
  BY <1>1, <1>2, <1>3, <1>4, <1>5, <1>7, SAnswered

LEMMA Sclosed_socket ==
  ASSUME TInv, Sound, closed_socket
  PROVE  Sound'
<1>1. /\ TInv' /\ server'.pc = server.pc /\ server'.running = server.running /\ server'.request = server.request
      /\ call.todo # <<>> /\ Command = "Close" /\ call'.todo = Tail(call.todo) /\ call'.at \in {"idle", "send"}
  BY Tclosed_socket DEF Sound
<1>2. call.at = "closing" /\ up # <<>> /\ Head(up).kind = "closed" /\ up' = Tail(up) /\ down' = down /\ machine' = machine
  BY DEF closed_socket, Reply
<1>3. down = <<>> /\ Full("Close", up)
  <2>1. Answering
    BY <1>2 DEF Sound, Wires
  <2>2. Head(up) # Handshake
    BY <1>2 DEF Handshake
  <2>. QED  BY <1>1, <1>2, <2>1, <2>2 DEF Answering
<1>4. down' = <<>> /\ up' = <<>>
  BY <1>2, <1>3, FullHead
<1>5. Wires'
  BY <1>1, <1>4, EmptyWires
<1>6. Decided' => Decided
  BY <1>1, <1>2, <1>3, RestDecided
<1>7. Agree'
  BY <1>1, <1>2, <1>6, AgreeKept DEF Sound
<1>. QED
  BY <1>1, <1>5, <1>7 DEF Sound

\* Every answer is one to the command in progress: long enough, and Closed for a Close.
LEMMA Sbad_packet ==
  ASSUME TInv, Sound, bad_packet
  PROVE  FALSE
<1>1. CASE call.at = "data" /\ ~LongEnough
  <2>1. call.expect >= Least(Command) /\ call.expect \in Nat /\ \E value \in Nat : up = <<Item(call.expect, value)>>
    BY <1>1 DEF Sound, Wires, Arriving, TInv, Typed, Calls
  <2>2. Reply.n = call.expect
    BY <2>1, One DEF Reply, Item
  <2>. QED  BY <1>1, <2>1, <2>2 DEF LongEnough, Least
<1>2. CASE call.at = "closing" /\ Reply.kind \in {"size", "data"}
  <2>1. Answering /\ Command = "Close" /\ up # <<>> /\ Head(up).kind \in {"size", "data"}
    BY <1>2 DEF Sound, Wires, TInv, Place, Command, bad_packet, Reply
  <2>2. Head(up) # Handshake
    BY <2>1 DEF Handshake
  <2>3. Full("Close", up)
    BY <2>1, <2>2 DEF Answering
  <2>. QED  BY <2>1, <2>3, FullHead
<1>. QED
  BY <1>1, <1>2 DEF bad_packet

-----------------------------------------------------------------------------
\* The server between its commands.
LEMMA SBetween ==
  ASSUME TInv, Sound, call.todo = <<>>
  PROVE  call.at = "idle" /\ Decided /\ (server.pc # "wait" => down = <<>> /\ up = <<>>)
<1>1. call.at = "idle"
  BY IdleCall
<1>. QED
  BY <1>1 DEF Sound, Wires, Decided

LEMMA SServer ==
  ASSUME TInv, Sound, trouble' = {},
         AcceptConnection \/ InitVisibleClassList \/ Hello \/ GetConsoleMessage \/ DetachFromDevice
  PROVE  Sound'
<1>1. server.pc # "aborted"
  BY DEF Sound
<1>2. CASE AcceptConnection
  <2>1. server'.pc = "attach" /\ server'.running = FALSE /\ call.at = "idle" /\ call'.at = "send" /\ server.pc = "accept"
    BY <1>1, <1>2, TAcceptConnection DEF AcceptConnection
  <2>2. down' = <<>> /\ up' = <<>> /\ machine' = machine
    BY <1>2, <2>1 DEF AcceptConnection, Sound, Wires, wires
  <2>3. Wires'
    BY <2>1, <2>2, EmptyWires
  <2>4. Agree'
    BY <2>1, <2>2 DEF Sound, Agree, Asking
  <2>. QED  BY <2>1, <2>3, <2>4 DEF Sound
<1>3. CASE InitVisibleClassList
  <2>1. server'.pc = "hello" /\ server'.running = server.running /\ server.pc = "attach" /\ call.at = "idle" /\ call' = call
    BY <1>1, <1>3, TInitVisibleClassList DEF InitVisibleClassList
  <2>2. down' = <<>> /\ up' = <<>> /\ machine' = machine
    BY <1>3, <2>1 DEF InitVisibleClassList, Sound, Wires, wires
  <2>3. Wires'
    BY <2>1, <2>2, EmptyWires
  <2>4. Agree'
    BY <2>1, <2>2 DEF Sound, Agree, Asking
  <2>. QED  BY <2>1, <2>3, <2>4 DEF Sound
<1>4. CASE Hello
  <2>1. server'.pc \in {"run", "accept"} /\ server'.running = server.running /\ server.pc = "hello" /\ call.todo = <<>> /\ call' = call
    BY <1>1, <1>4, THello DEF Hello
  <2>2. call'.at = "idle" /\ down' = <<>> /\ up' = <<>> /\ machine' = machine
    BY <1>4, <2>1, SBetween DEF Hello, wires
  <2>3. Wires'
    BY <2>2, EmptyWires
  <2>4. Agree'
    BY <2>1, <2>2 DEF Sound, Agree, Asking
  <2>. QED  BY <2>1, <2>3, <2>4 DEF Sound
<1>5. CASE GetConsoleMessage
  <2>1. server' = server /\ server.pc = "run" /\ call.at = "idle" /\ call'.at = "send"
    BY <1>1, <1>5, TGetConsoleMessage
  <2>2. down' = <<>> /\ up' = <<>> /\ machine' = machine
    BY <1>5, <2>1 DEF GetConsoleMessage, Sound, Wires, wires
  <2>3. Wires'
    BY <2>1, <2>2, EmptyWires
  <2>4. Agree'
    BY <2>1, <2>2 DEF Sound, Agree, Asking
  <2>. QED  BY <1>1, <2>1, <2>3, <2>4 DEF Sound
<1>6. CASE DetachFromDevice
  <2>1. server'.pc = "accept" /\ server'.running = server.running /\ server.pc = "detach" /\ call.todo = <<>> /\ call' = call
    BY <1>1, <1>6, TDetachFromDevice, IdleCall DEF DetachFromDevice
  <2>2. call'.at = "idle" /\ down' = <<>> /\ up' = <<>> /\ machine' = machine /\ Decided
    BY <1>6, <2>1, SBetween DEF DetachFromDevice, wires
  <2>3. Wires'
    BY <2>2, EmptyWires
  <2>4. Agree'
    BY <2>1, <2>2 DEF Sound, Agree, Asking
  <2>. QED  BY <2>1, <2>3, <2>4 DEF Sound
<1>. QED
  BY <1>2, <1>3, <1>4, <1>5, <1>6

\* What the handheld was asked to be is what it is when the debugger is told.
LEMMA Ssend_response ==
  ASSUME TInv, Sound, trouble' = {}, send_response
  PROVE  Sound'
<1>1. server.pc = "command" /\ call.todo = <<>> /\ server'.pc = "run" /\ server'.running = Running
  BY Tsend_response DEF Sound
<1>2. down' = <<>> /\ up' = <<>> /\ machine' = machine /\ call'.at = "idle" /\ Decided
  BY <1>1, SBetween DEF send_response, wires
<1>3. server.running \in BOOLEAN /\ machine.running \in BOOLEAN
  BY DEF TInv, Typed, Servers, Machines
<1>4. Running = machine.running
  <2>1. CASE server.request = "Resume"
    <3>1. machine.running = TRUE
      BY <1>1, <1>2, <2>1 DEF Sound, Agree, Asking
    <3>. QED  BY <2>1, <3>1, Zenon DEF Running
  <2>2. CASE server.request = "Suspend"
    <3>1. machine.running = FALSE
      BY <1>1, <1>2, <2>2 DEF Sound, Agree, Asking
    <3>2. server.request # "Resume" /\ ~(server.request # "Suspend")
      BY <2>2
    <3>. QED  BY <3>1, <3>2, Zenon DEF Running
  <2>3. CASE server.request \notin {"Resume", "Suspend"}
    <3>1. machine.running = server.running
      BY <1>1, <2>3 DEF Sound, Agree, Asking
    <3>2. server.request # "Resume" /\ server.request # "Suspend"
      BY <2>3
    <3>. QED  BY <1>3, <3>1, <3>2, Zenon DEF Running
  <2>. QED  BY <2>1, <2>2, <2>3
<1>5. Wires'
  BY <1>2, EmptyWires
<1>6. Agree'
  BY <1>1, <1>2, <1>4 DEF Agree, Asking
<1>. QED
  BY <1>1, <1>5, <1>6 DEF Sound

\* A request finds nothing on the wires, or it crosses a late status.
LEMMA Sreceive_request ==
  ASSUME TInv, Sound, trouble' = {}, receive_request
  PROVE  Sound'
<1>1. /\ TInv' /\ call.todo = <<>> /\ call.at = "idle"
      /\ server.pc = "wait" \/ (server.pc = "run" /\ ~server.running)
      /\ \/ server' = server /\ call' = call
         \/ /\ up = <<>>
            /\ \/ server'.pc = "run" /\ server'.running = server.running /\ call'.at = "idle"
               \/ server'.pc = "detach" /\ server'.running = FALSE /\ call'.at = "send"
               \/ /\ server'.pc = "command" /\ server'.running = server.running /\ call'.at \in {"idle", "send"}
                  /\ server'.request \in {"Resume", "Suspend"} => call'.at = "send"
  BY Treceive_request DEF Sound
<1>2. down' = down /\ up' = up /\ machine' = machine
  BY DEF receive_request, wires
<1>3. CASE server' = server /\ call' = call
  <2>1. Wires'
    BY <1>1, <1>2, <1>3 DEF Sound, Wires, Late
  <2>2. Decided' => Decided
    BY <1>2, <1>3 DEF Decided
  <2>3. Agree'
    BY <1>2, <1>3, <2>2, AgreeKept DEF Sound
  <2>. QED  BY <1>3, <2>1, <2>3 DEF Sound
<1>4. ASSUME up = <<>>, server'.pc \in {"run", "detach", "command"}, call'.at \in {"idle", "send"}, Agree'  PROVE Sound'
  <2>1. down = <<>>
    BY <1>1 DEF Sound, Wires
  <2>2. Wires'
    BY <1>2, <1>4, <2>1, EmptyWires
  <2>. QED  BY <1>4, <2>2 DEF Sound
<1>5. server.running = machine.running
  BY <1>1 DEF Sound, Agree
<1>6. CASE up = <<>> /\ server'.pc = "run" /\ server'.running = server.running /\ call'.at = "idle"
  <2>1. Agree'
    BY <1>2, <1>5, <1>6 DEF Agree, Asking
  <2>. QED  BY <1>4, <1>6, <2>1
<1>7. call'.at = "send" => ~Decided'
  BY <1>1 DEF TInv, Place, Decided
<1>8. CASE up = <<>> /\ server'.pc = "detach" /\ server'.running = FALSE /\ call'.at = "send"
  <2>1. Agree'
    BY <1>7, <1>8 DEF Agree, Asking
  <2>. QED  BY <1>4, <1>8, <2>1
<1>9. CASE /\ up = <<>> /\ server'.pc = "command" /\ server'.running = server.running /\ call'.at \in {"idle", "send"}
           /\ server'.request \in {"Resume", "Suspend"} => call'.at = "send"
  <2>1. Agree'
    BY <1>2, <1>5, <1>7, <1>9 DEF Agree, Asking
  <2>. QED  BY <1>4, <1>9, <2>1
<1>. QED
  BY <1>1, <1>3, <1>6, <1>8, <1>9

\* A late status is waited for with nothing to do.
LEMMA SStatus ==
  ASSUME TInv, Sound, WaitStatus \/ status_timeout
  PROVE  Sound'
<1>1. CASE WaitStatus
  <2>1. server.pc = "wait" /\ server'.pc = "status" /\ server'.running = server.running /\ call'.at = "status"
    BY <1>1, TWaitStatus DEF Sound
  <2>2. down' = down /\ up' = up /\ machine' = machine
    BY <1>1 DEF WaitStatus, wires
  <2>3. Wires'
    BY <2>1, <2>2 DEF Sound, Wires, Late
  <2>4. Agree'
    BY <2>1, <2>2 DEF Sound, Agree, Asking
  <2>. QED  BY <2>1, <2>3, <2>4 DEF Sound
<1>2. CASE status_timeout
  <2>1. server.pc = "status" /\ call.at = "status" /\ up = <<>> /\ server'.pc = "wait" /\ server'.running = server.running /\ call'.at = "idle"
    BY <1>2, Tstatus_timeout DEF Sound, status_timeout
  <2>2. down' = down /\ up' = up /\ machine' = machine
    BY <1>2 DEF status_timeout, wires
  <2>3. down = <<>>
    BY <2>1 DEF Sound, Wires
  <2>4. Wires'
    BY <2>1, <2>2, <2>3, EmptyWires
  <2>5. Agree'
    BY <2>1, <2>2 DEF Sound, Agree, Asking
  <2>. QED  BY <2>1, <2>4, <2>5 DEF Sound
<1>. QED
  BY <1>1, <1>2

-----------------------------------------------------------------------------
\* The machine answers the command in progress.
LEMMA Sanswer_command ==
  ASSUME TInv, Sound, answer_command
  PROVE  Sound'
<1>1. down # <<>> /\ down \in Seq(Orders) /\ down' = Tail(down) /\ server' = server /\ call' = call /\ server.pc # "aborted"
  BY DEF answer_command, TInv, Typed, Sound
<1>2. call.at \in {"sequence", "packet", "closing"} /\ server.pc # "wait"
  <2>1. call.at \in Ats
    BY DEF TInv, Typed, Calls
  <2>. QED  BY <1>1, <2>1 DEF Sound, Wires, Arriving, Ats
<1>3. PICK order : order = [name |-> Command, offset |-> call.offset]
  OBVIOUS
<1>4. down = <<order>> /\ up = <<>>
  BY <1>1, <1>2, <1>3 DEF Sound, Wires, Answering
<1>5. Head(down) = order /\ down' = <<>> /\ order.name = Command /\ order \in Orders
  <2>1. Head(down) = order /\ down' = <<>>
    BY <1>1, <1>4, One
  <2>2. Head(down) \in Orders
    BY <1>1, Rests
  <2>. QED  BY <1>3, <2>1, <2>2
<1>6. PICK answer \in Answers(order) : up' = up \o <<Handshake>> \o answer /\ machine' \in After(order, answer)
  BY <1>5 DEF answer_command
<1>7. Full(Command, answer) /\ answer \in Seq(Packets)
  BY <1>5, <1>6, AnswerForm, FullTypes
<1>8. up' # <<>> /\ Head(up') = Handshake /\ Tail(up') = answer
  <2>1. Handshake \in Packets
    BY DEF Handshake, Packets
  <2>2. <<Handshake>> \in Seq(Packets)
    BY <2>1
  <2>3. <<>> \o <<Handshake>> = <<Handshake>>
    BY <2>2
  <2>4. up' = <<Handshake>> \o answer
    BY <1>4, <1>6, <2>3
  <2>. QED  BY <1>7, <2>1, <2>4, Before
<1>9. Command' = Command
  BY <1>1 DEF Command
<1>10. Answering'
  BY <1>5, <1>7, <1>8, <1>9 DEF Answering
<1>11. Wires'
  BY <1>1, <1>2, <1>10 DEF Wires
<1>12. /\ machine \in Machines /\ call.todo \in Seq(Commands) /\ call.todo # <<>> /\ Form(server, call.todo)
       /\ server.pc \in Pcs /\ Command = Head(call.todo)
  BY <1>1, <1>2 DEF TInv, Typed, Calls, Servers, Place, Command
<1>13. /\ Command \in {"Open", "Close", "Stop"} => machine'.running = FALSE
       /\ Command = "Go" => machine'.running = TRUE
       /\ Command \notin {"Open", "Close", "Stop", "Go"} => machine'.running = machine.running
  BY <1>5, <1>6, <1>12, AfterCases
<1>14. /\ server.pc \in {"attach", "run", "status", "command", "detach"}
       /\ server.pc = "attach" => Command \in {"Close", "Open", "GetModulesList"} \cup Attached
       /\ server.pc = "run" => Command \in {"GetConsoleMessage", "GetStatus"}
       /\ server.pc = "status" => Command = "GetStatus"
       /\ server.pc = "command" =>
            /\ server.request = "Resume" => Command \in Preparing \cup {"Go"}
            /\ server.request = "Suspend" => Command \in Preparing \cup {"Stop"}
            /\ server.request \notin {"Resume", "Suspend"} => Command \in OfAThread \cup {"GetThreadsList"}
       /\ server.pc = "detach" => Command = "Close"
  BY <1>1, <1>12, FormHead
<1>15. CASE server.pc = "attach"
  <2>1. machine.running = FALSE /\ server.running = FALSE
    BY <1>15 DEF Sound, Agree
  <2>2. Command # "Go"
    BY <1>14, <1>15 DEF Attached
  <2>3. machine'.running = FALSE
    BY <1>13, <2>1, <2>2
  <2>4. Agree'
    BY <1>1, <1>15, <2>1, <2>3 DEF Agree, Asking
  <2>. QED  BY <1>1, <1>11, <2>4 DEF Sound
<1>16. CASE server.pc \in {"run", "status"} \/ (server.pc = "command" /\ ~Asking)
  <2>1. server.running = machine.running
    BY <1>16 DEF Sound, Agree
  <2>2. Command \notin {"Open", "Close", "Stop", "Go"}
    BY <1>14, <1>16 DEF Asking, OfAThread, Thread
  <2>3. machine'.running = machine.running
    BY <1>13, <2>2
  <2>4. Agree'
    BY <1>1, <1>16, <2>1, <2>3 DEF Agree, Asking
  <2>. QED  BY <1>1, <1>11, <2>4 DEF Sound
<1>17. CASE Asking
  <2>1. Decided' => Tail(call.todo) = <<>>
    BY <1>1, <1>12 DEF Decided
  <2>2. ASSUME Tail(call.todo) = <<>>
        PROVE  (server.request = "Resume" => Command = "Go") /\ (server.request = "Suspend" => Command = "Stop")
    <3>1. Len(call.todo) \in Nat \ {0} /\ Len(Tail(call.todo)) = Len(call.todo) - 1 /\ Command = call.todo[1]
      BY <1>12, Rests
    <3>2. PICK n \in Nat : n = Len(call.todo)
      BY <3>1
    <3>3. n - 1 = 0
      BY <2>2, <3>1, <3>2, None
    <3>4. n = 1
      BY <3>2, <3>3
    <3>5. Scripts(server, call.todo)
      BY <1>12, <1>17 DEF Form, Asking
    <3>. QED  BY <3>1, <3>2, <3>4, <3>5 DEF Scripts, Leading
  <2>3. Decided' => machine'.running = (server.request = "Resume")
    <3>1. CASE server.request = "Resume"
      BY <1>13, <2>1, <2>2, <3>1
    <3>2. CASE server.request = "Suspend"
      BY <1>13, <2>1, <2>2, <3>2
    <3>. QED  BY <1>17, <3>1, <3>2 DEF Asking
  <2>4. Asking' /\ server'.pc = "command"
    BY <1>1, <1>17 DEF Asking
  <2>5. Agree'
    BY <1>1, <2>3, <2>4 DEF Agree
  <2>. QED  BY <1>1, <1>11, <2>5 DEF Sound
<1>18. CASE server.pc = "detach"
  <2>1. machine'.running = FALSE /\ server.running = FALSE
    BY <1>13, <1>14, <1>18 DEF Sound, Agree
  <2>2. Agree'
    BY <1>1, <1>18, <2>1 DEF Agree, Asking
  <2>. QED  BY <1>1, <1>11, <2>2 DEF Sound
<1>. QED
  BY <1>14, <1>15, <1>16, <1>17, <1>18

\* A status that was owed comes while one is waited for, once.
LEMMA Slate_status ==
  ASSUME TInv, Sound, late_status, trouble' = {}
  PROVE  Sound'
<1>1. /\ machine.owes /\ machine' = [machine EXCEPT !.owes = FALSE] /\ server.pc \in {"wait", "status"}
      /\ server' = server /\ call' = call /\ down' = down /\ up' = up \o Data(1, 0)
  BY DEF late_status
<1>2. machine \in Machines
  BY DEF TInv, Typed
<1>3. machine'.running = machine.running /\ machine'.owes = FALSE
  BY <1>1, <1>2 DEF Machines
<1>4. server.pc = "wait" \/ call.at = "status"
  <2>1. server.pc = "status" => call.at = "status"
    BY <1>1 DEF TInv, Place, Sound, Wires, Arriving
  <2>. QED  BY <1>1, <2>1
<1>5. down = <<>> /\ up = <<>>
  BY <1>1, <1>4 DEF Sound, Wires, Late
<1>6. up' = <<Size(1), Item(1, 0)>>
  <2>1. PICK s : s = <<Size(1), Item(1, 0)>>
    OBVIOUS
  <2>2. Data(1, 0) = s /\ s \in Seq(Packets)
    <3>1. \A n, value \in Nat : Data(n, value) = <<Size(n), Item(n, value)>> /\ <<Size(n), Item(n, value)>> \in Seq(Packets)
      BY PacketTypes
    <3>. QED  BY <2>1, <3>1
  <2>3. <<>> \o s = s
    BY <2>2
  <2>. QED  BY <1>1, <1>5, <2>1, <2>2, <2>3
<1>7. Late'
  BY <1>3, <1>6 DEF Late
<1>8. call.at \in {"idle", "status"}
  BY <1>1, <1>4, IdleCall DEF TInv, Form, Sound
<1>9. call.at = "idle" => server.pc = "wait"
  BY <1>4, <1>8
<1>10. Wires'
  BY <1>1, <1>5, <1>7, <1>8, <1>9 DEF Wires
<1>11. Decided' => Decided
  BY <1>1 DEF Decided
<1>12. Agree'
  BY <1>1, <1>3, <1>11, AgreeKept DEF Sound
<1>. QED
  BY <1>1, <1>10, <1>12 DEF Sound

\* Steps that change nothing the server, the call or the machine see.
LEMMA SOther ==
  ASSUME Sound, UNCHANGED <<server, call, down, up, machine>>
  PROVE  Sound'
BY DEF Sound, Wires, Agree, Late, Answering, Arriving, Decided, Asking, Command

\* What has gone wrong is not forgotten.
LEMMA TroubleGrows ==
  ASSUME Next
  PROVE  trouble' = trouble \/ \E why : trouble' = trouble \cup why
<1>1. ASSUME Send \/ sequence_handshake \/ expect_size \/ ReceiveData \/ closed_socket  PROVE trouble' = trouble
  BY <1>1 DEF Send, sequence_handshake, expect_size, ReceiveData, closed_socket
<1>2. ASSUME bad_packet \/ usb_error \/ receive_error  PROVE \E why : trouble' = trouble \cup why
  BY <1>2, Zenon DEF bad_packet, usb_error, receive_error, Throw
<1>3. ASSUME AcceptConnection \/ InitVisibleClassList \/ GetConsoleMessage \/ DetachFromDevice \/ WaitStatus \/ status_timeout
      PROVE  trouble' = trouble
  BY <1>3 DEF AcceptConnection, InitVisibleClassList, GetConsoleMessage, DetachFromDevice, WaitStatus, status_timeout
<1>4. ASSUME NEW connections, NEW pc, NEW running, SendTo(connections, pc, running)
      PROVE  trouble' = trouble \/ \E why : trouble' = trouble \cup why
  BY <1>4, Zenon DEF SendTo, Throw
<1>5. ASSUME Hello \/ send_response  PROVE trouble' = trouble \/ \E why : trouble' = trouble \cup why
  BY <1>4, <1>5, Zenon DEF Hello, send_response
<1>6. ASSUME receive_request  PROVE trouble' = trouble \/ \E why : trouble' = trouble \cup why
  BY <1>6, Zenon DEF receive_request
<1>7. ASSUME answer_command \/ debugger  PROVE trouble' = trouble
  BY <1>7 DEF answer_command, debugger
<1>8. ASSUME late_status  PROVE \E why : trouble' = trouble \cup why
  BY <1>8, Zenon DEF late_status
<1>. QED
  BY <1>1, <1>2, <1>3, <1>5, <1>6, <1>7, <1>8 DEF Next, Server

LEMMA SStep ==
  ASSUME TInv, SInv, [Next]_vars
  PROVE  SInv'
<1>1. SUFFICES ASSUME trouble' = {}  PROVE Sound'
  BY DEF SInv
<1>2. CASE UNCHANGED vars
  BY <1>1, <1>2, SOther DEF vars, wires, SInv
<1>3. ASSUME Next, trouble = {}  PROVE Sound'
  <2>1. Sound
    BY <1>3 DEF SInv
  <2>2. server.pc # "aborted" /\ (Server \/ usb_error \/ answer_command \/ late_status \/ debugger)
    BY <1>3 DEF Next
  <2>3. ASSUME Send \/ sequence_handshake \/ expect_size \/ ReceiveData \/ closed_socket \/ bad_packet  PROVE Sound'
    BY <2>1, <2>3, SSend, Ssequence_handshake, Sexpect_size, SReceiveData, Sclosed_socket, Sbad_packet
  <2>4. ASSUME AcceptConnection \/ InitVisibleClassList \/ Hello \/ GetConsoleMessage \/ DetachFromDevice  PROVE Sound'
    BY <1>1, <2>1, <2>4, SServer
  <2>5. ASSUME receive_request \/ receive_error \/ WaitStatus \/ status_timeout \/ send_response  PROVE Sound'
    BY <1>1, <2>1, <2>2, <2>5, Sreceive_request, Treceive_error, SStatus, Ssend_response
  <2>6. ASSUME usb_error \/ answer_command \/ late_status  PROVE Sound'
    BY <1>1, <2>1, <2>2, <2>6, Tusb_error, Sanswer_command, Slate_status
  <2>7. ASSUME debugger  PROVE Sound'
    BY <2>1, <2>7, SOther DEF debugger, wires
  <2>. QED  BY <2>2, <2>3, <2>4, <2>5, <2>6, <2>7 DEF Server
<1>4. Next => trouble = {}
  <2>1. ASSUME trouble # {}, Next  PROVE FALSE
    <3>1. trouble' = trouble \/ \E why : trouble' = trouble \cup why
      BY <2>1, TroubleGrows
    <3>. QED  BY <1>1, <2>1, <3>1
  <2>. QED  BY <2>1
<1>. QED
  BY <1>2, <1>3, <1>4

LEMMA SStart == Init => SInv
<1>1. SUFFICES ASSUME Init  PROVE Sound
  BY DEF SInv
<1>2. /\ server.pc = "accept" /\ server.running = FALSE /\ machine.running = FALSE
      /\ call.at = "idle" /\ down = <<>> /\ up = <<>>
  BY <1>1 DEF Init, Idle
<1>. QED
  BY <1>2 DEF Sound, Wires, Agree, Late, Asking

\* For any debuggers, requests and bounds: as long as no status has crossed a command,
\* no USB call failed and no connection was reset, the program does not end, every answer
\* has been read by the call that asked for it whenever Run begins a round, and the
\* server thinks of the machine as running exactly when it runs.
THEOREM InStepAlways == Spec => []InStep
<1>1. TInv /\ [Next]_vars => TInv'
  BY TStep
<1>2. TInv /\ SInv /\ [Next]_vars => SInv'
  BY SStep
<1>3. SInv => InStep
  BY DEF SInv, Sound, Wires, Agree, InStep
<1>. QED
  BY <1>1, <1>2, <1>3, TStart, SStart, PTL DEF Spec
=============================================================================
