--------------------------- MODULE SchemeProcess ---------------------------
(***************************************************************************)
(* One Scheme process: the server thread that reads requests from sockets  *)
(* (serverImpl), the task thread that evaluates them (taskImpl), the queue *)
(* between them, the clients that write requests (SchemeREPL), and the     *)
(* scheduled callbacks whose environments are pinned in imp_env while they *)
(* are pending (SchemeObj).                                                *)
(*                                                                         *)
(* A request is a body, abstracted to copies of its number, and the        *)
(* terminator CR LF.  The kernel's sockets are external: accept returns    *)
(* the least free descriptor, recv returns some of the bytes written.      *)
(***************************************************************************)
EXTENDS Integers, FiniteSets, Sequences, SequencesExt

CONSTANTS
  Conns,       \* connections; each is made at most once
  NoConn,
  ServerFd,    \* m_serverSocket
  Fds,         \* descriptors accept may return, all above ServerFd
  MaxRequests, \* bound: requests per connection
  BodyLens,    \* lengths of request bodies
  BufLen,      \* BUFLEN of the server, and the piece writeString writes
  MaxReads,    \* 1024 * 10: the reads without a terminator that are allowed
  Envs,        \* environments of callbacks
  MaxFires,    \* bound: callbacks that are scheduled, and other tasks
  InitTasks,   \* strings the primary process evaluates first
  MayReuse,    \* a new client may get the descriptor of one that left
  MaySplit     \* a recv may end between CR and LF

ASSUME ProcessAssumption ==
  /\ ServerFd \in Nat /\ MaxRequests \in Nat /\ InitTasks \in Nat
  /\ MaxFires \in Nat
  /\ Fds \subseteq Nat /\ \A fd \in Fds : fd > ServerFd
  /\ BodyLens \subseteq Nat \ {0}
  /\ BufLen \in Nat \ {0, 1}
  /\ MaxReads \in Nat
  /\ MayReuse \in BOOLEAN /\ MaySplit \in BOOLEAN
  /\ Cardinality(Conns) <= Cardinality(Fds)
  /\ NoConn \notin Conns

VARIABLES
  \* the kernel and the clients
  conn,          \* the state of a connection
  fdOf,          \* its descriptor on the server's side
  out,           \* what writeString has still to write
  wire,          \* written and not yet received
  sent,          \* how many requests it has begun to write
  \* the server thread
  spc, numFds, clientSockets, inStrings,
  curReadFds,    \* the result of select
  index, evalStr,
  reads,         \* j: the reads in this visit that brought no terminator
  \* the task thread
  tpc, task, taskQueue,
  \* callbacks
  impEnv,        \* imp_env
  scheduled,     \* environments whose callback the scheduler holds
  fires,         \* how many callbacks and other tasks were asked for
  \* histories
  done,          \* per connection, the requests evaluated, in order
  replies,       \* per connection, the askers of what was sent to it
  cut            \* the connections of which some text was thrown away

kernel == <<conn, fdOf>>
client == <<out, sent>>
server == <<spc, numFds, clientSockets, inStrings, curReadFds, index, evalStr,
            reads>>
pins   == <<impEnv, scheduled, fires>>
past   == <<done, replies, cut>>
vars   == <<kernel, client, wire, server, tpc, task, taskQueue, pins, past>>

Cr == 0
Lf == -1

Request(n, len) == [i \in 1..len |-> n] \o <<Cr, Lf>>

Repl(c, n, fd)  == [type |-> "repl", conn |-> c, n |-> n, sock |-> fd]
String          == [type |-> "string"]
Callback(e)     == [type |-> "callback", env |-> e]
Destroy(e)      == [type |-> "destroy", env |-> e]
NoTask          == [type |-> "none"]

Open(c) == conn[c] \in {"open", "left"}
ConnAt(fd) == IF \E c \in Conns : Open(c) /\ fdOf[c] = fd
                THEN CHOOSE c \in Conns : Open(c) /\ fdOf[c] = fd
                ELSE NoConn

(* Descriptors accept cannot return.  Without MayReuse some other file of  *)
(* the program has taken the one of every client that left.                *)
UsedFds == {fdOf[c] : c \in {d \in Conns :
                               Open(d) \/ (conn[d] = "gone" /\ ~MayReuse)}}

Init ==
  /\ conn = [c \in Conns |-> "none"]
  /\ fdOf = [c \in Conns |-> 0]
  /\ out = [c \in Conns |-> <<>>]
  /\ wire = [c \in Conns |-> <<>>]
  /\ sent = [c \in Conns |-> 0]
  /\ spc = "boot" /\ numFds = ServerFd + 1
  /\ clientSockets = <<>> /\ inStrings = [fd \in Fds |-> <<>>]
  /\ curReadFds = {} /\ index = 1 /\ evalStr = <<>> /\ reads = 0
  /\ tpc = "boot" /\ task = NoTask /\ taskQueue = <<>>
  /\ impEnv = {} /\ scheduled = {} /\ fires = 0
  /\ done = [c \in Conns |-> <<>>]
  /\ replies = [c \in Conns |-> {}]
  /\ cut = {}

-----------------------------------------------------------------------------
(* Clients.                                                                *)

Connect(c) ==
  /\ conn[c] = "none"
  /\ conn' = [conn EXCEPT ![c] = "backlog"]
  /\ UNCHANGED <<fdOf, client, wire, server, tpc, task, taskQueue, pins, past>>

(* writeString, entered ...                                                *)
WriteString(c, len) ==
  /\ conn[c] = "open"
  /\ out[c] = <<>>
  /\ sent[c] < MaxRequests
  /\ sent' = [sent EXCEPT ![c] = @ + 1]
  /\ out' = [out EXCEPT ![c] = Request(sent[c] + 1, len)]
  /\ UNCHANGED <<kernel, wire, server, tpc, task, taskQueue, pins, past>>

(* ... and one of its writes.                                              *)
WritePiece(c) ==
  /\ conn[c] = "open"
  /\ out[c] # <<>>
  /\ LET lth == IF Len(out[c]) > BufLen THEN BufLen ELSE Len(out[c])
     IN /\ wire' = [wire EXCEPT ![c] = @ \o SubSeq(out[c], 1, lth)]
        /\ out' = [out EXCEPT ![c] = SubSeq(@, lth + 1, Len(@))]
  /\ UNCHANGED <<kernel, sent, server, tpc, task, taskQueue, pins, past>>

(* closeREPL, or the end of the client.                                    *)
CloseRepl(c) ==
  /\ conn[c] = "open"
  /\ conn' = [conn EXCEPT ![c] = "left"]
  /\ out' = [out EXCEPT ![c] = <<>>]
  /\ UNCHANGED <<fdOf, sent, wire, server, tpc, task, taskQueue, pins, past>>

-----------------------------------------------------------------------------
(* The server thread.                                                      *)

ServerBoot ==
  /\ spc = "boot"
  /\ tpc # "boot"                   \* m_libsLoaded
  /\ spc' = "select"
  /\ UNCHANGED <<kernel, client, wire, numFds, clientSockets, inStrings,
                 curReadFds, index, evalStr, reads, tpc, task, taskQueue, pins,
                 past>>

Readable(fd) == LET c == ConnAt(fd)
                IN  c # NoConn /\ (wire[c] # <<>> \/ conn[c] = "left")

(* select looks only below numFds.                                         *)
ReadyFds == {fd \in ToSet(clientSockets) : fd < numFds /\ Readable(fd)}
Backlog  == {c \in Conns : conn[c] = "backlog"}

Select ==
  /\ spc = "select"
  /\ Backlog = {}
  /\ ReadyFds # {}
  /\ curReadFds' = ReadyFds
  /\ spc' = "clients" /\ index' = 1
  /\ UNCHANGED <<kernel, client, wire, numFds, clientSockets, inStrings,
                 evalStr, reads, tpc, task, taskQueue, pins, past>>

(* select with the server socket ready: accept, then select again.         *)
Accept(c) ==
  /\ spc = "select"
  /\ conn[c] = "backlog"
  /\ \E fd \in Fds \ UsedFds :
       /\ \A other \in Fds \ UsedFds : fd <= other
       /\ fdOf' = [fdOf EXCEPT ![c] = fd]
       /\ numFds' = fd + 1
       /\ clientSockets' = Append(clientSockets, fd)
       /\ inStrings' = [inStrings EXCEPT ![fd] = <<>>]
  /\ conn' = [conn EXCEPT ![c] = "open"]
  /\ UNCHANGED <<client, wire, spc, curReadFds, index, evalStr, reads, tpc,
                 task, taskQueue, pins, past>>

(* The loop over clientSockets.                                            *)
Sock == clientSockets[index]

(* Fault: FD_ISSET is not asked, and recv blocks on a client that is       *)
(* silent.                                                                 *)
IsSet_Always == TRUE

IsSet == Sock \in curReadFds

NextClient ==
  /\ spc = "clients"
  /\ IF index > Len(clientSockets)
       THEN spc' = "select" /\ UNCHANGED index
       ELSE IF IsSet
              THEN spc' = "recv" /\ UNCHANGED index
              ELSE index' = index + 1 /\ UNCHANGED spc
  /\ UNCHANGED <<kernel, client, wire, numFds, clientSockets, inStrings,
                 curReadFds, evalStr, reads, tpc, task, taskQueue, pins, past>>

(* Fault: recv is called again after the socket was erased.                *)
RecvEnd_Stay ==
  /\ spc = "recv"
  /\ LET c == ConnAt(Sock)
     IN /\ conn[c] = "left" /\ wire[c] = <<>>
        /\ conn' = [conn EXCEPT ![c] = "gone"]
  /\ inStrings' = [inStrings EXCEPT ![Sock] = <<>>]
  /\ clientSockets' = RemoveAt(clientSockets, index)
  /\ UNCHANGED <<fdOf, client, wire, spc, numFds, curReadFds, index, evalStr,
                 reads, tpc, task, taskQueue, pins, past>>

(* recv returns 0: the client has left.                                    *)
RecvEnd ==
  /\ spc = "recv"
  /\ LET c == ConnAt(Sock)
     IN /\ conn[c] = "left" /\ wire[c] = <<>>
        /\ conn' = [conn EXCEPT ![c] = "gone"]
  /\ inStrings' = [inStrings EXCEPT ![Sock] = <<>>]
  /\ clientSockets' = RemoveAt(clientSockets, index)
  /\ spc' = "clients" /\ reads' = 0
  /\ UNCHANGED <<fdOf, client, wire, numFds, curReadFds, index, evalStr, tpc,
                 task, taskQueue, pins, past>>

(* recv fails on a connection that was reset; what was written is lost.    *)
RecvError ==
  /\ spc = "recv"
  /\ LET c == ConnAt(Sock)
     IN /\ conn[c] = "left" /\ wire[c] # <<>>
        /\ wire' = [wire EXCEPT ![c] = <<>>]
  /\ spc' = "clients" /\ index' = index + 1 /\ reads' = 0
  /\ UNCHANGED <<kernel, client, numFds, clientSockets, inStrings, curReadFds,
                 evalStr, tpc, task, taskQueue, pins, past>>

(* The terminator is looked for in the block just read.  In a block of one *)
(* byte buf[res - 2] is outside the buffer: it may hold anything.          *)
Terminated(block) ==
  LET n == Len(block)
  IN  IF n = 1 THEN IF block[1] = Lf THEN BOOLEAN ELSE {FALSE}
               ELSE {block[n - 1] = Cr /\ block[n] = Lf}

(* Fault: a block replaces what was read before it.                        *)
Read_Replace(sock, block) == block

Read(sock, block) == inStrings[sock] \o block

(* The loop ends after so many reads without a terminator.                 *)
TooLarge == reads > MaxReads

(* recv returns a block.  The text becomes evalStr when the block ends it; *)
(* without an end the loop reads on, and after too many reads the text is  *)
(* thrown away, with whatever requests it holds.                           *)
RecvBlock(n) ==
  /\ spc = "recv"
  /\ LET c     == ConnAt(Sock)
         block == SubSeq(wire[c], 1, n)
         text  == Read(Sock, block)
     IN /\ n <= Len(wire[c])
        /\ MaySplit \/ block[n] # Cr
        /\ wire' = [wire EXCEPT ![c] = SubSeq(@, n + 1, Len(@))]
        /\ \/ /\ TRUE \in Terminated(block)
              /\ evalStr' = text /\ inStrings' = [inStrings EXCEPT ![Sock] = <<>>]
              /\ spc' = "push" /\ reads' = 0
              /\ UNCHANGED cut
           \/ /\ FALSE \in Terminated(block) /\ ~TooLarge
              /\ inStrings' = [inStrings EXCEPT ![Sock] = text]
              /\ reads' = reads + 1
              /\ UNCHANGED <<spc, evalStr, cut>>
           \/ /\ FALSE \in Terminated(block) /\ TooLarge
              /\ inStrings' = [inStrings EXCEPT ![Sock] = <<>>]
              /\ spc' = "push" /\ reads' = 0
              /\ cut' = cut \cup {c}
              /\ UNCHANGED evalStr
  /\ UNCHANGED <<kernel, client, numFds, clientSockets, curReadFds, index,
                 tpc, task, taskQueue, pins, done, replies>>

(* The task's label, and a fault: it names the client that came last.      *)
Label_Last == Last(clientSockets)

Label == Sock

(* Fault: the task is put at the front of the queue.                       *)
PushExpr_Front ==
  /\ spc = "push"
  /\ evalStr # <<>>
  /\ LET end == SelectInSeq(evalStr, LAMBDA b : b = Cr)
     IN /\ taskQueue' = <<Repl(ConnAt(Sock), evalStr[1], Label)>> \o taskQueue
        /\ evalStr' = SubSeq(evalStr, end + 2, Len(evalStr))
  /\ UNCHANGED <<kernel, client, wire, spc, numFds, clientSockets, inStrings,
                 curReadFds, index, reads, tpc, task, pins, past>>

(* One expression of evalStr, up to its CR, becomes a task.                *)
PushExpr ==
  /\ spc = "push"
  /\ evalStr # <<>>
  /\ LET end == SelectInSeq(evalStr, LAMBDA b : b = Cr)
     IN /\ taskQueue' = Append(taskQueue, Repl(ConnAt(Sock), evalStr[1], Label))
        /\ evalStr' = SubSeq(evalStr, end + 2, Len(evalStr))
  /\ UNCHANGED <<kernel, client, wire, spc, numFds, clientSockets, inStrings,
                 curReadFds, index, reads, tpc, task, pins, past>>

PushEnd ==
  /\ spc = "push"
  /\ evalStr = <<>>
  /\ spc' = "clients" /\ index' = index + 1
  /\ UNCHANGED <<kernel, client, wire, numFds, clientSockets, inStrings,
                 curReadFds, evalStr, reads, tpc, task, taskQueue, pins, past>>

-----------------------------------------------------------------------------
(* The task thread.                                                        *)

(* The runtime is loaded, then the primary process queues its first work.  *)
TaskBoot ==
  /\ tpc = "boot"
  /\ tpc' = "init"
  /\ UNCHANGED <<kernel, client, wire, server, task, taskQueue, pins, past>>

TaskInit ==
  /\ tpc = "init"
  /\ tpc' = "idle"
  /\ taskQueue' = taskQueue \o [i \in 1..InitTasks |-> String]
  /\ UNCHANGED <<kernel, client, wire, server, task, pins, past>>

Take ==
  /\ tpc = "idle"
  /\ taskQueue # <<>>
  /\ task' = Head(taskQueue)
  /\ taskQueue' = Tail(taskQueue)
  /\ tpc' = "eval"
  /\ UNCHANGED <<kernel, client, wire, server, pins, past>>

(* The evaluated code asks for a callback: callCPPAtTime makes a SchemeObj *)
(* with a new environment, which the collector may not reuse while it is   *)
(* in imp_env.                                                             *)
Schedule(e) ==
  /\ tpc = "eval"
  /\ task.type # "destroy"
  /\ fires < MaxFires
  /\ e \notin impEnv
  /\ impEnv' = impEnv \cup {e}
  /\ scheduled' = scheduled \cup {e}
  /\ fires' = fires + 1
  /\ UNCHANGED <<kernel, client, wire, server, tpc, task, taskQueue, past>>

(* Fault: the environment is let go when the callback is queued.           *)
AddCallback_Early(e) ==
  /\ e \in scheduled
  /\ scheduled' = scheduled \ {e}
  /\ taskQueue' = taskQueue \o <<Callback(e), Destroy(e)>>
  /\ UNCHANGED <<kernel, client, wire, server, tpc, task, impEnv, fires, past>>

(* The task scheduler's thread calls addCallback.                          *)
AddCallback(e) ==
  /\ e \in scheduled
  /\ scheduled' = scheduled \ {e}
  /\ taskQueue' = Append(taskQueue, Callback(e))
  /\ UNCHANGED <<kernel, client, wire, server, tpc, task, impEnv, fires, past>>

(* createSchemeTask from an OSC server thread, or extemporeCallback from   *)
(* the scheduler: work without a reply and without an environment.         *)
CreateSchemeTask ==
  /\ fires < MaxFires
  /\ fires' = fires + 1
  /\ taskQueue' = Append(taskQueue, String)
  /\ UNCHANGED <<kernel, client, wire, server, tpc, task, impEnv, scheduled,
                 past>>

(* A reply goes to whatever has the descriptor now; there is none after an *)
(* error or for a request that begins with "(ipc".                         *)
EndRepl(reply) ==
  /\ tpc = "eval"
  /\ task.type = "repl"
  /\ LET to == ConnAt(task.sock)
     IN replies' = IF reply /\ to # NoConn
                     THEN [replies EXCEPT ![to] = @ \cup {task.conn}]
                     ELSE replies
  /\ done' = [done EXCEPT ![task.conn] = Append(@, task.n)]
  /\ tpc' = "idle" /\ task' = NoTask
  /\ UNCHANGED <<kernel, client, wire, server, taskQueue, pins, cut>>

EndString ==
  /\ tpc = "eval"
  /\ task.type = "string"
  /\ tpc' = "idle" /\ task' = NoTask
  /\ UNCHANGED <<kernel, client, wire, server, taskQueue, pins, past>>

(* Fault: the object of a callback is never deleted.                       *)
EndCallback_Leak ==
  /\ tpc = "eval"
  /\ task.type = "callback"
  /\ tpc' = "idle" /\ task' = NoTask
  /\ UNCHANGED <<kernel, client, wire, server, taskQueue, pins, past>>

(* delete obj: the destructor asks for the end of the environment.         *)
EndCallback ==
  /\ tpc = "eval"
  /\ task.type = "callback"
  /\ taskQueue' = Append(taskQueue, Destroy(task.env))
  /\ tpc' = "idle" /\ task' = NoTask
  /\ UNCHANGED <<kernel, client, wire, server, pins, past>>

DestroyEnv ==
  /\ tpc = "eval"
  /\ task.type = "destroy"
  /\ impEnv' = impEnv \ {task.env}
  /\ tpc' = "idle" /\ task' = NoTask
  /\ UNCHANGED <<kernel, client, wire, server, taskQueue, scheduled, fires,
                 past>>

-----------------------------------------------------------------------------
Writers == \E c \in Conns : WritePiece(c)
Clients == \E c \in Conns :
             \/ Connect(c) \/ CloseRepl(c)
             \/ \E len \in BodyLens : WriteString(c, len)
Server  == \/ ServerBoot \/ Select \/ (\E c \in Conns : Accept(c))
           \/ NextClient \/ RecvEnd \/ RecvError
           \/ (\E n \in 1..BufLen : RecvBlock(n))
           \/ PushExpr \/ PushEnd
Worker  == \/ TaskBoot \/ TaskInit \/ Take
           \/ (\E reply \in BOOLEAN : EndRepl(reply))
           \/ EndString \/ EndCallback \/ DestroyEnv
Evaluated == \E e \in Envs : Schedule(e)
Scheduler == \E e \in Envs : AddCallback(e)

Next == \/ Writers \/ Clients \/ Server \/ Worker
        \/ Evaluated \/ Scheduler \/ CreateSchemeTask

Spec == Init /\ [][Next]_vars

(* Every thread runs, evaluations end (the interpreter has a time limit),  *)
(* the scheduler executes what it holds, and a client that began to write  *)
(* a request goes on; clients need not come, ask or leave.                 *)
FairSpec == /\ Spec
            /\ WF_vars(Server) /\ WF_vars(Worker) /\ WF_vars(Scheduler)
            /\ \A c \in Conns : WF_vars(WritePiece(c))

-----------------------------------------------------------------------------
TypeOK ==
  /\ conn \in [Conns -> {"none", "backlog", "open", "left", "gone"}]
  /\ fdOf \in [Conns -> Fds \cup {0}]
  /\ numFds \in Nat
  /\ ToSet(clientSockets) \subseteq Fds
  /\ spc \in {"boot", "select", "clients", "recv", "push"}
  /\ tpc \in {"boot", "init", "idle", "eval"}
  /\ impEnv \subseteq Envs /\ scheduled \subseteq Envs

(* The descriptors the server looks at are those of the connections the    *)
(* kernel has open, each once, although a client that leaves is erased     *)
(* from clientSockets in the middle of the loop over it; recv is only      *)
(* called on one that is open.                                             *)
SocketsOpen ==
  /\ TypeOK
  /\ IsInjective(clientSockets)
  /\ ToSet(clientSockets) = {fdOf[c] : c \in {d \in Conns : Open(d)}}
  /\ spc \in {"recv", "push"} => index \in DOMAIN clientSockets
  /\ spc = "recv" => Sock \in curReadFds

(* The requests of a stream of bytes, in order: one for each CR.           *)
Requests(bytes) ==
  LET Body(i) == IF i = 1 THEN Cr ELSE bytes[i - 1]
  IN  FlattenSeq([i \in DOMAIN bytes |->
                    IF bytes[i] = Cr THEN <<Body(i)>> ELSE <<>>])

(* Everything a connection has asked for that is not in the task queue.    *)
Bytes(c) ==
  (IF spc = "push" /\ ConnAt(Sock) = c THEN evalStr ELSE <<>>)
    \o inStrings[fdOf[c]] \o wire[c] \o out[c]

Asked(c, q) ==
  FlattenSeq([i \in DOMAIN q |->
                IF q[i].type = "repl" /\ q[i].conn = c THEN <<q[i].n>> ELSE <<>>])

InProcess(c) == done[c] \o Asked(c, <<task>> \o taskQueue)

(* Between the client's writes, the blocks of recv, the expressions of     *)
(* evalStr and the task queue no request of a connection is lost, doubled  *)
(* or overtaken, as long as its client stays and the server has not thrown *)
(* text of it away; of one that leaves the first requests are evaluated.   *)
Conserved ==
  \A c \in Conns \ cut :
    LET all == [i \in 1..sent[c] |-> i]
    IN  IF conn[c] = "open" THEN InProcess(c) \o Requests(Bytes(c)) = all
                            ELSE IsPrefix(InProcess(c), all)

(* Of a connection whose text was thrown away, requests are lost but none  *)
(* is doubled or overtaken by another.  What comes afterwards of a text    *)
(* that was cut is taken for a request, an empty one when only its end was *)
(* left.                                                                   *)
CutKeepsOrder ==
  \A c \in cut :
    LET coming == IF conn[c] = "open" THEN Requests(Bytes(c)) ELSE <<>>
        whole  == SelectSeq(InProcess(c) \o coming, LAMBDA n : n # Cr)
    IN  /\ \A i, j \in DOMAIN whole : i < j => whole[i] < whole[j]
        /\ ToSet(whole) \subseteq 1..sent[c]

(* "eval string too large (no terminator received before 10MB limit)": a   *)
(* text is thrown away when it is larger than so many full blocks.  Does    *)
(* not hold: small blocks count as much.                                   *)
CutAtLimit ==
  [][\A c \in cut' \ cut :
       Len(inStrings[fdOf[c]]) + Len(wire[c]) - Len(wire'[c]) > MaxReads * BufLen]_vars

(* Where an environment is needed: the position of its callback or of its  *)
(* DESTROY_ENV in the queue, 0 while one of them is evaluated, and -1      *)
(* while the scheduler holds the callback.                                 *)
Needs(t, e) == t.type \in {"callback", "destroy"} /\ t.env = e

Places(e) ==
  {i \in DOMAIN taskQueue : Needs(taskQueue[i], e)}
    \cup (IF Needs(task, e) THEN {0} ELSE {})
    \cup (IF e \in scheduled THEN {-1} ELSE {})

(* An environment is in imp_env exactly while its callback is with the     *)
(* scheduler, queued, running or waiting for its DESTROY_ENV, and in one   *)
(* of these places only.                                                   *)
PinsExact ==
  \A e \in Envs : Cardinality(Places(e)) = IF e \in impEnv THEN 1 ELSE 0

(* The value of a request is sent to the client that asked.  The task      *)
(* carries a descriptor, which is looked up when the evaluation ends: only *)
(* when the asker is gone by then may another client have it, and the      *)
(* value.                                                                  *)
RepliesToAsker ==
  \A c \in Conns : \A asker \in replies[c] : asker = c \/ conn[asker] = "gone"

(* A request is evaluated in the end, unless its client leaves or its text *)
(* was too large: the server sees "if any client sockets have data for us".*)
Serves ==
  \A c \in Conns : \A n \in 1..MaxRequests :
    (sent[c] >= n) ~> (n \in ToSet(done[c]) \/ conn[c] # "open" \/ c \in cut)

(* A pinned environment is let go in the end.                              *)
Unpins == \A e \in Envs : (e \in impEnv) ~> (e \notin impEnv)
=============================================================================
