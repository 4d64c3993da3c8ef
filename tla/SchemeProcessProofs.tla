------------------------ MODULE SchemeProcessProofs ------------------------
(***************************************************************************)
(* A Scheme process with any number of clients, requests, callbacks and    *)
(* other tasks: what the server thread looks at are the sockets that are   *)
(* open, the environments of callbacks are pinned exactly while they are   *)
(* needed, a reply goes to the client that asked, and the bytes of a       *)
(* connection, wherever they are, spell its requests in order.             *)
(***************************************************************************)
EXTENDS SchemeProcess, FiniteSetTheorems, SequenceTheorems, WellFoundedInduction, TLAPS

(* A sequence, of whatever elements.                                       *)
IsSeq(s) == \E S : s \in Seq(S)

(* Append, Tail, concatenation and RemoveAt, element by element.           *)
LEMMA AppendElements ==
  ASSUME NEW s, IsSeq(s), NEW e
  PROVE  /\ IsSeq(Append(s, e)) /\ Len(s) \in Nat /\ DOMAIN s = 1..Len(s)
         /\ DOMAIN Append(s, e) = 1..(Len(s) + 1)
         /\ \A i \in 1..Len(s) : Append(s, e)[i] = s[i]
         /\ Append(s, e)[Len(s) + 1] = e
<1>1. PICK S : s \in Seq(S)
      BY DEF IsSeq
<1>2. s \in Seq(S \cup {e}) /\ e \in S \cup {e}
      BY <1>1
<1>3. Append(s, e) \in Seq(S \cup {e})
      BY <1>2
<1>4. IsSeq(Append(s, e))
      BY <1>3 DEF IsSeq
<1> QED BY <1>1, <1>4

\* What is left of a sequence without its first element.
LEMMA TailElements ==
  ASSUME NEW s, IsSeq(s), s # <<>>
  PROVE  /\ IsSeq(Tail(s)) /\ Len(s) \in Nat \ {0} /\ DOMAIN s = 1..Len(s)
         /\ DOMAIN Tail(s) = 1..(Len(s) - 1)
         /\ \A i \in 1..(Len(s) - 1) : Tail(s)[i] = s[i + 1]
         /\ Head(s) = s[1]
<1>1. PICK S : s \in Seq(S)
      BY DEF IsSeq
<1>2. Tail(s) \in Seq(S)
      BY <1>1
<1>3. IsSeq(Tail(s))
      BY <1>2 DEF IsSeq
<1> QED BY <1>1, <1>3

\* The elements of a concatenation are those of its parts.
LEMMA ConcatElements ==
  ASSUME NEW s, IsSeq(s), NEW S, NEW r \in Seq(S)
  PROVE  /\ IsSeq(s \o r) /\ Len(s) \in Nat /\ DOMAIN s = 1..Len(s)
         /\ DOMAIN (s \o r) = 1..(Len(s) + Len(r))
         /\ \A i \in 1..Len(s) : (s \o r)[i] = s[i]
         /\ \A i \in (Len(s) + 1)..(Len(s) + Len(r)) : (s \o r)[i] = r[i - Len(s)]
<1>1. PICK T : s \in Seq(T)
      BY DEF IsSeq
<1>2. s \in Seq(S \cup T) /\ r \in Seq(S \cup T)
      BY <1>1
<1>3. s \o r \in Seq(S \cup T)
      BY <1>2
<1>4. IsSeq(s \o r)
      BY <1>3 DEF IsSeq
<1> QED BY <1>1, <1>4

\* The length of a concatenation.
LEMMA ConcatLength ==
  ASSUME NEW S, NEW a \in Seq(S), NEW b \in Seq(S)
  PROVE  a \o b \in Seq(S) /\ Len(a \o b) = Len(a) + Len(b)
OBVIOUS

\* What RemoveAt leaves: the elements before the place, and those behind it.
LEMMA RemoveAtElements ==
  ASSUME NEW S, NEW s \in Seq(S), NEW k \in 1..Len(s)
  PROVE  /\ RemoveAt(s, k) \in Seq(S)
         /\ DOMAIN RemoveAt(s, k) = 1..(Len(s) - 1)
         /\ \A i \in 1..(k - 1) : RemoveAt(s, k)[i] = s[i]
         /\ \A i \in k..(Len(s) - 1) : RemoveAt(s, k)[i] = s[i + 1]
<1> DEFINE a == SubSeq(s, 1, k - 1)
           b == SubSeq(s, k + 1, Len(s))
<1>1. /\ a \in Seq(S) /\ Len(a) = k - 1
      /\ \A i \in 1..(k - 1) : a[i] = s[i]
      OBVIOUS
<1>2. /\ b \in Seq(S) /\ Len(b) = Len(s) - k
      /\ \A i \in 1..(Len(s) - k) : b[i] = s[i + k]
      OBVIOUS
<1>3. RemoveAt(s, k) = a \o b
      BY DEF RemoveAt
<1> HIDE DEF a, b
<1>4. Len(a \o b) = Len(s) - 1 /\ a \o b \in Seq(S)
      <2>1. a \o b \in Seq(S) /\ Len(a \o b) = Len(a) + Len(b)
            BY <1>1, <1>2, ConcatLength
      <2> QED BY <1>1, <1>2, <2>1
<1>5. \A i \in 1..(k - 1) : (a \o b)[i] = s[i]
      BY <1>1, <1>2
<1>6. \A i \in k..(Len(s) - 1) : (a \o b)[i] = b[i - (k - 1)] /\ b[i - (k - 1)] = s[i + 1]
      BY <1>1, <1>2
<1> QED BY <1>3, <1>4, <1>5, <1>6

(* A sequence without one of its elements, when none occurs twice.         *)
LEMMA RemoveAtInjective ==
  ASSUME NEW S, NEW s \in Seq(S), NEW k \in 1..Len(s), IsInjective(s)
  PROVE  /\ IsInjective(RemoveAt(s, k))
         /\ ToSet(RemoveAt(s, k)) = ToSet(s) \ {s[k]}
<1> DEFINE r == RemoveAt(s, k)
           from(i) == IF i < k THEN i ELSE i + 1
<1>1. /\ r \in Seq(S) /\ DOMAIN r = 1..(Len(s) - 1)
      /\ \A i \in DOMAIN r : /\ from(i) \in DOMAIN s /\ from(i) # k
                             /\ r[i] = s[from(i)]
      <2>1. /\ r \in Seq(S) /\ DOMAIN r = 1..(Len(s) - 1) /\ Len(s) \in Nat
            /\ \A i \in 1..(k - 1) : r[i] = s[i]
            /\ \A i \in k..(Len(s) - 1) : r[i] = s[i + 1]
            BY RemoveAtElements
      <2> HIDE DEF r
      <2> QED BY <2>1
<1>2. \A i, j \in DOMAIN r : from(i) = from(j) => i = j
      BY <1>1
<1>3. IsInjective(r)
      BY <1>1, <1>2 DEF IsInjective
<1>4. \A x \in ToSet(r) : x \in ToSet(s) /\ x # s[k]
      BY <1>1 DEF ToSet, IsInjective
<1>5. ASSUME NEW x \in ToSet(s), x # s[k] PROVE x \in ToSet(r)
      <2>1. PICK j \in DOMAIN s : x = s[j]
            BY <1>5 DEF ToSet
      <2>2. j # k
            BY <1>5, <2>1
      <2> DEFINE i == IF j < k THEN j ELSE j - 1
      <2>3. i \in DOMAIN r /\ from(i) = j
            BY <1>1, <2>1, <2>2
      <2> HIDE DEF i, r
      <2>4. r[i] = x
            BY <1>1, <2>1, <2>3
      <2> QED BY <2>3, <2>4 DEF ToSet
<1> QED BY <1>3, <1>4, <1>5

-----------------------------------------------------------------------------
(* The server thread and the kernel: clientSockets holds the descriptors   *)
(* of the open connections, no two of which have the same one.             *)
NetType ==
  /\ conn \in [Conns -> {"none", "backlog", "open", "left", "gone"}]
  /\ fdOf \in [Conns -> Fds \cup {0}]
  /\ numFds \in Nat /\ index \in Nat \ {0}
  /\ spc \in {"boot", "select", "clients", "recv", "push"}
  /\ clientSockets \in Seq(Fds)

NetInv ==
  /\ NetType
  /\ IsInjective(clientSockets)
  /\ ToSet(clientSockets) = {fdOf[c] : c \in {d \in Conns : Open(d)}}
  /\ spc \in {"recv", "push"} => index \in DOMAIN clientSockets
  /\ spc = "recv" => Sock \in curReadFds
  /\ \A c, d \in Conns : Open(c) /\ Open(d) /\ fdOf[c] = fdOf[d] => c = d

(* The socket that the loop is at belongs to one open connection.          *)
LEMMA ConnAtSock ==
  ASSUME NetInv, index \in DOMAIN clientSockets
  PROVE  /\ ConnAt(Sock) \in Conns /\ Open(ConnAt(Sock))
         /\ fdOf[ConnAt(Sock)] = Sock
         /\ \A c \in Conns : Open(c) /\ fdOf[c] = Sock => c = ConnAt(Sock)
<1>1. Sock \in ToSet(clientSockets)
      BY DEF Sock, ToSet
<1>2. \E c \in Conns : Open(c) /\ fdOf[c] = Sock
      BY <1>1 DEF NetInv
<1>3. /\ ConnAt(Sock) \in Conns /\ Open(ConnAt(Sock))
      /\ fdOf[ConnAt(Sock)] = Sock
      BY <1>2 DEF ConnAt
<1> QED BY <1>3 DEF NetInv

\* No connection is open at the start.
LEMMA NetInit == Init => NetInv
<1> SUFFICES ASSUME Init PROVE NetInv
    OBVIOUS
<1>1. NetType
      BY ProcessAssumption DEF Init, NetType
<1>2. \A c \in Conns : ~Open(c)
      BY DEF Init, Open
<1>3. ToSet(clientSockets) = {} /\ IsInjective(clientSockets)
      BY DEF Init, ToSet, IsInjective
<1> QED BY <1>1, <1>2, <1>3 DEF Init, NetInv

(* Steps of others.                                                        *)
LEMMA NetKept ==
  ASSUME NetInv, UNCHANGED <<kernel, spc, numFds, clientSockets, curReadFds, index>>
  PROVE  NetInv'
BY DEF NetInv, NetType, kernel, Open, Sock

(* Connecting and leaving do not open or close a socket of the server.     *)
LEMMA NetClients ==
  ASSUME NetInv, NEW c \in Conns, Connect(c) \/ CloseRepl(c)
  PROVE  NetInv'
<1>1. /\ NetType' /\ fdOf' = fdOf
      /\ UNCHANGED <<spc, numFds, clientSockets, curReadFds, index>>
      BY DEF Connect, CloseRepl, NetInv, NetType, server
<1>2. \A d \in Conns : Open(d)' <=> Open(d)
      BY DEF Connect, CloseRepl, NetInv, NetType, Open
<1> QED BY <1>1, <1>2 DEF NetInv, Sock

(* accept gives a descriptor that no open connection has.                  *)
LEMMA NetAccept ==
  ASSUME NetInv, NEW c \in Conns, Accept(c)
  PROVE  NetInv'
<1>1. PICK fd \in Fds \ UsedFds :
        /\ fdOf' = [fdOf EXCEPT ![c] = fd]
        /\ numFds' = fd + 1
        /\ clientSockets' = Append(clientSockets, fd)
      BY DEF Accept
<1>2. /\ spc = "select" /\ spc' = "select" /\ UNCHANGED index
      /\ conn[c] = "backlog" /\ conn' = [conn EXCEPT ![c] = "open"]
      BY DEF Accept
<1>3. NetType'
      BY <1>1, <1>2, ProcessAssumption DEF NetInv, NetType
<1>4. /\ ~Open(c) /\ Open(c)' /\ fdOf'[c] = fd
      /\ \A d \in Conns \ {c} : (Open(d)' <=> Open(d)) /\ fdOf'[d] = fdOf[d]
      BY <1>1, <1>2 DEF NetInv, NetType, Open
<1>5. \A d \in Conns : Open(d) => fdOf[d] # fd
      BY <1>1 DEF UsedFds
<1>6. fd \notin ToSet(clientSockets)
      BY <1>5 DEF NetInv
<1>7. /\ DOMAIN clientSockets' = 1..(Len(clientSockets) + 1)
      /\ DOMAIN clientSockets = 1..Len(clientSockets) /\ Len(clientSockets) \in Nat
      /\ \A i \in 1..Len(clientSockets) : clientSockets'[i] = clientSockets[i]
      /\ clientSockets'[Len(clientSockets) + 1] = fd
      BY <1>1 DEF NetInv, NetType
<1>8. IsInjective(clientSockets')
      BY <1>6, <1>7 DEF NetInv, IsInjective, ToSet
<1>9. ToSet(clientSockets') = ToSet(clientSockets) \cup {fd}
      BY <1>7 DEF ToSet
<1>10. {fdOf[d] : d \in {e \in Conns : Open(e)}}'
         = {fdOf[d] : d \in {e \in Conns : Open(e)}} \cup {fd}
      BY <1>4
<1>11. \A d, e \in Conns : Open(d)' /\ Open(e)' /\ fdOf'[d] = fdOf'[e] => d = e
      BY <1>4, <1>5 DEF NetInv
<1> QED BY <1>2, <1>3, <1>8, <1>9, <1>10, <1>11 DEF NetInv

(* A client that has left is erased, in the middle of the loop.            *)
LEMMA NetRecvEnd ==
  ASSUME NetInv, RecvEnd
  PROVE  NetInv'
<1>1. index \in DOMAIN clientSockets /\ clientSockets \in Seq(Fds)
      BY DEF RecvEnd, NetInv, NetType
<1>2. PICK c \in Conns : /\ c = ConnAt(Sock) /\ Open(c) /\ fdOf[c] = Sock
                         /\ \A d \in Conns : Open(d) /\ fdOf[d] = Sock => d = c
      BY <1>1, ConnAtSock
<1>3. /\ conn' = [conn EXCEPT ![c] = "gone"]
      /\ clientSockets' = RemoveAt(clientSockets, index)
      /\ spc' = "clients" /\ UNCHANGED <<fdOf, numFds, index>>
      BY <1>2 DEF RecvEnd
<1>4. /\ ~Open(c)'
      /\ \A d \in Conns \ {c} : Open(d)' <=> Open(d)
      BY <1>2, <1>3 DEF NetInv, NetType, Open
<1>5. /\ clientSockets' \in Seq(Fds) /\ IsInjective(clientSockets')
      /\ ToSet(clientSockets') = ToSet(clientSockets) \ {Sock}
      BY <1>1, <1>3, RemoveAtElements, RemoveAtInjective DEF NetInv, Sock
<1>6. NetType'
      BY <1>2, <1>3, <1>5 DEF NetInv, NetType
<1>7. {fdOf[d] : d \in {e \in Conns : Open(e)}}'
        = {fdOf[d] : d \in {e \in Conns : Open(e)}} \ {Sock}
      BY <1>2, <1>3, <1>4
<1>8. \A d, e \in Conns : Open(d)' /\ Open(e)' /\ fdOf'[d] = fdOf'[e] => d = e
      BY <1>3, <1>4 DEF NetInv
<1> QED BY <1>3, <1>5, <1>6, <1>7, <1>8 DEF NetInv

(* The other steps of the server thread move its place in the loop.        *)
LEMMA NetLoop ==
  ASSUME NetInv,
         \/ ServerBoot \/ Select \/ NextClient \/ RecvError
         \/ \E n \in 1..BufLen : RecvBlock(n)
         \/ PushExpr \/ PushEnd
  PROVE  NetInv'
<1>1. UNCHANGED <<kernel, numFds, clientSockets>>
      BY DEF ServerBoot, Select, NextClient, RecvError, RecvBlock, PushExpr, PushEnd
<1>2. /\ spc' \in {"boot", "select", "clients", "recv", "push"}
      /\ index' \in {1, index, index + 1}
      <2>1. CASE ServerBoot \/ Select \/ RecvError \/ PushEnd
            BY <2>1 DEF ServerBoot, Select, RecvError, PushEnd, NetInv, NetType
      <2>2. CASE NextClient
            BY <2>2 DEF NextClient, NetInv, NetType
      <2>3. CASE \E n \in 1..BufLen : RecvBlock(n)
            BY <2>3 DEF RecvBlock, NetInv, NetType
      <2>4. CASE PushExpr
            BY <2>4 DEF PushExpr, NetInv, NetType
      <2> QED BY <2>1, <2>2, <2>3, <2>4
<1>3. /\ spc' \in {"recv", "push"} => index' \in DOMAIN clientSockets
      /\ spc' = "recv" => clientSockets[index'] \in curReadFds'
      <2>1. CASE ServerBoot \/ Select \/ RecvError \/ PushEnd
            BY <2>1 DEF ServerBoot, Select, RecvError, PushEnd
      <2>2. CASE NextClient
            BY <2>2 DEF NextClient, IsSet, Sock, NetInv, NetType
      <2>3. CASE \E n \in 1..BufLen : RecvBlock(n)
            BY <2>3 DEF RecvBlock, NetInv, Sock
      <2>4. CASE PushExpr
            BY <2>4 DEF PushExpr, NetInv, Sock
      <2> QED BY <2>1, <2>2, <2>3, <2>4
<1> QED BY <1>1, <1>2, <1>3 DEF NetInv, NetType, kernel, Open, Sock

-----------------------------------------------------------------------------
(* The task thread and the callbacks: an environment is needed in one      *)
(* place if it is pinned and in none if it is not.                         *)
PinType ==
  /\ tpc \in {"boot", "init", "idle", "eval"}
  /\ impEnv \subseteq Envs /\ scheduled \subseteq Envs
  /\ IsSeq(taskQueue)
  /\ tpc # "eval" => task = NoTask

InQueue(e) == \E i \in DOMAIN taskQueue : Needs(taskQueue[i], e)

OnePlace(e) ==
  /\ e \in scheduled => e \in impEnv /\ ~Needs(task, e) /\ ~InQueue(e)
  /\ Needs(task, e) => e \in impEnv /\ ~InQueue(e)
  /\ InQueue(e) => e \in impEnv
  /\ \A i, j \in DOMAIN taskQueue :
       Needs(taskQueue[i], e) /\ Needs(taskQueue[j], e) => i = j
  /\ e \in impEnv => e \in scheduled \/ Needs(task, e) \/ InQueue(e)

PinInv == PinType /\ \A e \in Envs : OnePlace(e)

\* A task without an environment pins nothing.
LEMMA NeedsNothing ==
  ASSUME NEW e
  PROVE  /\ ~Needs(NoTask, e) /\ ~Needs(String, e)
         /\ \A c, n, fd : ~Needs(Repl(c, n, fd), e)
         /\ \A f : Needs(Callback(f), e) <=> f = e
         /\ \A f : Needs(Destroy(f), e) <=> f = e
BY DEF Needs, NoTask, String, Repl, Callback, Destroy

\* Nothing is pinned at the start.
LEMMA PinInit == Init => PinInv
<1> SUFFICES ASSUME Init PROVE PinInv
    OBVIOUS
<1>1. IsSeq(taskQueue)
      <2>1. taskQueue \in Seq({})
            BY DEF Init
      <2> QED BY <2>1 DEF IsSeq
<1>2. PinType
      BY <1>1 DEF Init, PinType
<1>3. \A e \in Envs : ~InQueue(e)
      BY DEF Init, InQueue
<1>4. \A e \in Envs : OnePlace(e)
      BY <1>3, NeedsNothing DEF Init, OnePlace
<1> QED BY <1>2, <1>4 DEF PinInv

(* Steps that do not touch the tasks.                                      *)
LEMMA PinKept ==
  ASSUME PinInv, UNCHANGED <<tpc, task, taskQueue, impEnv, scheduled>>
  PROVE  PinInv'
BY DEF PinInv, PinType, OnePlace, InQueue

(* What is in the queue after a task was added to its end.                 *)
LEMMA AppendQueue ==
  ASSUME IsSeq(taskQueue), NEW t, taskQueue' = Append(taskQueue, t), NEW e
  PROVE  /\ IsSeq(taskQueue')
         /\ InQueue(e)' <=> InQueue(e) \/ Needs(t, e)
         /\ (\A i, j \in DOMAIN taskQueue :
               Needs(taskQueue[i], e) /\ Needs(taskQueue[j], e) => i = j)
              /\ ~(InQueue(e) /\ Needs(t, e))
            => \A i, j \in DOMAIN taskQueue' :
                 Needs(taskQueue'[i], e) /\ Needs(taskQueue'[j], e) => i = j
<1>1. /\ IsSeq(taskQueue') /\ Len(taskQueue) \in Nat
      /\ DOMAIN taskQueue = 1..Len(taskQueue)
      /\ DOMAIN taskQueue' = 1..(Len(taskQueue) + 1)
      /\ \A i \in 1..Len(taskQueue) : taskQueue'[i] = taskQueue[i]
      /\ taskQueue'[Len(taskQueue) + 1] = t
      BY AppendElements
<1>2. InQueue(e)' <=> InQueue(e) \/ Needs(t, e)
      BY <1>1 DEF InQueue
<1> QED BY <1>1, <1>2 DEF InQueue

(* A task without an environment is queued.                                *)
LEMMA PinAppend ==
  ASSUME PinInv, NEW t, \A e \in Envs : ~Needs(t, e),
         taskQueue' = Append(taskQueue, t),
         UNCHANGED <<tpc, task, impEnv, scheduled>>
  PROVE  PinInv'
<1>1. IsSeq(taskQueue) /\ IsSeq(taskQueue')
      BY AppendQueue DEF PinInv, PinType
<1>2. ASSUME NEW e \in Envs PROVE OnePlace(e)'
      <2>1. InQueue(e)' <=> InQueue(e)
            BY <1>1, AppendQueue
      <2>2. \A i, j \in DOMAIN taskQueue' :
              Needs(taskQueue'[i], e) /\ Needs(taskQueue'[j], e) => i = j
            BY <1>1, AppendQueue DEF PinInv, OnePlace
      <2>3. Needs(task, e)' <=> Needs(task, e)
            OBVIOUS
      <2> QED BY <2>1, <2>2, <2>3 DEF PinInv, OnePlace
<1> QED BY <1>1, <1>2 DEF PinInv, PinType

(* The first work of the primary process.                                  *)
LEMMA PinTaskInit ==
  ASSUME PinInv, TaskInit
  PROVE  PinInv'
<1> DEFINE first == [i \in 1..InitTasks |-> String]
<1>1. /\ first \in Seq({String}) /\ Len(first) = InitTasks /\ InitTasks \in Nat
      /\ \A i \in 1..InitTasks : first[i] = String
      BY ProcessAssumption
<1>2. taskQueue' = taskQueue \o first
      BY DEF TaskInit
<1> HIDE DEF first
<1>3. /\ IsSeq(taskQueue') /\ Len(taskQueue) \in Nat
      /\ DOMAIN taskQueue = 1..Len(taskQueue)
      /\ DOMAIN taskQueue' = 1..(Len(taskQueue) + InitTasks)
      /\ \A i \in 1..Len(taskQueue) : taskQueue'[i] = taskQueue[i]
      /\ \A i \in (Len(taskQueue) + 1)..(Len(taskQueue) + InitTasks) :
           taskQueue'[i] = first[i - Len(taskQueue)]
      <2>1. IsSeq(taskQueue)
            BY DEF PinInv, PinType
      <2>2. /\ IsSeq(taskQueue \o first) /\ Len(taskQueue) \in Nat
            /\ DOMAIN taskQueue = 1..Len(taskQueue)
            /\ DOMAIN (taskQueue \o first) = 1..(Len(taskQueue) + Len(first))
            /\ \A i \in 1..Len(taskQueue) : (taskQueue \o first)[i] = taskQueue[i]
            /\ \A i \in (Len(taskQueue) + 1)..(Len(taskQueue) + Len(first)) :
                 (taskQueue \o first)[i] = first[i - Len(taskQueue)]
            BY <1>1, <2>1, ConcatElements
      <2> QED BY <1>1, <1>2, <2>2
<1>4. \A i \in DOMAIN taskQueue' :
        IF i \in DOMAIN taskQueue THEN taskQueue'[i] = taskQueue[i]
                                  ELSE taskQueue'[i] = String
      BY <1>1, <1>3
<1>5. ASSUME NEW e \in Envs PROVE OnePlace(e)'
      <2>1. \A i \in DOMAIN taskQueue' : Needs(taskQueue'[i], e) <=>
              i \in DOMAIN taskQueue /\ Needs(taskQueue[i], e)
            BY <1>4, NeedsNothing
      <2>2. InQueue(e)' <=> InQueue(e)
            BY <1>1, <1>3, <2>1 DEF InQueue
      <2>3. UNCHANGED <<task, scheduled, impEnv>>
            BY DEF TaskInit, pins
      <2> QED BY <2>1, <2>2, <2>3 DEF PinInv, OnePlace
<1> QED BY <1>3, <1>5 DEF PinInv, PinType, TaskInit, pins

(* The task thread takes the first task of the queue.                      *)
LEMMA PinTake ==
  ASSUME PinInv, Take
  PROVE  PinInv'
<1>1. /\ task = NoTask /\ task' = Head(taskQueue) /\ tpc' = "eval"
      /\ taskQueue' = Tail(taskQueue) /\ taskQueue # <<>>
      /\ UNCHANGED <<impEnv, scheduled>>
      BY DEF Take, PinInv, PinType, pins
<1>2. /\ IsSeq(taskQueue') /\ Len(taskQueue) \in Nat \ {0}
      /\ DOMAIN taskQueue = 1..Len(taskQueue)
      /\ DOMAIN taskQueue' = 1..(Len(taskQueue) - 1)
      /\ \A i \in 1..(Len(taskQueue) - 1) : taskQueue'[i] = taskQueue[i + 1]
      /\ task' = taskQueue[1]
      BY <1>1, TailElements DEF PinInv, PinType
<1>3. ASSUME NEW e \in Envs PROVE OnePlace(e)'
      <2>1. \A i \in DOMAIN taskQueue' : i + 1 \in DOMAIN taskQueue
                                         /\ taskQueue'[i] = taskQueue[i + 1]
            BY <1>2
      <2>2. OnePlace(e) /\ ~Needs(task, e)
            BY <1>1, NeedsNothing DEF PinInv
      <2>3. /\ Needs(task, e)' => InQueue(e)
            /\ InQueue(e)' => InQueue(e)
            /\ InQueue(e) => Needs(task, e)' \/ InQueue(e)'
            <3>1. InQueue(e) => Needs(task', e) \/ InQueue(e)'
                  <4> SUFFICES ASSUME NEW i \in DOMAIN taskQueue, Needs(taskQueue[i], e)
                               PROVE  Needs(task', e) \/ InQueue(e)'
                      BY DEF InQueue
                  <4>1. CASE i = 1
                        BY <1>2, <4>1
                  <4>2. CASE i # 1
                        <5>1. i - 1 \in DOMAIN taskQueue' /\ taskQueue'[i - 1] = taskQueue[i]
                              BY <1>2, <4>2
                        <5> QED BY <5>1 DEF InQueue
                  <4> QED BY <4>1, <4>2
            <3>2. Needs(task', e) => InQueue(e)
                  BY <1>2 DEF InQueue
            <3>3. InQueue(e)' => InQueue(e)
                  BY <2>1 DEF InQueue
            <3> QED BY <3>1, <3>2, <3>3
      <2>4. ~(Needs(task, e)' /\ InQueue(e)')
            <3> SUFFICES ASSUME Needs(task', e), NEW i \in DOMAIN taskQueue',
                                Needs(taskQueue'[i], e)
                         PROVE  FALSE
                BY DEF InQueue
            <3>1. 1 \in DOMAIN taskQueue /\ Needs(taskQueue[1], e)
                  BY <1>2
            <3>2. i + 1 \in DOMAIN taskQueue /\ Needs(taskQueue[i + 1], e) /\ i + 1 # 1
                  BY <1>2, <2>1
            <3> QED BY <2>2, <3>1, <3>2 DEF OnePlace
      <2>5. \A i, j \in DOMAIN taskQueue' :
              Needs(taskQueue'[i], e) /\ Needs(taskQueue'[j], e) => i = j
            <3> SUFFICES ASSUME NEW i \in DOMAIN taskQueue', NEW j \in DOMAIN taskQueue',
                                Needs(taskQueue'[i], e), Needs(taskQueue'[j], e)
                         PROVE  i = j
                OBVIOUS
            <3>1. i + 1 = j + 1
                  BY <2>1, <2>2 DEF OnePlace
            <3> QED BY <1>2, <3>1
      <2> QED BY <1>1, <2>2, <2>3, <2>4, <2>5 DEF OnePlace
<1> QED BY <1>1, <1>2, <1>3 DEF PinInv, PinType

(* callCPPAtTime makes an environment that is not in use.                  *)
LEMMA PinSchedule ==
  ASSUME PinInv, NEW e \in Envs, Schedule(e)
  PROVE  PinInv'
<1>1. /\ UNCHANGED <<tpc, task, taskQueue>> /\ e \notin impEnv
      /\ impEnv' = impEnv \cup {e} /\ scheduled' = scheduled \cup {e}
      BY DEF Schedule
<1>2. PinType'
      BY <1>1 DEF PinInv, PinType
<1>3. ASSUME NEW f \in Envs PROVE OnePlace(f)'
      <2>1. OnePlace(f)
            BY DEF PinInv
      <2>2. (InQueue(f)' <=> InQueue(f)) /\ (Needs(task, f)' <=> Needs(task, f))
            BY <1>1 DEF InQueue
      <2> QED BY <1>1, <2>1, <2>2 DEF OnePlace
<1> QED BY <1>2, <1>3 DEF PinInv

(* The scheduler hands the callback over.                                  *)
LEMMA PinAddCallback ==
  ASSUME PinInv, NEW e \in Envs, AddCallback(e)
  PROVE  PinInv'
<1>1. /\ UNCHANGED <<tpc, task, impEnv>> /\ e \in scheduled
      /\ taskQueue' = Append(taskQueue, Callback(e)) /\ scheduled' = scheduled \ {e}
      BY DEF AddCallback
<1>2. IsSeq(taskQueue) /\ IsSeq(taskQueue')
      BY <1>1, AppendQueue DEF PinInv, PinType
<1>3. PinType'
      BY <1>1, <1>2 DEF PinInv, PinType
<1>4. ASSUME NEW f \in Envs PROVE OnePlace(f)'
      <2>1. OnePlace(f)
            BY DEF PinInv
      <2>2. /\ InQueue(f)' <=> InQueue(f) \/ f = e
            /\ Needs(task, f)' <=> Needs(task, f)
            BY <1>1, <1>2, AppendQueue, NeedsNothing
      <2>3. ~(InQueue(f) /\ f = e)
            BY <1>1, <2>1 DEF OnePlace
      <2>4. \A i, j \in DOMAIN taskQueue' :
              Needs(taskQueue'[i], f) /\ Needs(taskQueue'[j], f) => i = j
            BY <1>1, <1>2, <2>1, <2>3, AppendQueue, NeedsNothing DEF OnePlace
      <2> QED BY <1>1, <2>1, <2>2, <2>4 DEF OnePlace
<1> QED BY <1>3, <1>4 DEF PinInv

(* The end of a task that has no environment.                              *)
LEMMA PinEnd ==
  ASSUME PinInv, EndString \/ \E reply \in BOOLEAN : EndRepl(reply)
  PROVE  PinInv'
<1>1. /\ UNCHANGED <<taskQueue, impEnv, scheduled>> /\ tpc' = "idle" /\ task' = NoTask
      /\ \A e : ~Needs(task, e)
      BY DEF EndString, EndRepl, Needs, pins
<1>2. PinType'
      BY <1>1 DEF PinInv, PinType
<1>3. ASSUME NEW e \in Envs PROVE OnePlace(e)'
      <2>1. OnePlace(e)
            BY DEF PinInv
      <2>2. (InQueue(e)' <=> InQueue(e)) /\ ~Needs(task, e)'
            BY <1>1, NeedsNothing DEF InQueue
      <2> QED BY <1>1, <2>1, <2>2 DEF OnePlace
<1> QED BY <1>2, <1>3 DEF PinInv

(* The object of a callback is deleted: its environment goes on being      *)
(* needed by the DESTROY_ENV task.                                         *)
LEMMA PinEndCallback ==
  ASSUME PinInv, EndCallback
  PROVE  PinInv'
<1>1. /\ UNCHANGED <<impEnv, scheduled>> /\ tpc' = "idle" /\ task' = NoTask
      /\ taskQueue' = Append(taskQueue, Destroy(task.env))
      /\ \A e : Needs(task, e) <=> task.env = e
      BY DEF EndCallback, Needs, pins
<1>2. IsSeq(taskQueue) /\ IsSeq(taskQueue')
      BY <1>1, AppendQueue DEF PinInv, PinType
<1>3. PinType'
      BY <1>1, <1>2 DEF PinInv, PinType
<1>4. ASSUME NEW e \in Envs PROVE OnePlace(e)'
      <2>1. OnePlace(e)
            BY DEF PinInv
      <2>2. Needs(Destroy(task.env), e) <=> Needs(task, e)
            BY <1>1, NeedsNothing
      <2>3. InQueue(e)' <=> InQueue(e) \/ Needs(task, e)
            BY <1>1, <1>2, <2>2, AppendQueue
      <2>4. ~Needs(task, e)'
            BY <1>1, NeedsNothing
      <2>5. \A i, j \in DOMAIN taskQueue' :
              Needs(taskQueue'[i], e) /\ Needs(taskQueue'[j], e) => i = j
            <3>1. ~(InQueue(e) /\ Needs(Destroy(task.env), e))
                  BY <2>1, <2>2 DEF OnePlace
            <3>2. \A i, j \in DOMAIN taskQueue :
                    Needs(taskQueue[i], e) /\ Needs(taskQueue[j], e) => i = j
                  BY <2>1 DEF OnePlace
            <3> QED BY <1>1, <1>2, <3>1, <3>2, AppendQueue
      <2> QED BY <1>1, <2>1, <2>3, <2>4, <2>5 DEF OnePlace
<1> QED BY <1>3, <1>4 DEF PinInv

(* The environment is let go.                                              *)
LEMMA PinDestroyEnv ==
  ASSUME PinInv, DestroyEnv
  PROVE  PinInv'
<1>1. /\ UNCHANGED <<taskQueue, scheduled>> /\ tpc' = "idle" /\ task' = NoTask
      /\ impEnv' = impEnv \ {task.env}
      /\ \A e : Needs(task, e) <=> task.env = e
      BY DEF DestroyEnv, Needs
<1>2. PinType'
      BY <1>1 DEF PinInv, PinType
<1>3. ASSUME NEW e \in Envs PROVE OnePlace(e)'
      <2>1. OnePlace(e)
            BY DEF PinInv
      <2>2. (InQueue(e)' <=> InQueue(e)) /\ ~Needs(task, e)'
            BY <1>1, NeedsNothing DEF InQueue
      <2>3. e \in impEnv' <=> e \in impEnv /\ ~Needs(task, e)
            BY <1>1
      <2> QED BY <1>1, <2>1, <2>2, <2>3 DEF OnePlace
<1> QED BY <1>2, <1>3 DEF PinInv

-----------------------------------------------------------------------------
(* Replies.  A task has the descriptor that the connection it was read     *)
(* from has, or had before it was closed; no two open connections have the *)
(* same one.                                                               *)
Had(c) == conn[c] \in {"open", "left", "gone"}

Labelled(t) ==
  t.type = "repl" => t.conn \in Conns /\ Had(t.conn) /\ t.sock = fdOf[t.conn]

LabelInv ==
  /\ Labelled(task) /\ \A i \in DOMAIN taskQueue : Labelled(taskQueue[i])
  /\ replies \in [Conns -> SUBSET Conns]
  /\ RepliesToAsker

(* The sockets and the pins.                                               *)
PInv == NetInv /\ PinInv

\* Nobody waits for a reply at the start.
LEMMA LabelInit == Init => LabelInv
BY DEF Init, LabelInv, Had, Labelled, NoTask, RepliesToAsker

(* Connections come and go: the labels stay right.                         *)
LEMMA LabelKernel ==
  ASSUME LabelInv, UNCHANGED <<task, taskQueue, replies>>,
         \A c \in Conns : Had(c) => Had(c)' /\ fdOf'[c] = fdOf[c],
         \A c \in Conns : conn[c] = "gone" => conn'[c] = "gone"
  PROVE  LabelInv'
<1>1. ASSUME NEW t, Labelled(t)
      PROVE  t.type = "repl" => t.conn \in Conns /\ Had(t.conn)' /\ t.sock = fdOf'[t.conn]
      BY <1>1 DEF Labelled
<1>2. Labelled(task)'
      BY <1>1 DEF LabelInv, Labelled
<1>3. \A i \in DOMAIN taskQueue' : Labelled(taskQueue[i])'
      BY <1>1 DEF LabelInv, Labelled
<1>4. RepliesToAsker'
      BY DEF LabelInv, RepliesToAsker
<1> QED BY <1>2, <1>3, <1>4 DEF LabelInv

(* Tasks come and go: they are labelled.                                   *)
LEMMA LabelTasks ==
  ASSUME LabelInv, UNCHANGED <<kernel, replies>>,
         Labelled(task'), \A i \in DOMAIN taskQueue' : Labelled(taskQueue'[i])
  PROVE  LabelInv'
<1>1. \A c \in Conns : (Had(c)' <=> Had(c)) /\ fdOf'[c] = fdOf[c]
      BY DEF Had, kernel
<1>2. Labelled(task)' /\ \A i \in DOMAIN taskQueue' : Labelled(taskQueue[i])'
      BY <1>1 DEF Labelled
<1>3. RepliesToAsker'
      BY DEF LabelInv, RepliesToAsker, kernel
<1> QED BY <1>2, <1>3 DEF LabelInv

(* Clients, and the server thread when a client has left.                  *)
LEMMA LabelClients ==
  ASSUME NetInv, LabelInv,
         RecvEnd \/ \E c \in Conns : Connect(c) \/ CloseRepl(c)
  PROVE  LabelInv'
<1>1. PICK c \in Conns, s \in {"backlog", "left", "gone"} :
        /\ conn' = [conn EXCEPT ![c] = s]
        /\ s = "backlog" <=> ~Had(c)
        /\ conn[c] # "gone"
      <2>1. CASE RecvEnd
            <3>1. ConnAt(Sock) \in Conns /\ Open(ConnAt(Sock))
                  BY <2>1, ConnAtSock DEF RecvEnd, NetInv
            <3> QED BY <2>1, <3>1 DEF RecvEnd, Open, Had
      <2>2. CASE \E c \in Conns : Connect(c) \/ CloseRepl(c)
            BY <2>2 DEF Connect, CloseRepl, Had
      <2> QED BY <2>1, <2>2
<1>2. UNCHANGED <<fdOf, task, taskQueue, replies>>
      BY DEF RecvEnd, Connect, CloseRepl, past
<1>3. /\ conn'[c] = s
      /\ \A d \in Conns \ {c} : conn'[d] = conn[d]
      BY <1>1 DEF NetInv, NetType
<1>4. \A d \in Conns : Had(d) => Had(d)'
      BY <1>1, <1>3 DEF Had
<1>5. \A d \in Conns : conn[d] = "gone" => conn'[d] = "gone"
      BY <1>1, <1>3
<1>6. \A d \in Conns : Had(d) => Had(d)' /\ fdOf'[d] = fdOf[d]
      BY <1>2, <1>4
<1> QED BY <1>2, <1>5, <1>6, LabelKernel

(* accept, which may give out the descriptor of a client that left.        *)
LEMMA LabelAccept ==
  ASSUME NetInv, LabelInv, NEW c \in Conns, Accept(c)
  PROVE  LabelInv'
<1>1. PICK fd \in Fds \ UsedFds : fdOf' = [fdOf EXCEPT ![c] = fd]
      BY DEF Accept
<1>2. /\ conn[c] = "backlog" /\ conn' = [conn EXCEPT ![c] = "open"]
      /\ UNCHANGED <<task, taskQueue, replies>>
      BY DEF Accept, past
<1>3. /\ ~Had(c)
      /\ \A d \in Conns \ {c} : conn'[d] = conn[d] /\ fdOf'[d] = fdOf[d]
      BY <1>1, <1>2 DEF NetInv, NetType, Had
<1>4. \A d \in Conns : Had(d) => Had(d)' /\ fdOf'[d] = fdOf[d]
      BY <1>3 DEF Had
<1>5. \A d \in Conns : conn[d] = "gone" => conn'[d] = "gone"
      BY <1>2, <1>3
<1> QED BY <1>2, <1>4, <1>5, LabelKernel

(* The server thread queues an expression.                                 *)
LEMMA LabelPush ==
  ASSUME NetInv, PinInv, LabelInv, PushExpr
  PROVE  LabelInv'
<1>1. index \in DOMAIN clientSockets
      BY DEF PushExpr, NetInv
<1>2. /\ ConnAt(Sock) \in Conns /\ Had(ConnAt(Sock)) /\ fdOf[ConnAt(Sock)] = Sock
      BY <1>1, ConnAtSock DEF Open, Had
<1> DEFINE t == Repl(ConnAt(Sock), evalStr[1], Label)
<1>3. taskQueue' = Append(taskQueue, t) /\ UNCHANGED <<kernel, task, replies>>
      BY DEF PushExpr, past
<1>4. Labelled(t)
      BY <1>2 DEF Labelled, Repl, Label
<1> HIDE DEF t
<1>5. \A i \in DOMAIN taskQueue' : Labelled(taskQueue'[i])
      BY <1>3, <1>4, AppendElements DEF LabelInv, PinInv, PinType
<1> QED BY <1>3, <1>5, LabelTasks DEF LabelInv

(* The other tasks that are queued have no reply.                          *)
LEMMA LabelQueue ==
  ASSUME PinInv, LabelInv,
         \/ TaskInit \/ Take \/ EndString \/ EndCallback \/ DestroyEnv
         \/ CreateSchemeTask \/ \E e \in Envs : AddCallback(e) \/ Schedule(e)
  PROVE  LabelInv'
<1>1. UNCHANGED <<kernel, replies>>
      BY DEF TaskInit, Take, EndString, EndCallback, DestroyEnv, CreateSchemeTask,
             AddCallback, Schedule, past
<1>2. /\ Labelled(NoTask) /\ Labelled(String)
      /\ \A e : Labelled(Callback(e)) /\ Labelled(Destroy(e))
      BY DEF Labelled, NoTask, String, Callback, Destroy
<1>3. IsSeq(taskQueue)
      BY DEF PinInv, PinType
<1>4. ASSUME NEW u, Labelled(u), taskQueue' = Append(taskQueue, u)
      PROVE  \A i \in DOMAIN taskQueue' : Labelled(taskQueue'[i])
      BY <1>3, <1>4, AppendElements DEF LabelInv
<1>5. CASE TaskInit
      <2> DEFINE first == [i \in 1..InitTasks |-> String]
      <2>1. /\ first \in Seq({String}) /\ Len(first) = InitTasks /\ InitTasks \in Nat
            /\ \A i \in 1..InitTasks : first[i] = String
            BY ProcessAssumption
      <2>2. taskQueue' = taskQueue \o first /\ task' = task
            BY <1>5 DEF TaskInit
      <2> HIDE DEF first
      <2>3. \A i \in DOMAIN taskQueue' :
              \/ i \in DOMAIN taskQueue /\ taskQueue'[i] = taskQueue[i]
              \/ taskQueue'[i] = String
            <3>1. /\ Len(taskQueue) \in Nat /\ DOMAIN taskQueue = 1..Len(taskQueue)
                  /\ DOMAIN taskQueue' = 1..(Len(taskQueue) + InitTasks)
                  /\ \A i \in 1..Len(taskQueue) : taskQueue'[i] = taskQueue[i]
                  /\ \A i \in (Len(taskQueue) + 1)..(Len(taskQueue) + InitTasks) :
                       taskQueue'[i] = first[i - Len(taskQueue)]
                  <4>1. /\ Len(taskQueue) \in Nat /\ DOMAIN taskQueue = 1..Len(taskQueue)
                        /\ DOMAIN (taskQueue \o first) = 1..(Len(taskQueue) + Len(first))
                        /\ \A i \in 1..Len(taskQueue) : (taskQueue \o first)[i] = taskQueue[i]
                        /\ \A i \in (Len(taskQueue) + 1)..(Len(taskQueue) + Len(first)) :
                             (taskQueue \o first)[i] = first[i - Len(taskQueue)]
                        BY <1>3, <2>1, ConcatElements
                  <4> QED BY <2>1, <2>2, <4>1
            <3> QED BY <2>1, <3>1
      <2> QED BY <1>1, <1>2, <2>2, <2>3, LabelTasks DEF LabelInv
<1>6. CASE Take
      <2>1. task' = Head(taskQueue) /\ taskQueue' = Tail(taskQueue) /\ taskQueue # <<>>
            BY <1>6 DEF Take
      <2>2. /\ task' = taskQueue[1] /\ 1 \in DOMAIN taskQueue
            /\ \A i \in DOMAIN taskQueue' :
                 i + 1 \in DOMAIN taskQueue /\ taskQueue'[i] = taskQueue[i + 1]
            BY <1>3, <2>1, TailElements
      <2> QED BY <1>1, <2>2, LabelTasks DEF LabelInv
<1>7. CASE EndString \/ DestroyEnv
      BY <1>1, <1>2, <1>7, LabelTasks DEF EndString, DestroyEnv, LabelInv
<1>8. CASE EndCallback
      BY <1>1, <1>2, <1>4, <1>8, LabelTasks DEF EndCallback, LabelInv
<1>9. CASE CreateSchemeTask
      BY <1>1, <1>2, <1>4, <1>9, LabelTasks DEF CreateSchemeTask, LabelInv
<1>10. CASE \E e \in Envs : AddCallback(e)
      BY <1>1, <1>2, <1>4, <1>10, LabelTasks DEF AddCallback, LabelInv
<1>11. CASE \E e \in Envs : Schedule(e)
      BY <1>1, <1>11, LabelTasks DEF Schedule, LabelInv
<1> QED BY <1>5, <1>6, <1>7, <1>8, <1>9, <1>10, <1>11

(* The reply: who has the descriptor now, if anyone, is the asker, unless  *)
(* the asker's connection was closed.                                      *)
LEMMA LabelReply ==
  ASSUME NetInv, LabelInv, NEW reply \in BOOLEAN, EndRepl(reply)
  PROVE  LabelInv'
<1>1. /\ task' = NoTask /\ UNCHANGED <<kernel, taskQueue>>
      BY DEF EndRepl
<1>2. /\ task.conn \in Conns /\ Had(task.conn) /\ task.sock = fdOf[task.conn]
      BY DEF EndRepl, LabelInv, Labelled
<1> DEFINE to == ConnAt(task.sock)
<1>3. to # NoConn => to \in Conns /\ (to = task.conn \/ conn[task.conn] = "gone")
      <2> SUFFICES ASSUME to # NoConn
                   PROVE  to \in Conns /\ (to = task.conn \/ conn[task.conn] = "gone")
          OBVIOUS
      <2>1. to \in Conns /\ Open(to) /\ fdOf[to] = task.sock
            BY DEF ConnAt
      <2>2. Open(task.conn) \/ conn[task.conn] = "gone"
            BY <1>2 DEF Open, Had
      <2> QED BY <1>2, <2>1, <2>2 DEF NetInv
<1> DEFINE asker == task.conn
<1>4. \/ replies' = replies
      \/ /\ to \in Conns /\ (to = asker \/ conn[asker] = "gone")
         /\ replies' = [replies EXCEPT ![to] = @ \cup {asker}]
      BY <1>3 DEF EndRepl
<1> HIDE DEF to, asker
<1>5. replies' \in [Conns -> SUBSET Conns] /\ RepliesToAsker'
      <2>1. asker \in Conns /\ conn' = conn
            BY <1>1, <1>2 DEF asker, kernel
      <2>2. replies \in [Conns -> SUBSET Conns] /\ RepliesToAsker
            BY DEF LabelInv
      <2>3. CASE replies' = replies
            BY <2>1, <2>2, <2>3 DEF RepliesToAsker
      <2>4. CASE /\ to \in Conns /\ (to = asker \/ conn[asker] = "gone")
                 /\ replies' = [replies EXCEPT ![to] = @ \cup {asker}]
            <3>1. \A c \in Conns : \/ replies'[c] = replies[c]
                                   \/ c = to /\ replies'[c] = replies[c] \cup {asker}
                  BY <2>2, <2>4
            <3>2. replies' \in [Conns -> SUBSET Conns]
                  BY <2>1, <2>2, <2>4
            <3> QED BY <2>1, <2>2, <2>4, <3>1, <3>2 DEF RepliesToAsker
      <2> QED BY <1>4, <2>3, <2>4
<1>6. \A c \in Conns : (Had(c)' <=> Had(c)) /\ fdOf'[c] = fdOf[c]
      BY <1>1 DEF Had, kernel
<1>7. Labelled(task)' /\ \A i \in DOMAIN taskQueue' : Labelled(taskQueue[i])'
      BY <1>1, <1>6 DEF LabelInv, Labelled, NoTask
<1> QED BY <1>5, <1>6, <1>7 DEF LabelInv

(* Steps that change none of it.                                           *)
LEMMA LabelKept ==
  ASSUME LabelInv, UNCHANGED <<kernel, task, taskQueue, replies>>
  PROVE  LabelInv'
BY LabelTasks DEF LabelInv

-----------------------------------------------------------------------------
(* Every step keeps the invariants of the sockets, the pins and the labels.*)
LEMMA StepKeeps ==
  ASSUME PInv, [Next]_vars
  PROVE  PInv' /\ (LabelInv => LabelInv')
<1> USE DEF PInv, kernel, server, pins, past
<1>1. CASE UNCHANGED vars
      BY <1>1, NetKept, PinKept, LabelKept DEF vars
<1>2. CASE \E c \in Conns : \/ WritePiece(c)
                            \/ \E len \in BodyLens : WriteString(c, len)
      BY <1>2, NetKept, PinKept, LabelKept DEF WritePiece, WriteString
<1>3. CASE \E c \in Conns : Connect(c) \/ CloseRepl(c)
      <2>1. UNCHANGED <<tpc, task, taskQueue, impEnv, scheduled>>
            BY <1>3 DEF Connect, CloseRepl
      <2> QED BY <1>3, <2>1, NetClients, PinKept, LabelClients
<1>4. CASE \E c \in Conns : Accept(c)
      <2>1. UNCHANGED <<tpc, task, taskQueue, impEnv, scheduled>>
            BY <1>4 DEF Accept
      <2> QED BY <1>4, <2>1, NetAccept, PinKept, LabelAccept
<1>5. CASE RecvEnd
      <2>1. UNCHANGED <<tpc, task, taskQueue, impEnv, scheduled>>
            BY <1>5 DEF RecvEnd
      <2> QED BY <1>5, <2>1, NetRecvEnd, PinKept, LabelClients
<1>6. CASE \/ ServerBoot \/ Select \/ NextClient \/ RecvError \/ PushEnd
           \/ \E n \in 1..BufLen : RecvBlock(n)
      <2>1. /\ UNCHANGED <<tpc, task, taskQueue, impEnv, scheduled>>
            /\ UNCHANGED <<kernel, replies>>
            BY <1>6 DEF ServerBoot, Select, NextClient, RecvError, PushEnd, RecvBlock
      <2>2. NetInv'
            BY <1>6, NetLoop
      <2> QED BY <2>1, <2>2, PinKept, LabelKept
<1>7. CASE PushExpr
      <2>1. \A e \in Envs : ~Needs(Repl(ConnAt(Sock), evalStr[1], Label), e)
            BY NeedsNothing
      <2>2. /\ taskQueue' = Append(taskQueue, Repl(ConnAt(Sock), evalStr[1], Label))
            /\ UNCHANGED <<tpc, task, impEnv, scheduled>>
            BY <1>7 DEF PushExpr
      <2>3. PinInv'
            BY <2>1, <2>2, PinAppend
      <2> QED BY <1>7, <2>3, NetLoop, LabelPush
<1>8. CASE Worker \/ Evaluated \/ Scheduler \/ CreateSchemeTask
      <2>1. NetInv'
            BY <1>8, NetKept DEF Worker, Evaluated, Scheduler, TaskBoot, TaskInit, Take,
               EndRepl, EndString, EndCallback, DestroyEnv, Schedule, AddCallback,
               CreateSchemeTask
      <2>2. CASE TaskBoot
            BY <2>1, <2>2, LabelKept DEF TaskBoot, PinInv, PinType, OnePlace, InQueue
      <2>3. CASE TaskInit \/ Take \/ EndString \/ EndCallback \/ DestroyEnv
            BY <2>1, <2>3, PinTaskInit, PinTake, PinEnd, PinEndCallback, PinDestroyEnv,
               LabelQueue
      <2>4. CASE \E reply \in BOOLEAN : EndRepl(reply)
            BY <2>1, <2>4, PinEnd, LabelReply
      <2>5. CASE Evaluated \/ Scheduler
            BY <2>1, <2>5, PinSchedule, PinAddCallback, LabelQueue
               DEF Evaluated, Scheduler
      <2>6. CASE CreateSchemeTask
            <3>1. \A e \in Envs : ~Needs(String, e)
                  BY NeedsNothing
            <3>2. PinInv'
                  BY <2>6, <3>1, PinAppend DEF CreateSchemeTask
            <3> QED BY <2>1, <2>6, <3>2, LabelQueue
      <2> QED BY <1>8, <2>2, <2>3, <2>4, <2>5, <2>6 DEF Worker
<1> QED BY <1>1, <1>2, <1>3, <1>4, <1>5, <1>6, <1>7, <1>8
        DEF Next, Writers, Clients, Server

(* The sockets and the pins, whatever clients and callbacks do.            *)
THEOREM ProcessInvariance == Spec => []PInv
<1>1. Init => PInv
      BY NetInit, PinInit DEF PInv
<1>2. PInv /\ [Next]_vars => PInv'
      BY StepKeeps
<1> QED BY <1>1, <1>2, PTL DEF Spec

(* The server thread looks at the open sockets, each once, although        *)
(* clients are erased from clientSockets in the middle of the loop, and    *)
(* calls recv only on one that select has named.                           *)
THEOREM ServerSocketsOpen == Spec => []SocketsOpen
<1>1. PInv => SocketsOpen
      <2>1. NetInv => ToSet(clientSockets) \subseteq Fds
            BY DEF NetInv, NetType, ToSet
      <2> QED BY <2>1 DEF PInv, NetInv, NetType, PinInv, PinType, SocketsOpen, TypeOK
<1> QED BY <1>1, ProcessInvariance, PTL

(* The environment of a callback is in imp_env from callCPPAtTime to its   *)
(* DESTROY_ENV, and is needed in one place all that time: the collector    *)
(* neither frees it too early nor keeps it, and it is destroyed once.      *)
THEOREM EnvironmentsPinned == Spec => []PinsExact
<1>1. PInv => PinsExact
      <2> SUFFICES ASSUME PInv, NEW e \in Envs
                   PROVE  Cardinality(Places(e)) = IF e \in impEnv THEN 1 ELSE 0
          BY DEF PinsExact
      <2>1. OnePlace(e) /\ DOMAIN taskQueue \subseteq Nat \ {0}
            <3>1. IsSeq(taskQueue)
                  BY DEF PInv, PinInv, PinType
            <3> QED BY <3>1, AppendElements DEF PInv, PinInv
      <2>2. CASE e \notin impEnv
            <3>1. Places(e) = {}
                  BY <2>1, <2>2 DEF Places, OnePlace, InQueue
            <3> QED BY <2>2, <3>1, FS_EmptySet
      <2>3. CASE e \in impEnv
            <3>1. \E at : Places(e) = {at}
                  <4>1. CASE e \in scheduled
                        <5>1. Places(e) = {-1}
                              BY <2>1, <4>1 DEF Places, OnePlace, InQueue
                        <5> QED BY <5>1
                  <4>2. CASE e \notin scheduled /\ Needs(task, e)
                        <5>1. Places(e) = {0}
                              BY <2>1, <4>2 DEF Places, OnePlace, InQueue
                        <5> QED BY <5>1
                  <4>3. CASE e \notin scheduled /\ ~Needs(task, e)
                        <5>1. PICK i \in DOMAIN taskQueue : Needs(taskQueue[i], e)
                              BY <2>1, <2>3, <4>3 DEF OnePlace, InQueue
                        <5>2. Places(e) = {i}
                              BY <2>1, <4>3, <5>1 DEF Places, OnePlace
                        <5> QED BY <5>2
                  <4> QED BY <4>1, <4>2, <4>3
            <3> QED BY <2>3, <3>1, FS_Singleton
      <2> QED BY <2>2, <2>3
<1> QED BY <1>1, ProcessInvariance, PTL

(* The value of a request goes to the client that asked, whatever          *)
(* descriptors accept gives out, unless that client's connection is closed *)
(* by then: the task has a descriptor only, and the value goes to whoever  *)
(* has it now, if anyone.                                                  *)
THEOREM ProcessReplies == Spec => []RepliesToAsker
<1>1. Init => PInv /\ LabelInv
      BY NetInit, PinInit, LabelInit DEF PInv
<1>2. PInv /\ LabelInv /\ [Next]_vars => (PInv /\ LabelInv)'
      BY StepKeeps
<1>3. LabelInv => RepliesToAsker
      BY DEF LabelInv
<1> QED BY <1>1, <1>2, <1>3, PTL DEF Spec

-----------------------------------------------------------------------------
(* Sequences that are flattened.                                           *)

\* Induction over the natural numbers, of a set.
LEMMA NatSetInduction ==
  ASSUME NEW S, 0 \in S, \A n \in Nat : n \in S => n + 1 \in S
  PROVE  Nat \subseteq S
<1> DEFINE R == {ss \in Nat \X Nat : ss[1] < ss[2]}
           T == Nat \ S
<1>1. IsWellFoundedOn(R, Nat) BY NatLessThanWellFounded DEF OpToRel
<1> SUFFICES ASSUME T # {} PROVE FALSE OBVIOUS
<1>2. T \subseteq Nat OBVIOUS
<1> HIDE DEF R, T
<1>3. PICK x \in T : \A y \in T : ~ (<<y, x>> \in R) BY <1>1, <1>2, WFMin
<1>4. x \in Nat /\ x # 0 /\ x - 1 \in Nat BY <1>3 DEF T
<1>5. x - 1 \in T
  <2>1. (x - 1) + 1 = x BY <1>4
  <2>2. x \notin S BY <1>3 DEF T
  <2> QED BY <1>4, <2>1, <2>2 DEF T
<1>6. <<x - 1, x>> \in R BY <1>4 DEF R
<1> QED BY <1>3, <1>5, <1>6

\* FlattenSeq, as the last of its partial results.
Partial(F, seqs, X) ==
    /\ F \in [0 .. Len(seqs) -> Seq(X)] /\ F[0] = <<>>
    /\ \A i \in 1 .. Len(seqs) : F[i] = F[i - 1] \o seqs[i]

\* FlattenSeq has such partial results, whatever it flattens.
LEMMA FlattenPartial ==
  ASSUME NEW X, NEW seqs \in Seq(Seq(X))
  PROVE  \E F : Partial(F, seqs, X) /\ FlattenSeq(seqs) = F[Len(seqs)]
<1> DEFINE n == Len(seqs)
           Defines(g, m) == g = [i \in 1 .. m |-> IF i = 1 THEN seqs[i] ELSE g[i - 1] \o seqs[i]]
           Good(m) == \E g \in [1 .. m -> Seq(X)] : Defines(g, m)
           S == {m \in Nat : m <= n => Good(m)}
<1>1. n \in Nat /\ \A i \in 1 .. n : seqs[i] \in Seq(X) OBVIOUS
<1>2. CASE n = 0
  <2> DEFINE F == [i \in 0 .. 0 |-> <<>>]
  <2>1. seqs = <<>> /\ FlattenSeq(seqs) = seqs BY <1>2 DEF FlattenSeq
  <2>2. 0 .. n = 0 .. 0 /\ 0 \in 0 .. 0 /\ <<>> \in Seq(X) /\ 1 .. n = {} BY <1>2
  <2>3. Partial(F, seqs, X) BY <2>2 DEF Partial
  <2>4. F[n] = <<>> BY <1>2
  <2> QED BY <2>1, <2>3, <2>4
<1>3. CASE n # 0
  <2>1. 0 \in S
    <3>1. 1 .. 0 = {} OBVIOUS
    <3> DEFINE g == [i \in 1 .. 0 |-> <<>>]
    <3>2. g \in [1 .. 0 -> Seq(X)] /\ Defines(g, 0) BY <3>1
    <3> QED BY <3>2
  <2>2. ASSUME NEW m \in Nat, m \in S PROVE m + 1 \in S
    <3> SUFFICES ASSUME m + 1 <= n PROVE Good(m + 1)
      <4> HIDE DEF Good
      <4> QED OBVIOUS
    <3>1. PICK g \in [1 .. m -> Seq(X)] : Defines(g, m)
      <4>1. Good(m)
        <5> HIDE DEF Good
        <5> QED BY <2>2, <1>1
      <4> QED BY <4>1
    <3> DEFINE k == [i \in 1 .. m + 1 |-> IF i = m + 1
                                          THEN IF m = 0 THEN seqs[1] ELSE g[m] \o seqs[m + 1]
                                          ELSE g[i]]
    <3>2. ASSUME NEW i \in 1 .. m + 1
          PROVE  k[i] = (IF i = 1 THEN seqs[i] ELSE k[i - 1] \o seqs[i]) /\ k[i] \in Seq(X)
      <4>1. CASE i = m + 1 /\ m = 0 BY <4>1, <1>1, <1>3
      <4>2. CASE i = m + 1 /\ m # 0
        <5>1. i # 1 /\ i - 1 = m /\ m \in 1 .. m /\ m \in 1 .. m + 1 /\ m # m + 1 BY <4>2
        <5>2. k[i - 1] = g[m] /\ k[i] = g[m] \o seqs[m + 1] BY <4>2, <5>1
        <5>3. g[m] \in Seq(X) /\ seqs[m + 1] \in Seq(X) BY <5>1, <1>1
        <5> QED BY <4>2, <5>1, <5>2, <5>3
      <4>3. CASE i # m + 1
        <5>1. i \in 1 .. m BY <4>3
        <5>2. k[i] = g[i] /\ g[i] \in Seq(X) BY <4>3, <5>1
        <5>3. g[i] = IF i = 1 THEN seqs[i] ELSE g[i - 1] \o seqs[i] BY <3>1, <5>1
        <5>4. i # 1 => i - 1 \in 1 .. m /\ i - 1 \in 1 .. m + 1 /\ i - 1 # m + 1 BY <5>1
        <5>5. i # 1 => k[i - 1] = g[i - 1] BY <5>4
        <5> QED BY <5>2, <5>3, <5>5
      <4> QED BY <4>1, <4>2, <4>3
    <3>3. k = [i \in 1 .. m + 1 |-> k[i]] OBVIOUS
    <3> HIDE DEF k
    <3>4. k \in [1 .. m + 1 -> Seq(X)] BY <3>2, <3>3
    <3>5. Defines(k, m + 1) BY <3>2, <3>3
    <3> QED BY <3>4, <3>5
  <2>3. n \in S
    <3> HIDE DEF S
    <3>1. Nat \subseteq S BY <2>1, <2>2, NatSetInduction
    <3> QED BY <3>1, <1>1
  <2>4. PICK g \in [1 .. n -> Seq(X)] : Defines(g, n)
    <3>1. Good(n)
      <4> HIDE DEF Good
      <4> QED BY <2>3, <1>1
    <3> QED BY <3>1
  <2> DEFINE f == CHOOSE h : h = [i \in 1 .. n |-> IF i = 1 THEN seqs[i] ELSE h[i - 1] \o seqs[i]]
  <2>5. FlattenSeq(seqs) = f[n] BY <1>3 DEF FlattenSeq
  <2>6. Defines(f, n)
    <3>1. \E h : h = [i \in 1 .. n |-> IF i = 1 THEN seqs[i] ELSE h[i - 1] \o seqs[i]] BY <2>4
    <3> QED BY <3>1
  <2> HIDE DEF f
  <2>7. \A i \in 1 .. n : f[i] = IF i = 1 THEN seqs[i] ELSE f[i - 1] \o seqs[i] BY <2>6
  <2>8. \A i \in 1 .. n : f[i] \in Seq(X)
    <3> DEFINE U == {m \in Nat : m \in 1 .. n => f[m] \in Seq(X)}
    <3>1. 0 \in U OBVIOUS
    <3>2. ASSUME NEW m \in Nat, m \in U PROVE m + 1 \in U
      <4> SUFFICES ASSUME m + 1 \in 1 .. n PROVE f[m + 1] \in Seq(X) OBVIOUS
      <4>1. CASE m = 0 BY <4>1, <2>7, <1>1
      <4>2. CASE m # 0
        <5>1. m \in 1 .. n /\ m + 1 # 1 /\ (m + 1) - 1 = m BY <4>2, <1>1
        <5>2. f[m] \in Seq(X) BY <3>2, <5>1
        <5>3. f[m + 1] = f[m] \o seqs[m + 1] BY <2>7, <5>1
        <5> QED BY <5>2, <5>3, <1>1
      <4> QED BY <4>1, <4>2
    <3> HIDE DEF U
    <3>3. Nat \subseteq U BY <3>1, <3>2, NatSetInduction
    <3> QED BY <3>3, <1>1 DEF U
  <2> DEFINE F == [i \in 0 .. n |-> IF i = 0 THEN <<>> ELSE f[i]]
  <2>9. \A i \in 0 .. n : i # 0 => i \in 1 .. n BY <1>1
  <2>10. F \in [0 .. n -> Seq(X)] BY <2>8, <2>9
  <2>11. F[0] = <<>> BY <1>1
  <2>12. ASSUME NEW i \in 1 .. n PROVE F[i] = F[i - 1] \o seqs[i]
    <3>1. F[i] = f[i] /\ seqs[i] \in Seq(X) BY <1>1
    <3>2. CASE i = 1
      <4>1. i - 1 = 0 /\ <<>> \o seqs[i] = seqs[i] BY <3>1, <3>2
      <4> QED BY <3>1, <3>2, <4>1, <2>7, <2>11
    <3>3. CASE i # 1
      <4>1. i - 1 \in 0 .. n /\ i - 1 # 0 BY <3>3, <1>1
      <4>2. F[i - 1] = f[i - 1] BY <4>1
      <4> QED BY <3>1, <3>3, <4>2, <2>7
    <3> QED BY <3>2, <3>3
  <2>13. F[n] = f[n] BY <1>1, <1>3
  <2> HIDE DEF F
  <2> QED BY <2>5, <2>10, <2>11, <2>12, <2>13 DEF Partial
<1> QED BY <1>2, <1>3

\* The partial results are determined by what is flattened.
LEMMA FlattenIs ==
  ASSUME NEW X, NEW seqs \in Seq(Seq(X)), NEW F, Partial(F, seqs, X)
  PROVE  FlattenSeq(seqs) = F[Len(seqs)]
<1> DEFINE n == Len(seqs)
<1>1. PICK G : Partial(G, seqs, X) /\ FlattenSeq(seqs) = G[n]
  BY FlattenPartial
<1> DEFINE S == {m \in Nat : m <= n => F[m] = G[m]}
<1>2. n \in Nat
  OBVIOUS
<1>3. 0 \in S
  BY <1>1 DEF Partial
<1>4. ASSUME NEW m \in Nat, m \in S PROVE m + 1 \in S
  <2> SUFFICES ASSUME m + 1 <= n PROVE F[m + 1] = G[m + 1]
    OBVIOUS
  <2>1. m + 1 \in 1 .. n /\ (m + 1) - 1 = m /\ m <= n
    BY <1>2
  <2>2. F[m] = G[m]
    BY <1>4, <2>1
  <2>3. F[m + 1] = F[m] \o seqs[m + 1] /\ G[m + 1] = G[m] \o seqs[m + 1]
    BY <2>1, <1>1 DEF Partial
  <2> QED BY <2>2, <2>3
<1> HIDE DEF S
<1>5. n \in S
  BY <1>2, <1>3, <1>4, NatSetInduction
<1> QED BY <1>1, <1>2, <1>5 DEF S

(* Concatenation is associative on these sequences.                        *)
Associates(S) == \A x, y, z \in S : (x \o y) \o z = x \o (y \o z)

\* It is on the sequences of any set.
LEMMA SeqAssociates ==
  ASSUME NEW X
  PROVE  Associates(Seq(X))
<1>1. \A x, y, z \in Seq(X) : (x \o y) \o z = x \o (y \o z)
  OBVIOUS
<1> QED BY <1>1, Zenon DEF Associates

\* FlattenSeq of a concatenation.
LEMMA FlattenConcat ==
  ASSUME NEW X, NEW a \in Seq(Seq(X)), NEW b \in Seq(Seq(X))
  PROVE  /\ FlattenSeq(a) \in Seq(X) /\ FlattenSeq(b) \in Seq(X)
         /\ a \o b \in Seq(Seq(X))
         /\ FlattenSeq(a \o b) = FlattenSeq(a) \o FlattenSeq(b)
<1> DEFINE m == Len(a)
           n == Len(b)
<1>1. PICK F : Partial(F, a, X) /\ FlattenSeq(a) = F[m]
  BY FlattenPartial
<1>2. PICK G : Partial(G, b, X) /\ FlattenSeq(b) = G[n]
  BY FlattenPartial
<1>3. /\ m \in Nat /\ n \in Nat /\ a \o b \in Seq(Seq(X)) /\ Len(a \o b) = m + n
      /\ \A i \in 1 .. m : (a \o b)[i] = a[i] /\ a[i] \in Seq(X)
      /\ \A i \in 1 .. n : (a \o b)[m + i] = b[i] /\ b[i] \in Seq(X)
  OBVIOUS
<1>4. /\ \A i \in 0 .. m : F[i] \in Seq(X)
      /\ \A i \in 0 .. n : G[i] \in Seq(X)
      /\ F[0] = <<>> /\ G[0] = <<>>
      /\ \A i \in 1 .. m : F[i] = F[i - 1] \o a[i]
      /\ \A i \in 1 .. n : G[i] = G[i - 1] \o b[i]
  BY <1>1, <1>2 DEF Partial
<1> HIDE DEF m, n
<1>5. F[m] \in Seq(X) /\ G[n] \in Seq(X)
  BY <1>3, <1>4
<1> DEFINE H == [i \in 0 .. m + n |-> IF i <= m THEN F[i] ELSE F[m] \o G[i - m]]
<1>6. H \in [0 .. m + n -> Seq(X)]
  <2>1. \A i \in 0 .. m + n : i <= m => i \in 0 .. m
    BY <1>3
  <2>2. \A i \in 0 .. m + n : ~(i <= m) => i - m \in 0 .. n
    BY <1>3
  <2>3. \A i \in 0 .. n : F[m] \o G[i] \in Seq(X)
    BY <1>4, <1>5
  <2> QED BY <2>1, <2>2, <2>3, <1>4
<1>7. H[0] = <<>>
  BY <1>3, <1>4
<1>8. ASSUME NEW i \in 1 .. m + n PROVE H[i] = H[i - 1] \o (a \o b)[i]
  <2>1. CASE i <= m
    <3>1. i \in 1 .. m /\ i - 1 <= m /\ i - 1 \in 0 .. m + n /\ i \in 0 .. m + n
      BY <2>1, <1>3
    <3>2. H[i] = F[i] /\ H[i - 1] = F[i - 1]
      BY <3>1, <2>1
    <3> HIDE DEF H
    <3> QED BY <3>1, <3>2, <1>3, <1>4
  <2>2. CASE ~(i <= m)
    <3> DEFINE j == i - m
    <3>1. j \in 1 .. n /\ i = m + j /\ j - 1 \in 0 .. n /\ i \in 0 .. m + n /\ i - 1 \in 0 .. m + n
      BY <2>2, <1>3
    <3>2. H[i] = F[m] \o G[j] /\ (a \o b)[i] = b[j] /\ G[j] = G[j - 1] \o b[j]
      BY <3>1, <2>2, <1>3, <1>4
    <3>3. H[i - 1] = F[m] \o G[j - 1]
      <4>1. CASE j = 1
        <5>1. i - 1 = m /\ G[j - 1] = <<>>
          BY <4>1, <3>1, <1>3, <1>4
        <5>2. F[m] \o <<>> = F[m]
          BY <1>5
        <5> QED BY <5>1, <5>2, <1>3
      <4>2. CASE j # 1
        <5>1. ~(i - 1 <= m) /\ (i - 1) - m = j - 1
          BY <4>2, <3>1, <1>3
        <5> QED BY <5>1, <3>1
      <4> QED BY <4>1, <4>2
    <3> HIDE DEF H, j
    <3>4. F[m] \in Seq(X) /\ G[j - 1] \in Seq(X) /\ b[j] \in Seq(X)
      BY <3>1, <1>3, <1>4, <1>5
    <3>5. F[m] \o (G[j - 1] \o b[j]) = (F[m] \o G[j - 1]) \o b[j]
      <4>1. Associates(Seq(X))
        BY SeqAssociates
      <4> QED BY <3>4, <4>1, Zenon DEF Associates
    <3> QED BY <3>2, <3>3, <3>5
  <2> QED BY <2>1, <2>2
<1>9. H[m + n] = F[m] \o G[n]
  <2>1. CASE n = 0
    <3>1. m + n <= m /\ m + n = m /\ m + n \in 0 .. m + n /\ G[n] = <<>>
      BY <2>1, <1>3, <1>4
    <3>2. F[m] \o <<>> = F[m]
      BY <1>5
    <3> QED BY <3>1, <3>2
  <2>2. CASE n # 0
    <3>1. ~(m + n <= m) /\ (m + n) - m = n /\ m + n \in 0 .. m + n
      BY <2>2, <1>3
    <3> QED BY <3>1
  <2> QED BY <2>1, <2>2
<1> HIDE DEF H
<1>10. Partial(H, a \o b, X)
  BY <1>3, <1>6, <1>7, <1>8 DEF Partial
<1>11. FlattenSeq(a \o b) = H[m + n]
  BY <1>3, <1>10, FlattenIs
<1> QED BY <1>1, <1>2, <1>3, <1>5, <1>9, <1>11 DEF m, n

\* FlattenSeq of one sequence and of none.
LEMMA FlattenFew ==
  ASSUME NEW X, NEW a \in Seq(X)
  PROVE  FlattenSeq(<<a>>) = a /\ FlattenSeq(<<>>) = <<>>
<1>1. <<a>> \in Seq(Seq(X)) /\ <<>> \in Seq(Seq(X)) /\ Len(<<a>>) = 1 /\ Len(<<>>) = 0
  OBVIOUS
<1>2. PICK F : Partial(F, <<a>>, X) /\ FlattenSeq(<<a>>) = F[1]
  BY <1>1, FlattenPartial
<1>3. F[1] = F[1 - 1] \o <<a>>[1] /\ F[0] = <<>>
  <2>1. 1 \in 1 .. 1
    OBVIOUS
  <2> QED BY <2>1, <1>1, <1>2 DEF Partial
<1>4. F[1] = a
  <2>1. <<a>>[1] = a /\ <<>> \o a = a
    OBVIOUS
  <2> QED BY <1>3, <2>1
<1>5. FlattenSeq(<<>>) = <<>>
  BY <1>1 DEF FlattenSeq
<1> QED BY <1>2, <1>4, <1>5

\* What is empty in every place flattens to nothing.
LEMMA FlattenEmpty ==
  ASSUME NEW X, NEW seqs \in Seq(Seq(X)), \A i \in 1 .. Len(seqs) : seqs[i] = <<>>
  PROVE  FlattenSeq(seqs) = <<>>
<1> DEFINE n == Len(seqs)
           F == [i \in 0 .. n |-> <<>>]
<1>1. n \in Nat /\ <<>> \in Seq(X) /\ <<>> \o <<>> = <<>>
  OBVIOUS
<1>2. F \in [0 .. n -> Seq(X)] /\ F[0] = <<>> /\ F[n] = <<>>
  BY <1>1
<1>3. \A i \in 1 .. n : i \in 0 .. n /\ i - 1 \in 0 .. n
  BY <1>1
<1>4. \A i \in 1 .. n : F[i] = F[i - 1] \o seqs[i]
  BY <1>1, <1>3
<1> HIDE DEF F
<1>5. Partial(F, seqs, X)
  BY <1>2, <1>4 DEF Partial
<1> QED BY <1>2, <1>5, FlattenIs

-----------------------------------------------------------------------------
(* The requests in a stream of bytes.                                      *)

\* Concatenation is associative.
LEMMA BytesAssociative ==
  \A x, y, z \in Seq(Int) : x \o y \in Seq(Int) /\ (x \o y) \o z = x \o (y \o z)
OBVIOUS

(* Three sequences of bytes may be joined in either order.                 *)
Joins(x, y, z) ==
  x \in Seq(Int) /\ y \in Seq(Int) /\ z \in Seq(Int)
    => x \o y \in Seq(Int) /\ (x \o y) \o z = x \o (y \o z)

\* Bytes are joined so.
LEMMA BytesJoin ==
  ASSUME NEW x, NEW y, NEW z
  PROVE  Joins(x, y, z)
<1> SUFFICES ASSUME x \in Seq(Int), y \in Seq(Int), z \in Seq(Int)
             PROVE  x \o y \in Seq(Int) /\ (x \o y) \o z = x \o (y \o z)
  BY DEF Joins
<1> QED OBVIOUS

\* The places of a concatenation.
LEMMA ConcatPlaces ==
  ASSUME NEW X, NEW a \in Seq(X), NEW b \in Seq(X)
  PROVE  /\ a \o b \in Seq(X) /\ Len(a \o b) = Len(a) + Len(b)
         /\ \A i \in 1..Len(a) : (a \o b)[i] = a[i]
         /\ \A i \in 1..Len(b) : (a \o b)[Len(a) + i] = b[i]
<1>1. a \o b \in Seq(X) /\ Len(a \o b) = Len(a) + Len(b)
  OBVIOUS
<1>2. \A i \in 1..Len(a) : (a \o b)[i] = a[i]
  OBVIOUS
<1>3. \A i \in 1..Len(b) : (a \o b)[Len(a) + i] = b[i]
  OBVIOUS
<1> QED BY <1>1, <1>2, <1>3

\* The bytes of a request.
LEMMA RequestBytes ==
  ASSUME NEW n \in Nat \ {0}, NEW len \in Nat \ {0}
  PROVE  /\ Request(n, len) \in Seq(Int) /\ Len(Request(n, len)) = len + 2
         /\ \A i \in 1..len : Request(n, len)[i] = n
         /\ Request(n, len)[len + 1] = Cr /\ Request(n, len)[len + 2] = Lf
<1> DEFINE a == [i \in 1..len |-> n]
           b == <<Cr, Lf>>
<1>1. a \in Seq(Int) /\ Len(a) = len /\ \A i \in 1..len : a[i] = n
  OBVIOUS
<1>2. b \in Seq(Int) /\ Len(b) = 2 /\ b[1] = Cr /\ b[2] = Lf
  BY DEF Cr, Lf
<1> HIDE DEF a, b
<1>3. /\ a \o b \in Seq(Int) /\ Len(a \o b) = Len(a) + Len(b)
      /\ \A i \in 1..Len(a) : (a \o b)[i] = a[i]
      /\ \A i \in 1..Len(b) : (a \o b)[Len(a) + i] = b[i]
  <2>1. a \in Seq(Int) /\ b \in Seq(Int)
    BY <1>1, <1>2
  <2> QED BY <2>1, ConcatPlaces
<1>4. Request(n, len) = a \o b
  BY DEF Request, a, b
<1> QED BY <1>1, <1>2, <1>3, <1>4

(* The bytes are those of the requests after k, up to s.                   *)
Spelled(b, k, s) ==
  /\ b \in Seq(Int) /\ k \in Nat /\ s \in Nat /\ k <= s
  /\ b = <<>> <=> k = s
  /\ b # <<>> => b[1] = k + 1 /\ Len(b) > 2 /\ b[Len(b)] = Lf /\ b[Len(b) - 2] = s
  /\ \A i \in 1..Len(b) :
       /\ b[i] >= Lf /\ b[i] <= s
       /\ b[i] > Cr => i < Len(b) /\ b[i + 1] \in {b[i], Cr}
       /\ b[i] = Cr => i > 1 /\ b[i - 1] > Cr /\ i < Len(b) /\ b[i + 1] = Lf
       /\ b[i] = Lf => i > 2 /\ b[i - 1] = Cr /\ (i < Len(b) => b[i + 1] = b[i - 2] + 1)

\* No request is spelled by nothing.
LEMMA SpelledNone ==
  ASSUME NEW k \in Nat
  PROVE  Spelled(<<>>, k, k)
<1>1. <<>> \in Seq(Int) /\ Len(<<>>) = 0
  OBVIOUS
<1> QED BY <1>1 DEF Spelled

\* A request more at the end.
LEMMA SpelledMore ==
  ASSUME NEW k, NEW s, NEW b, Spelled(b, k, s), NEW len \in Nat \ {0}
  PROVE  Spelled(b \o Request(s + 1, len), k, s + 1)
<1> DEFINE r == Request(s + 1, len)
           m == Len(b)
           d == b \o r
<1>1. k \in Nat /\ s \in Nat /\ b \in Seq(Int) /\ m \in Nat /\ k <= s
  BY DEF Spelled
<1>2. /\ r \in Seq(Int) /\ Len(r) = len + 2 /\ \A i \in 1..len : r[i] = s + 1
      /\ r[len + 1] = Cr /\ r[len + 2] = Lf
  <2>1. s + 1 \in Nat \ {0}
    BY <1>1
  <2> QED BY <2>1, RequestBytes
<1>a. m = Len(b)
  OBVIOUS
<1> HIDE DEF r, m
<1>3. /\ d \in Seq(Int) /\ Len(d) = m + len + 2
      /\ \A i \in 1..m : d[i] = b[i]
      /\ \A i \in 1..(len + 2) : d[m + i] = r[i]
  <2>1. /\ d \in Seq(Int) /\ Len(d) = m + Len(r)
        /\ \A i \in 1..m : d[i] = b[i]
        /\ \A i \in 1..Len(r) : d[m + i] = r[i]
    <3>1. b \in Seq(Int) /\ r \in Seq(Int)
      BY <1>1, <1>2
    <3> HIDE <1>2
    <3> QED BY <3>1, <1>a, ConcatPlaces
  <2>2. m + Len(r) = m + len + 2
    BY <1>1, <1>2
  <2> QED BY <2>1, <2>2, <1>2
<1> HIDE DEF d
<1>4. /\ \A i \in (m + 1)..(m + len) : d[i] = s + 1
      /\ d[m + len + 1] = Cr /\ d[m + len + 2] = Lf
  <2>1. ASSUME NEW i \in (m + 1)..(m + len) PROVE d[i] = s + 1
    <3>1. i - m \in 1..len /\ i - m \in 1..(len + 2) /\ m + (i - m) = i
      BY <1>1
    <3> QED BY <3>1, <1>2, <1>3
  <2>2. len + 1 \in 1..(len + 2) /\ len + 2 \in 1..(len + 2)
    OBVIOUS
  <2>3. m + len + 1 = m + (len + 1) /\ m + len + 2 = m + (len + 2)
    BY <1>1
  <2> QED BY <2>1, <2>2, <2>3, <1>2, <1>3
<1>5. d # <<>> /\ Len(d) > 2 /\ k # s + 1 /\ k <= s + 1 /\ Len(d) \in Nat
  BY <1>1, <1>3
<1>6. d[1] = k + 1
  <2>1. CASE m = 0
    <3>1. b = <<>> /\ k = s
      BY <2>1, <1>1, <1>a DEF Spelled
    <3> QED BY <3>1, <2>1, <1>1, <1>4
  <2>2. CASE m # 0
    <3>1. b # <<>> /\ 1 \in 1..m
      BY <2>2, <1>1, <1>a
    <3> QED BY <3>1, <1>3 DEF Spelled
  <2> QED BY <2>1, <2>2
<1>7. d[Len(d)] = Lf /\ d[Len(d) - 2] = s + 1
  <2>1. Len(d) - 2 = m + len /\ m + len \in (m + 1)..(m + len)
    BY <1>1, <1>3
  <2> QED BY <2>1, <1>3, <1>4
<1>8. ASSUME NEW i \in 1..Len(d)
      PROVE  /\ d[i] >= Lf /\ d[i] <= s + 1
             /\ d[i] > Cr => i < Len(d) /\ d[i + 1] \in {d[i], Cr}
             /\ d[i] = Cr => i > 1 /\ d[i - 1] > Cr /\ i < Len(d) /\ d[i + 1] = Lf
             /\ d[i] = Lf => i > 2 /\ d[i - 1] = Cr /\ (i < Len(d) => d[i + 1] = d[i - 2] + 1)
  <2>1. CASE i \in 1..m
    <3>1. /\ b[i] >= Lf /\ b[i] <= s /\ b[i] \in Int
          /\ b[i] > Cr => i < m /\ b[i + 1] \in {b[i], Cr}
          /\ b[i] = Cr => i > 1 /\ b[i - 1] > Cr /\ i < m /\ b[i + 1] = Lf
          /\ b[i] = Lf => i > 2 /\ b[i - 1] = Cr /\ (i < m => b[i + 1] = b[i - 2] + 1)
      BY <2>1, <1>1, <1>a DEF Spelled
    <3>2. d[i] = b[i] /\ (i < m => d[i + 1] = b[i + 1]) /\ (i > 1 => d[i - 1] = b[i - 1])
          /\ (i > 2 => d[i - 2] = b[i - 2])
      <4>1. (i < m => i + 1 \in 1..m) /\ (i > 1 => i - 1 \in 1..m) /\ (i > 2 => i - 2 \in 1..m)
        BY <2>1, <1>1
      <4> QED BY <4>1, <2>1, <1>3
    <3>3. i < Len(d)
      BY <2>1, <1>1, <1>3
    <3>4. i = m => d[i + 1] = s + 1 /\ b[i - 2] = s
      <4> SUFFICES ASSUME i = m PROVE d[i + 1] = s + 1 /\ b[i - 2] = s
        OBVIOUS
      <4>1. m + 1 \in (m + 1)..(m + len) /\ b # <<>>
        BY <1>1, <1>a, <2>1
      <4> QED BY <4>1, <1>4, <1>a DEF Spelled
    <3>5. i < m \/ i = m
      BY <2>1, <1>1
    <3>6. CASE i < m
      <4>1. b[i] = Lf => i > 2 /\ i > 1
        BY <3>1, <2>1, <1>1
      <4>2. CASE b[i] > Cr
        BY SMTT(30), <4>2, <3>6, <3>1, <3>2, <3>3, <1>1 DEF Cr, Lf
      <4>3. CASE b[i] = Cr
        BY SMTT(30), <4>3, <3>6, <3>1, <3>2, <3>3, <1>1 DEF Cr, Lf
      <4>4. CASE b[i] = Lf
        BY SMTT(30), <4>1, <4>4, <3>6, <3>1, <3>2, <3>3, <1>1 DEF Cr, Lf
      <4>5. b[i] > Cr \/ b[i] = Cr \/ b[i] = Lf
        BY <3>1 DEF Cr, Lf
      <4> QED BY <4>2, <4>3, <4>4, <4>5
    <3>7. CASE i = m
      <4>1. b[i] = Lf
        BY <3>1, <3>7, <1>1 DEF Cr, Lf
      <4>2. ~(b[i] > Cr) /\ b[i] # Cr
        BY <4>1 DEF Cr, Lf
      <4>3. i > 2 /\ i > 1 /\ b[i - 1] = Cr
        BY <3>1, <4>1, <2>1, <1>1
      <4>4. d[i] = b[i] /\ d[i - 1] = b[i - 1] /\ d[i - 2] = b[i - 2]
        BY <3>2, <4>3
      <4>5. d[i] >= Lf /\ d[i] <= s + 1 /\ d[i + 1] = d[i - 2] + 1
        BY SMTT(30), <3>1, <3>4, <3>7, <4>4, <1>1 DEF Lf
      <4> QED BY <4>1, <4>2, <4>3, <4>4, <4>5
    <3> QED BY <3>5, <3>6, <3>7
  <2>2. CASE i \in (m + 1)..(m + len)
    <3>1. d[i] = s + 1 /\ i < Len(d)
      BY <2>2, <1>1, <1>3, <1>4
    <3>2. d[i + 1] \in {d[i], Cr}
      <4>1. CASE i = m + len
        BY <4>1, <1>4
      <4>2. CASE i # m + len
        <5>1. i + 1 \in (m + 1)..(m + len)
          BY <4>2, <2>2, <1>1
        <5> QED BY <5>1, <3>1, <1>4
      <4> QED BY <4>1, <4>2
    <3> QED BY <3>1, <3>2, <1>1 DEF Cr, Lf
  <2>3. CASE i = m + len + 1
    <3>1. i - 1 \in (m + 1)..(m + len) /\ i > 1 /\ i < Len(d) /\ i + 1 = m + len + 2
      BY <2>3, <1>1, <1>3
    <3>2. d[i] = Cr /\ d[i + 1] = Lf /\ d[i - 1] = s + 1
      BY <3>1, <2>3, <1>4
    <3> QED BY <3>1, <3>2, <1>1 DEF Cr, Lf
  <2>4. CASE i = m + len + 2
    <3>1. i - 1 = m + len + 1 /\ i > 2 /\ i = Len(d)
      BY <2>4, <1>1, <1>3
    <3>2. d[i] = Lf /\ d[i - 1] = Cr
      BY <3>1, <2>4, <1>4
    <3> QED BY <3>1, <3>2, <1>1 DEF Cr, Lf
  <2>5. i \in 1..m \/ i \in (m + 1)..(m + len) \/ i = m + len + 1 \/ i = m + len + 2
    <3>1. i \in 1..(m + len + 2)
      BY <1>3
    <3> QED BY <3>1, <1>1
  <2> QED BY <2>1, <2>2, <2>3, <2>4, <2>5
<1>9. Spelled(d, k, s + 1)
  <2>1. s + 1 \in Nat
    BY <1>1
  <2> QED BY <2>1, <1>1, <1>3, <1>5, <1>6, <1>7, <1>8 DEF Spelled
<1> QED BY <1>9 DEF d, r

\* The first request: its bytes are its number, up to CR LF.
LEMMA SpelledFirst ==
  ASSUME NEW k, NEW s, NEW b, Spelled(b, k, s), NEW e \in 1..Len(b), b[e] = Cr,
         \A i \in 1..(e - 1) : b[i] # Cr
  PROVE  /\ b[1] = k + 1 /\ k + 1 <= s /\ e > 1 /\ e < Len(b) /\ b[e + 1] = Lf
         /\ \A i \in 1..(e - 1) : b[i] = k + 1
<1>1. k \in Nat /\ s \in Nat /\ b \in Seq(Int) /\ Len(b) \in Nat /\ b # <<>> /\ k <= s /\ k # s
      /\ b[1] = k + 1
  BY DEF Spelled
<1>2. e > 1 /\ e < Len(b) /\ b[e + 1] = Lf
  BY DEF Spelled
<1> DEFINE U == {i \in Nat : i \in 1..(e - 1) => b[i] = k + 1}
<1>3. 0 \in U
  OBVIOUS
<1>4. ASSUME NEW n \in Nat, n \in U PROVE n + 1 \in U
  <2> SUFFICES ASSUME n + 1 \in 1..(e - 1) PROVE b[n + 1] = k + 1
    OBVIOUS
  <2>1. CASE n = 0
    BY <2>1, <1>1
  <2>2. CASE n # 0
    <3>1. n \in 1..(e - 1) /\ n \in 1..Len(b)
      BY <2>2, <1>1
    <3>2. b[n] = k + 1 /\ b[n] > Cr
      BY <3>1, <1>1, <1>4 DEF Cr
    <3>3. b[n + 1] \in {b[n], Cr} /\ b[n + 1] # Cr
      BY <3>1, <3>2 DEF Spelled
    <3> QED BY <3>2, <3>3
  <2> QED BY <2>1, <2>2
<1> HIDE DEF U
<1>5. Nat \subseteq U
  BY <1>3, <1>4, NatSetInduction
<1>6. \A i \in 1..(e - 1) : b[i] = k + 1
  BY <1>5 DEF U
<1>7. k + 1 <= s
  BY <1>1
<1> QED BY <1>1, <1>2, <1>6, <1>7

\* The bytes after the first request spell the others.
LEMMA SpelledRest ==
  ASSUME NEW k, NEW s, NEW b, Spelled(b, k, s), NEW e \in 1..Len(b), b[e] = Cr,
         \A i \in 1..(e - 1) : b[i] # Cr,
         NEW d \in Seq(Int), Len(d) = Len(b) - (e + 1),
         \A i \in 1..Len(d) : d[i] = b[(e + 1) + i]
  PROVE  Spelled(d, k + 1, s)
<1> DEFINE m == Len(b)
           n == Len(d)
           t == e + 1
<1>1. k \in Nat /\ s \in Nat /\ b \in Seq(Int) /\ m \in Nat /\ n \in Nat /\ t \in Nat
      /\ n = m - t /\ m > 2 /\ b[m] = Lf /\ b[m - 2] = s
      /\ t = e + 1 /\ m = Len(b) /\ n = Len(d)
  BY SMTT(30) DEF Spelled
<1>2. /\ b[1] = k + 1 /\ k + 1 <= s /\ e > 1 /\ e < m /\ b[e + 1] = Lf
      /\ \A i \in 1..(e - 1) : b[i] = k + 1
  BY SpelledFirst
<1>3. b[e - 1] = k + 1 /\ e - 1 = t - 2 /\ t > 2 /\ e \in Int
  BY <1>2
<1> HIDE DEF m, n, t
<1>b. (\A i \in 1..n : d[i] = b[t + i]) /\ (d # <<>> => n > 0) /\ (d = <<>> => n = 0)
  <2>1. \A i \in 1..n : d[i] = b[t + i]
    BY <1>1
  <2>2. (d # <<>> => n > 0) /\ (d = <<>> => n = 0)
    BY DEF n
  <2> QED BY <2>1, <2>2
<1>c. \A i \in 1..m :
       /\ b[i] >= Lf /\ b[i] <= s /\ b[i] \in Int
       /\ b[i] > Cr => i < m /\ b[i + 1] \in {b[i], Cr}
       /\ b[i] = Cr => i > 1 /\ b[i - 1] > Cr /\ i < m /\ b[i + 1] = Lf
       /\ b[i] = Lf => i > 2 /\ b[i - 1] = Cr /\ (i < m => b[i + 1] = b[i - 2] + 1)
  <2>1. \A i \in 1..m : b[i] \in Int
    BY <1>1
  <2> QED BY <1>1, <2>1 DEF Spelled
<1>d. n = m - t /\ m \in Int /\ n \in Int /\ t \in Nat
  BY <1>1
<1>4. t \in 1..m /\ b[t] = Lf /\ (t < m => b[t + 1] = k + 2)
  <2>1. t \in 1..m /\ b[t] = Lf
    BY <1>1, <1>2
  <2>2. t < m => b[t + 1] = b[t - 2] + 1
    BY <2>1, <1>1 DEF Spelled
  <2>3. b[t - 2] = k + 1
    BY <1>3
  <2> QED BY <2>1, <2>2, <2>3, <1>1
<1>5. d = <<>> <=> k + 1 = s
  <2>1. ASSUME d = <<>> PROVE k + 1 = s
    <3>1. m = t
      BY <2>1, <1>1
    <3> QED BY <3>1, <1>1, <1>3
  <2>2. ASSUME d # <<>> PROVE k + 1 # s
    <3>0. n > 0
      BY <2>2, <1>b
    <3>1. t < m /\ t + 1 \in 1..m
      BY <3>0, <1>d
    <3>2. b[t + 1] <= s
      BY <3>1, <1>1 DEF Spelled
    <3> QED BY SMTT(30), <3>1, <3>2, <1>1, <1>4
  <2> QED BY <2>1, <2>2
<1>6. ASSUME NEW i \in 1..n
      PROVE  /\ d[i] >= Lf /\ d[i] <= s
             /\ d[i] > Cr => i < n /\ d[i + 1] \in {d[i], Cr}
             /\ d[i] = Cr => i > 1 /\ d[i - 1] > Cr /\ i < n /\ d[i + 1] = Lf
             /\ d[i] = Lf => i > 2 /\ d[i - 1] = Cr /\ (i < n => d[i + 1] = d[i - 2] + 1)
  <2> DEFINE j == t + i
  <2>1. j \in 1..m /\ (i < n <=> j < m) /\ d[i] = b[j] /\ j = t + i
    <3>1. d[i] = b[j]
      BY <1>b
    <3>2. j \in 1..m /\ (i < n <=> j < m)
      BY <1>d
    <3> QED BY <3>1, <3>2
  <2> HIDE DEF j
  <2>2. i < n => d[i + 1] = b[j + 1]
    <3>1. i < n => i + 1 \in 1..n /\ t + (i + 1) = j + 1
      BY <1>1, <2>1
    <3> QED BY <3>1, <1>1
  <2>3. i > 1 => d[i - 1] = b[j - 1]
    <3>1. i > 1 => i - 1 \in 1..n /\ t + (i - 1) = j - 1
      BY <1>1, <2>1
    <3> QED BY <3>1, <1>1
  <2>4. i > 2 => d[i - 2] = b[j - 2]
    <3>1. i > 2 => i - 2 \in 1..n /\ t + (i - 2) = j - 2
      BY <1>1, <2>1
    <3> QED BY <3>1, <1>1
  <2>5. /\ b[j] >= Lf /\ b[j] <= s /\ b[j] \in Int
        /\ b[j] > Cr => j < m /\ b[j + 1] \in {b[j], Cr}
        /\ b[j] = Cr => j > 1 /\ b[j - 1] > Cr /\ j < m /\ b[j + 1] = Lf
        /\ b[j] = Lf => j > 2 /\ b[j - 1] = Cr /\ (j < m => b[j + 1] = b[j - 2] + 1)
    BY <2>1, <1>c
  <2>6. i = 1 => b[j] = k + 2
    <3>1. i = 1 => j = t + 1 /\ t < m
      BY <1>1, <2>1
    <3> QED BY <3>1, <1>4
  <2>7. i = 2 => b[j] # Lf
    <3> SUFFICES ASSUME i = 2 PROVE b[j] # Lf
      OBVIOUS
    <3>1. j - 1 = t + 1 /\ t < m
      <4>1. j = t + 2 /\ t + 2 <= m
        BY <1>1, <2>1
      <4> QED BY <4>1, <1>1
    <3>2. b[j - 1] = k + 2 /\ k + 2 # Cr
      <4>1. b[t + 1] = k + 2 /\ k \in Nat
        BY <3>1, <1>1, <1>4
      <4> QED BY <3>1, <4>1 DEF Cr
    <3> QED BY <3>2, <2>5
  <2>8. b[j] = Cr => i > 1
    BY <2>6, <1>1 DEF Cr
  <2>9. b[j] = Lf => i > 2
    BY <2>6, <2>7, <1>1 DEF Lf
  <2>10. i > 2 => i > 1
    OBVIOUS
  <2> QED BY <2>1, <2>2, <2>3, <2>4, <2>5, <2>8, <2>9, <2>10
<1>7. d # <<>> => d[1] = (k + 1) + 1 /\ n > 2 /\ d[n] = Lf /\ d[n - 2] = s
  <2> SUFFICES ASSUME d # <<>> PROVE d[1] = (k + 1) + 1 /\ n > 2 /\ d[n] = Lf /\ d[n - 2] = s
    OBVIOUS
  <2>1. n \in 1..n /\ 1 \in 1..n /\ t + n = m /\ t < m /\ ~(n < n)
    <3>1. n > 0
      BY <1>b
    <3> QED BY <3>1, <1>d
  <2>2. d[1] = (k + 1) + 1 /\ d[n] = Lf
    <3>1. d[1] = b[t + 1] /\ d[n] = b[t + n]
      <4>1. \A i \in 1..n : d[i] = b[t + i]
        BY <1>b
      <4> QED BY <4>1, <2>1
    <3>2. b[t + 1] = k + 2 /\ b[t + n] = Lf /\ k \in Nat
      BY <2>1, <1>1, <1>4
    <3> QED BY <3>1, <3>2
  <2>3. n > 2
    <3>1. d[n] = Lf => n > 2
      BY <2>1, <1>6
    <3> QED BY <3>1, <2>2
  <2>4. n - 2 \in 1..n /\ t + (n - 2) = m - 2
    BY <2>3, <1>d
  <2>5. d[n - 2] = b[m - 2]
    BY <2>4, <1>b
  <2> QED BY <2>2, <2>3, <2>5, <1>1
<1> QED BY <1>1, <1>2, <1>5, <1>6, <1>7 DEF Spelled

(* The numbers after k, up to v.                                           *)
Run(k, v) == [i \in 1..(v - k) |-> k + i]

\* A run, and the number after it.
LEMMA RunMore ==
  ASSUME NEW k \in Nat, NEW v \in Nat, k <= v
  PROVE  Run(k, v) \in Seq(Int) /\ Run(k, k) = <<>> /\ Run(k, v + 1) = Run(k, v) \o <<v + 1>>
<1> DEFINE a == Run(k, v)
           d == Run(k, v + 1)
<1>1. v - k \in Nat /\ (v + 1) - k = (v - k) + 1 /\ (v - k) + 1 \in Nat /\ k + ((v - k) + 1) = v + 1
  OBVIOUS
<1>2. a \in Seq(Int) /\ Len(a) = v - k /\ \A i \in 1..(v - k) : a[i] = k + i
  BY <1>1 DEF Run
<1>3. d \in Seq(Int) /\ Len(d) = (v - k) + 1 /\ \A i \in 1..((v - k) + 1) : d[i] = k + i
  <2>1. d = [i \in 1..((v - k) + 1) |-> k + i]
    BY <1>1 DEF Run
  <2> HIDE DEF d
  <2> QED BY <2>1, <1>1
<1>4. Run(k, k) = <<>>
  <2>1. k - k = 0 /\ 1..0 = {}
    OBVIOUS
  <2>2. Len(Run(k, k)) = 0 /\ Run(k, k) \in Seq(Int)
    BY <2>1 DEF Run
  <2> QED BY <2>2
<1> HIDE DEF a, d
<1>5. /\ a \o <<v + 1>> \in Seq(Int) /\ Len(a \o <<v + 1>>) = (v - k) + 1
      /\ \A i \in 1..(v - k) : (a \o <<v + 1>>)[i] = a[i]
      /\ (a \o <<v + 1>>)[(v - k) + 1] = v + 1
  BY <1>1, <1>2
<1>6. ASSUME NEW i \in 1..((v - k) + 1) PROVE (a \o <<v + 1>>)[i] = d[i]
  <2>1. i \in 1..(v - k) \/ i = (v - k) + 1
    BY <1>1
  <2>2. d[i] = k + i
    BY <1>3
  <2> QED BY <2>1, <2>2, <1>1, <1>2, <1>5
<1>7. d = a \o <<v + 1>>
  BY <1>3, <1>5, <1>6, SeqEqual
<1> QED BY <1>2, <1>4, <1>7 DEF a, d

\* Two runs, one after the other.
LEMMA RunConcat ==
  ASSUME NEW k \in Nat, NEW s \in Nat, k <= s
  PROVE  Run(0, k) \o Run(k, s) = Run(0, s) /\ IsPrefix(Run(0, k), Run(0, s))
<1> DEFINE a == Run(0, k)
           b == Run(k, s)
           d == Run(0, s)
<1>1. s - k \in Nat /\ s - 0 = s /\ k - 0 = k
  OBVIOUS
<1>2. a \in Seq(Int) /\ Len(a) = k /\ \A i \in 1..k : a[i] = i
  BY <1>1 DEF Run
<1>3. d \in Seq(Int) /\ Len(d) = s /\ \A i \in 1..s : d[i] = i
  BY <1>1 DEF Run
<1>4. b \in Seq(Int) /\ Len(b) = s - k /\ \A i \in 1..(s - k) : b[i] = k + i
  BY <1>1 DEF Run
<1> HIDE DEF a, b, d
<1>5. /\ a \o b \in Seq(Int) /\ Len(a \o b) = s
      /\ \A i \in 1..k : (a \o b)[i] = a[i]
      /\ \A i \in 1..(s - k) : (a \o b)[k + i] = b[i]
  <2>1. /\ a \o b \in Seq(Int) /\ Len(a \o b) = Len(a) + Len(b)
        /\ \A i \in 1..Len(a) : (a \o b)[i] = a[i]
        /\ \A i \in 1..Len(b) : (a \o b)[Len(a) + i] = b[i]
    <3>1. a \in Seq(Int) /\ b \in Seq(Int)
      BY <1>2, <1>4
    <3> QED BY <3>1, ConcatPlaces
  <2> QED BY <2>1, <1>2, <1>4
<1>6. ASSUME NEW i \in 1..s PROVE (a \o b)[i] = d[i]
  <2>1. CASE i <= k
    BY <2>1, <1>2, <1>3, <1>5
  <2>2. CASE i > k
    <3>1. i - k \in 1..(s - k) /\ k + (i - k) = i
      BY <2>2
    <3>2. (a \o b)[i] = b[i - k] /\ b[i - k] = i
      BY <3>1, <1>4, <1>5
    <3> QED BY <3>2, <1>3
  <2>3. i <= k \/ i > k
    OBVIOUS
  <2> QED BY <2>1, <2>2, <2>3
<1>7. a \o b = d
  BY <1>3, <1>5, <1>6, SeqEqual
<1>8. IsPrefix(a, d)
  <2>1. Len(a) <= Len(d) /\ SubSeq(d, 1, Len(a)) \in Seq(Int) /\ Len(SubSeq(d, 1, Len(a))) = k
        /\ \A i \in 1..k : SubSeq(d, 1, Len(a))[i] = d[i]
    BY <1>2, <1>3
  <2>2. \A i \in 1..k : SubSeq(d, 1, Len(a))[i] = a[i]
    BY <2>1, <1>2, <1>3
  <2>3. SubSeq(d, 1, Len(a)) = a
    BY <2>1, <2>2, <1>2, SeqEqual
  <2>4. /\ SubSeq(a, 1, Len(a)) \in Seq(Int) /\ Len(SubSeq(a, 1, Len(a))) = Len(a)
        /\ \A i \in 1..Len(a) : SubSeq(a, 1, Len(a))[i] = a[i]
    BY <1>2
  <2>5. SubSeq(a, 1, Len(a)) = a
    BY <2>4, <1>2, SeqEqual
  <2> QED BY <2>1, <2>3, <2>5 DEF IsPrefix
<1> QED BY <1>7, <1>8 DEF a, b, d

(* The last request that has ended at a place.                             *)
Ended(b, i) == IF b[i] = Cr THEN b[i - 1] ELSE IF b[i] = Lf THEN b[i - 2] ELSE b[i] - 1

\* One more request has ended at each CR.
LEMMA EndedStep ==
  ASSUME NEW k, NEW s, NEW b, Spelled(b, k, s), NEW i \in 1..Len(b)
  PROVE  /\ Ended(b, i) \in Int
         /\ i = 1 => Ended(b, i) = k /\ b[i] # Cr
         /\ i # 1 => i - 1 \in 1..Len(b)
         /\ i # 1 /\ b[i] = Cr => Ended(b, i) = Ended(b, i - 1) + 1 /\ Ended(b, i) = b[i - 1]
         /\ i # 1 /\ b[i] # Cr => Ended(b, i) = Ended(b, i - 1)
<1> DEFINE m == Len(b)
<1>1. k \in Nat /\ s \in Nat /\ m \in Nat /\ b[1] = k + 1 /\ \A j \in 1..m : b[j] \in Int
  BY DEF Spelled
<1>2. \A j \in 1..m :
       /\ b[j] >= Lf
       /\ b[j] > Cr => j < m /\ b[j + 1] \in {b[j], Cr}
       /\ b[j] = Cr => j > 1 /\ b[j - 1] > Cr /\ j < m /\ b[j + 1] = Lf
       /\ b[j] = Lf => j > 2 /\ b[j - 1] = Cr /\ (j < m => b[j + 1] = b[j - 2] + 1)
  BY DEF Spelled
<1> HIDE DEF m
<1>3. i \in 1..m
  BY DEF m
<1>4. i = 1 => Ended(b, i) = k /\ b[i] # Cr
  BY <1>1 DEF Ended, Cr, Lf
<1>5. i # 1 => i - 1 \in 1..m
  BY <1>1, <1>3
<1>6. ASSUME i # 1, b[i] = Cr PROVE Ended(b, i) = Ended(b, i - 1) + 1 /\ Ended(b, i) = b[i - 1]
  <2>1. b[i - 1] > Cr /\ b[i - 1] \in Int
    BY <1>1, <1>2, <1>3, <1>5, <1>6
  <2> QED BY <2>1, <1>6 DEF Ended, Cr, Lf
<1>7. ASSUME i # 1, b[i] # Cr PROVE Ended(b, i) = Ended(b, i - 1)
  <2> DEFINE h == i - 1
  <2>1. h \in 1..m /\ i = h + 1 /\ h < m /\ i - 2 = h - 1
    BY <1>1, <1>3, <1>5, <1>7
  <2>2. b[h] \in Int /\ b[h] >= Lf /\ b[i] \in Int
    BY <2>1, <1>1, <1>2, <1>3
  <2>3. /\ b[h] > Cr => b[i] \in {b[h], Cr}
        /\ b[h] = Cr => b[h - 1] > Cr /\ b[i] = Lf
        /\ b[h] = Lf => h > 2 /\ b[h - 1] = Cr /\ b[i] = b[h - 2] + 1
    BY <2>1, <1>2
  <2> HIDE DEF h
  <2>4. CASE b[h] > Cr
    <3>1. b[i] = b[h]
      BY <2>3, <2>4, <1>7
    <3> QED BY <3>1, <2>2, <2>4 DEF Ended, Cr, Lf, h
  <2>5. CASE b[h] = Cr
    <3>1. b[i] = Lf /\ i - 2 = h - 1
      BY <2>1, <2>3, <2>5
    <3> QED BY <3>1, <2>5 DEF Ended, Cr, Lf, h
  <2>6. CASE b[h] = Lf
    <3>1. h - 1 \in 1..m /\ h - 2 \in 1..m /\ b[h - 1] = Cr /\ (h - 1) - 1 = h - 2
      BY <2>1, <2>3, <2>6, <1>1
    <3>2. b[h - 2] > Cr /\ b[h - 2] \in Int
      BY <3>1, <1>1, <1>2
    <3>3. b[i] = b[h - 2] + 1
      BY <2>3, <2>6
    <3>4. Ended(b, i) = b[h - 2]
      BY <3>2, <3>3 DEF Ended, Cr, Lf
    <3>5. Ended(b, h) = b[h - 2]
      BY <2>6 DEF Ended, Cr, Lf
    <3> QED BY <3>4, <3>5 DEF h
  <2>7. b[h] > Cr \/ b[h] = Cr \/ b[h] = Lf
    BY <2>2 DEF Cr, Lf
  <2> QED BY <2>4, <2>5, <2>6, <2>7
<1>8. Ended(b, i) \in Int
  <2>1. CASE b[i] = Cr
    <3>1. i - 1 \in 1..m
      BY <2>1, <1>1, <1>2, <1>3
    <3> QED BY <3>1, <2>1, <1>1 DEF Ended
  <2>2. CASE b[i] = Lf
    <3>1. i - 2 \in 1..m
      BY <2>2, <1>1, <1>2, <1>3
    <3> QED BY <3>1, <2>2, <1>1 DEF Ended, Cr, Lf
  <2>3. CASE b[i] # Cr /\ b[i] # Lf
    BY <2>3, <1>1, <1>3 DEF Ended
  <2> QED BY <2>1, <2>2, <2>3
<1> QED BY <1>4, <1>5, <1>6, <1>7, <1>8 DEF m

\* The requests in the bytes are those they spell.
LEMMA SpelledRequests ==
  ASSUME NEW k, NEW s, NEW b, Spelled(b, k, s)
  PROVE  Requests(b) = Run(k, s)
<1> DEFINE n == Len(b)
           seqs == [i \in DOMAIN b |-> IF b[i] = Cr THEN <<IF i = 1 THEN Cr ELSE b[i - 1]>> ELSE <<>>]
           F == [i \in 0..n |-> IF i = 0 THEN <<>> ELSE Run(k, Ended(b, i))]
<1>1. k \in Nat /\ s \in Nat /\ k <= s /\ b \in Seq(Int) /\ n \in Nat /\ DOMAIN b = 1..n
      /\ n = Len(b)
  BY DEF Spelled
<1>2. Requests(b) = FlattenSeq(seqs)
  BY DEF Requests
<1> HIDE DEF n
<1>3. ASSUME NEW i \in 1..n
      PROVE  seqs[i] = (IF b[i] = Cr THEN <<IF i = 1 THEN Cr ELSE b[i - 1]>> ELSE <<>>)
             /\ seqs[i] \in Seq(Int)
  <2>1. seqs[i] = IF b[i] = Cr THEN <<IF i = 1 THEN Cr ELSE b[i - 1]>> ELSE <<>>
    BY <1>1
  <2>2. (IF i = 1 THEN Cr ELSE b[i - 1]) \in Int
    BY <1>1 DEF Cr
  <2> HIDE DEF seqs
  <2> QED BY <2>1, <2>2
<1>4. seqs \in Seq(Seq(Int)) /\ Len(seqs) = n
  <2>1. seqs = [i \in 1..n |-> seqs[i]]
    BY <1>1
  <2> HIDE DEF seqs
  <2> QED BY <2>1, <1>1, <1>3
<1> HIDE DEF seqs
<1>5. \A i \in 1..n : Ended(b, i) \in Nat /\ k <= Ended(b, i)
  <2> DEFINE U == {i \in Nat : i \in 1..n => Ended(b, i) \in Nat /\ k <= Ended(b, i)}
  <2>1. 0 \in U
    OBVIOUS
  <2>2. ASSUME NEW h \in Nat, h \in U PROVE h + 1 \in U
    <3> SUFFICES ASSUME h + 1 \in 1..n PROVE Ended(b, h + 1) \in Nat /\ k <= Ended(b, h + 1)
      OBVIOUS
    <3>1. CASE h = 0
      <4>1. h + 1 = 1
        BY <3>1
      <4>2. Ended(b, h + 1) = k
        BY <4>1, <1>1, EndedStep
      <4> QED BY <4>2, <1>1
    <3>2. CASE h # 0
      <4>1. h \in 1..n /\ h + 1 # 1 /\ (h + 1) - 1 = h
        BY <3>2, <1>1
      <4>2. Ended(b, h) \in Nat /\ k <= Ended(b, h)
        BY <4>1, <2>2
      <4>3. Ended(b, h + 1) = Ended(b, h) + 1 \/ Ended(b, h + 1) = Ended(b, h)
        <5>1. h + 1 \in 1..Len(b)
          BY <1>1
        <5>2. b[h + 1] = Cr => Ended(b, h + 1) = Ended(b, (h + 1) - 1) + 1
          BY <4>1, <5>1, EndedStep
        <5>3. b[h + 1] # Cr => Ended(b, h + 1) = Ended(b, (h + 1) - 1)
          BY <4>1, <5>1, EndedStep
        <5> QED BY <4>1, <5>2, <5>3
      <4> QED BY <4>2, <4>3, <1>1
    <3> QED BY <3>1, <3>2
  <2> HIDE DEF U
  <2>3. Nat \subseteq U
    BY <2>1, <2>2, NatSetInduction
  <2> QED BY <2>3, <1>1 DEF U
<1>6. F \in [0..n -> Seq(Int)] /\ F[0] = <<>>
  <2>1. \A i \in 0..n : i # 0 => i \in 1..n
    BY <1>1
  <2>2. \A i \in 0..n : i # 0 => Run(k, Ended(b, i)) \in Seq(Int)
    BY <2>1, <1>1, <1>5, RunMore
  <2>3. 0 \in 0..n
    BY <1>1
  <2> QED BY <2>2, <2>3
<1>7. ASSUME NEW i \in 1..n PROVE F[i] = F[i - 1] \o seqs[i]
  <2>1. i \in 0..n /\ i - 1 \in 0..n /\ F[i] = Run(k, Ended(b, i))
    BY <1>1
  <2>2. F[i - 1] = (IF i - 1 = 0 THEN <<>> ELSE Run(k, Ended(b, i - 1))) /\ F[i - 1] \in Seq(Int)
    BY <2>1, <1>6
  <2> HIDE DEF F
  <2>3. F[i - 1] \o <<>> = F[i - 1]
    BY <2>2
  <2>4. CASE i = 1
    <3>1. Ended(b, i) = k /\ b[i] # Cr
      BY <2>4, <1>1, EndedStep
    <3>2. Run(k, k) = <<>>
      BY <1>1, RunMore
    <3>3. seqs[i] = <<>> /\ F[i - 1] = <<>>
      <4>1. i - 1 = 0
        BY <2>4
      <4> QED BY <4>1, <3>1, <2>2, <1>3
    <3> QED BY <3>1, <3>2, <3>3, <2>1, <2>3
  <2>5. CASE i # 1 /\ b[i] # Cr
    <3>1. Ended(b, i) = Ended(b, i - 1) /\ i - 1 # 0
      BY <2>5, <1>1, EndedStep
    <3>2. seqs[i] = <<>>
      BY <2>5, <1>3
    <3> QED BY <3>1, <3>2, <2>1, <2>2, <2>3
  <2>6. CASE i # 1 /\ b[i] = Cr
    <3>1. Ended(b, i) = Ended(b, i - 1) + 1 /\ Ended(b, i) = b[i - 1] /\ i - 1 # 0 /\ i - 1 \in 1..n
      BY <2>6, <1>1, EndedStep
    <3>2. seqs[i] = <<b[i - 1]>>
      BY <2>6, <1>3
    <3>3. Run(k, Ended(b, i - 1) + 1) = Run(k, Ended(b, i - 1)) \o <<Ended(b, i - 1) + 1>>
      BY <3>1, <1>1, <1>5, RunMore
    <3> QED BY <3>1, <3>2, <3>3, <2>1, <2>2
  <2> QED BY <2>4, <2>5, <2>6
<1>8. F[n] = Run(k, s)
  <2>1. CASE n = 0
    <3>1. b = <<>> /\ k = s
      BY <2>1, <1>1 DEF Spelled
    <3>2. F[n] = <<>> /\ Run(k, k) = <<>>
      <4>1. Run(k, k) = <<>>
        BY <1>1, RunMore
      <4> HIDE DEF F
      <4> QED BY <4>1, <2>1, <1>6
    <3> QED BY <3>1, <3>2
  <2>2. CASE n # 0
    <3>1. b # <<>> /\ n \in 0..n
      BY <2>2, <1>1
    <3>2. b[n] = Lf /\ b[n - 2] = s
      BY <3>1, <1>1 DEF Spelled
    <3>3. Ended(b, n) = s
      BY <3>2 DEF Ended, Cr, Lf
    <3>4. F[n] = Run(k, Ended(b, n))
      BY <3>1, <2>2
    <3> QED BY <3>3, <3>4
  <2> QED BY <2>1, <2>2
<1> HIDE DEF F
<1>9. Partial(F, seqs, Int)
  BY <1>4, <1>6, <1>7 DEF Partial
<1>10. FlattenSeq(seqs) = F[n]
  BY <1>4, <1>9, FlattenIs
<1> QED BY <1>2, <1>8, <1>10

-----------------------------------------------------------------------------
(* The requests of a connection that are evaluated or queued.              *)

(* What a task asks for on behalf of a connection.                         *)
OfTask(c, t) == IF t.type = "repl" /\ t.conn = c THEN <<t.n>> ELSE <<>>

(* A task for a request names a connection and a number.                   *)
Numbered(t) == t.type = "repl" => t.conn \in Conns /\ t.n \in Int

\* Which tasks are requests.
LEMMA TaskKinds ==
  ASSUME NEW c
  PROVE  /\ OfTask(c, NoTask) = <<>> /\ OfTask(c, String) = <<>>
         /\ Numbered(NoTask) /\ Numbered(String)
         /\ \A e : /\ OfTask(c, Callback(e)) = <<>> /\ OfTask(c, Destroy(e)) = <<>>
                   /\ Numbered(Callback(e)) /\ Numbered(Destroy(e))
         /\ \A d \in Conns : \A n \in Int : \A fd :
              /\ Numbered(Repl(d, n, fd))
              /\ OfTask(c, Repl(d, n, fd)) = IF c = d THEN <<n>> ELSE <<>>
<1>1. NoTask.type = "none" /\ String.type = "string"
  BY DEF NoTask, String
<1>2. \A e : Callback(e).type = "callback" /\ Destroy(e).type = "destroy"
  BY DEF Callback, Destroy
<1>3. \A d, n, fd : LET t == Repl(d, n, fd) IN t.type = "repl" /\ t.conn = d /\ t.n = n
  BY DEF Repl
<1> QED BY <1>1, <1>2, <1>3 DEF OfTask, Numbered

\* What the queue asks for, as a list to flatten.
LEMMA AskedList ==
  ASSUME NEW c, NEW q, IsSeq(q), \A i \in DOMAIN q : Numbered(q[i])
  PROVE  LET list == [i \in DOMAIN q |-> OfTask(c, q[i])]
         IN  /\ list \in Seq(Seq(Int)) /\ Len(list) = Len(q)
             /\ Asked(c, q) = FlattenSeq(list) /\ Asked(c, q) \in Seq(Int)
<1> DEFINE list == [i \in DOMAIN q |-> OfTask(c, q[i])]
<1>1. DOMAIN q = 1..Len(q) /\ Len(q) \in Nat
  BY AppendElements
<1>2. \A i \in DOMAIN q : OfTask(c, q[i]) \in Seq(Int)
  BY DEF OfTask, Numbered
<1>3. list \in Seq(Seq(Int)) /\ Len(list) = Len(q)
  BY <1>1, <1>2
<1>4. Asked(c, q) = FlattenSeq(list)
  BY DEF Asked, OfTask
<1>5. FlattenSeq(list) \in Seq(Int)
  <2> HIDE DEF list
  <2> QED BY <1>3, FlattenConcat
<1> QED BY <1>3, <1>4, <1>5

\* Of a queue and what is added to it.
LEMMA AskedConcat ==
  ASSUME NEW c, NEW q, IsSeq(q), \A i \in DOMAIN q : Numbered(q[i]),
         NEW r, IsSeq(r), \A i \in DOMAIN r : Numbered(r[i])
  PROVE  /\ IsSeq(q \o r) /\ \A i \in DOMAIN (q \o r) : Numbered((q \o r)[i])
         /\ Asked(c, q) \in Seq(Int) /\ Asked(c, r) \in Seq(Int)
         /\ Asked(c, q \o r) = Asked(c, q) \o Asked(c, r)
<1> DEFINE m == Len(q)
           n == Len(r)
           a == [i \in DOMAIN q |-> OfTask(c, q[i])]
           b == [i \in DOMAIN r |-> OfTask(c, r[i])]
           d == [i \in DOMAIN (q \o r) |-> OfTask(c, (q \o r)[i])]
<1>1. PICK S : r \in Seq(S)
  BY DEF IsSeq
<1>2. /\ m \in Nat /\ n \in Nat /\ DOMAIN q = 1..m /\ DOMAIN r = 1..n
      /\ IsSeq(q \o r) /\ DOMAIN (q \o r) = 1..(m + n)
      /\ \A i \in 1..m : (q \o r)[i] = q[i]
      /\ \A i \in (m + 1)..(m + n) : (q \o r)[i] = r[i - m]
  <2>1. n \in Nat /\ DOMAIN r = 1..n
    BY AppendElements
  <2> QED BY <1>1, <2>1, ConcatElements
<1>3. /\ a \in Seq(Seq(Int)) /\ Len(a) = m /\ Asked(c, q) = FlattenSeq(a)
      /\ b \in Seq(Seq(Int)) /\ Len(b) = n /\ Asked(c, r) = FlattenSeq(b)
  BY AskedList
<1>4. \A i \in DOMAIN (q \o r) : Numbered((q \o r)[i])
  <2> SUFFICES ASSUME NEW i \in 1..(m + n) PROVE Numbered((q \o r)[i])
    BY <1>2
  <2> HIDE DEF m, n
  <2>1. CASE i <= m
    BY <2>1, <1>2
  <2>2. CASE i > m
    <3>1. i \in (m + 1)..(m + n) /\ i - m \in 1..n
      BY <2>2, <1>2
    <3> QED BY <3>1, <1>2
  <2>3. i <= m \/ i > m
    BY <1>2
  <2> QED BY <2>1, <2>2, <2>3
<1>5. d \in Seq(Seq(Int)) /\ Len(d) = m + n /\ Asked(c, q \o r) = FlattenSeq(d)
  <2>1. Len(q \o r) = m + n
    <3>1. DOMAIN (q \o r) = 1..Len(q \o r) /\ Len(q \o r) \in Nat
      BY <1>2, AppendElements
    <3> HIDE DEF m, n
    <3> QED BY <3>1, <1>2
  <2> QED BY <1>2, <1>4, <2>1, AskedList
<1>6. d = a \o b
  <2>1. /\ \A i \in 1..m : a[i] = OfTask(c, q[i])
        /\ \A i \in 1..n : b[i] = OfTask(c, r[i])
        /\ \A i \in 1..(m + n) : d[i] = OfTask(c, (q \o r)[i])
    BY <1>2
  <2> HIDE DEF a, b, d
  <2>2. /\ a \o b \in Seq(Seq(Int)) /\ Len(a \o b) = m + n
        /\ \A i \in 1..m : (a \o b)[i] = a[i]
        /\ \A i \in 1..n : (a \o b)[m + i] = b[i]
    <3>1. a \in Seq(Seq(Int)) /\ b \in Seq(Seq(Int))
      BY <1>3
    <3>2. /\ a \o b \in Seq(Seq(Int)) /\ Len(a \o b) = Len(a) + Len(b)
          /\ \A i \in 1..Len(a) : (a \o b)[i] = a[i]
          /\ \A i \in 1..Len(b) : (a \o b)[Len(a) + i] = b[i]
      BY <3>1, ConcatPlaces
    <3> QED BY <3>2, <1>3
  <2> HIDE DEF m, n
  <2>3. ASSUME NEW i \in 1..(m + n) PROVE d[i] = (a \o b)[i]
    <3>1. CASE i <= m
      BY <3>1, <1>2, <2>1, <2>2
    <3>2. CASE i > m
      <4>1. i \in (m + 1)..(m + n) /\ i - m \in 1..n /\ m + (i - m) = i
        BY <3>2, <1>2
      <4>2. (a \o b)[m + (i - m)] = b[i - m]
        BY <4>1, <2>2
      <4>3. d[i] = OfTask(c, r[i - m]) /\ b[i - m] = OfTask(c, r[i - m])
        BY <4>1, <1>2, <2>1
      <4> QED BY <4>1, <4>2, <4>3
    <3>3. i <= m \/ i > m
      BY <1>2
    <3> QED BY <3>1, <3>2, <3>3
  <2> QED BY <1>5, <2>2, <2>3, SeqEqual
<1> HIDE DEF a, b, d
<1>7. FlattenSeq(a) \in Seq(Int) /\ FlattenSeq(b) \in Seq(Int)
      /\ FlattenSeq(a \o b) = FlattenSeq(a) \o FlattenSeq(b)
  BY <1>3, FlattenConcat
<1> QED BY <1>2, <1>3, <1>4, <1>5, <1>6, <1>7

\* Of one task.
LEMMA AskedOne ==
  ASSUME NEW c, NEW t, Numbered(t)
  PROVE  /\ IsSeq(<<t>>) /\ \A i \in DOMAIN <<t>> : Numbered(<<t>>[i])
         /\ Asked(c, <<t>>) = OfTask(c, t) /\ OfTask(c, t) \in Seq(Int)
<1>1. <<t>> \in Seq({t}) /\ DOMAIN <<t>> = 1..1 /\ <<t>>[1] = t
  OBVIOUS
<1>2. IsSeq(<<t>>)
  BY <1>1 DEF IsSeq
<1>3. \A i \in DOMAIN <<t>> : i = 1 /\ Numbered(<<t>>[i])
  BY <1>1
<1> DEFINE list == [i \in DOMAIN <<t>> |-> OfTask(c, <<t>>[i])]
<1>4. Asked(c, <<t>>) = FlattenSeq(list)
  BY <1>2, <1>3, AskedList
<1>5. OfTask(c, t) \in Seq(Int)
  BY DEF OfTask, Numbered
<1>6. list = <<OfTask(c, t)>>
  <2> DEFINE x == OfTask(c, t)
  <2>1. list = [i \in 1..1 |-> x]
    BY <1>1
  <2> HIDE DEF x, list
  <2>2. list \in Seq({x}) /\ Len(list) = 1 /\ list[1] = x
    BY <2>1
  <2>3. <<x>> \in Seq({x}) /\ Len(<<x>>) = 1 /\ <<x>>[1] = x
    OBVIOUS
  <2>4. \A i \in 1..1 : list[i] = <<x>>[i]
    BY <2>2, <2>3
  <2>5. list = <<x>>
    BY <2>2, <2>3, <2>4, SeqEqual
  <2> QED BY <2>5 DEF x
<1>7. FlattenSeq(<<OfTask(c, t)>>) = OfTask(c, t)
  BY <1>5, FlattenFew
<1> QED BY <1>2, <1>3, <1>4, <1>5, <1>6, <1>7

\* Of tasks that are no requests.
LEMMA AskedNothing ==
  ASSUME NEW c, NEW q, IsSeq(q),
         \A i \in DOMAIN q : Numbered(q[i]) /\ OfTask(c, q[i]) = <<>>
  PROVE  Asked(c, q) = <<>>
<1> DEFINE list == [i \in DOMAIN q |-> OfTask(c, q[i])]
<1>1. list \in Seq(Seq(Int)) /\ Len(list) = Len(q) /\ Asked(c, q) = FlattenSeq(list)
  BY AskedList
<1>2. DOMAIN q = 1..Len(q)
  BY AppendElements
<1>3. \A i \in 1..Len(list) : list[i] = <<>>
  BY <1>1, <1>2
<1> HIDE DEF list
<1> QED BY <1>1, <1>3, FlattenEmpty

(* The tasks, and what was evaluated.                                      *)
TaskInv ==
  /\ IsSeq(taskQueue) /\ \A i \in DOMAIN taskQueue : Numbered(taskQueue[i])
  /\ Numbered(task) /\ (tpc # "eval" => task = NoTask)
  /\ done \in [Conns -> Seq(Int)]

\* The task that runs comes before those that are queued.
LEMMA AskedTasks ==
  ASSUME NEW c, NEW t, Numbered(t), NEW q, IsSeq(q), \A i \in DOMAIN q : Numbered(q[i])
  PROVE  /\ Asked(c, <<t>> \o q) = OfTask(c, t) \o Asked(c, q)
         /\ OfTask(c, t) \in Seq(Int) /\ Asked(c, q) \in Seq(Int)
<1>1. /\ IsSeq(<<t>>) /\ \A i \in DOMAIN <<t>> : Numbered(<<t>>[i])
      /\ Asked(c, <<t>>) = OfTask(c, t) /\ OfTask(c, t) \in Seq(Int)
  BY AskedOne
<1>2. Asked(c, <<t>> \o q) = Asked(c, <<t>>) \o Asked(c, q) /\ Asked(c, q) \in Seq(Int)
  BY <1>1, AskedConcat
<1> QED BY <1>1, <1>2

\* The task thread does not change what is in process, whatever it queues.
LEMMA InProcessGrows ==
  ASSUME TaskInv, NEW r, IsSeq(r), \A i \in DOMAIN r : Numbered(r[i]),
         taskQueue' = taskQueue \o r, Numbered(task'),
         NEW c \in Conns, done'[c] = done[c], OfTask(c, task') = OfTask(c, task)
  PROVE  /\ IsSeq(taskQueue') /\ \A i \in DOMAIN taskQueue' : Numbered(taskQueue'[i])
         /\ InProcess(c) \in Seq(Int)
         /\ InProcess(c)' = InProcess(c) \o Asked(c, r)
<1> DEFINE a == done[c]
           b == OfTask(c, task)
           d == Asked(c, taskQueue)
           e == Asked(c, r)
<1>1. /\ IsSeq(taskQueue') /\ \A i \in DOMAIN taskQueue' : Numbered(taskQueue'[i])
      /\ Asked(c, taskQueue') = d \o e /\ e \in Seq(Int)
  BY AskedConcat DEF TaskInv
<1>2. Asked(c, <<task>> \o taskQueue) = b \o d /\ b \in Seq(Int) /\ d \in Seq(Int)
  BY AskedTasks DEF TaskInv
<1>3. Asked(c, <<task'>> \o taskQueue') = b \o Asked(c, taskQueue')
  <2>1. Asked(c, <<task'>> \o taskQueue') = OfTask(c, task') \o Asked(c, taskQueue')
    <3>1. Numbered(task') /\ IsSeq(taskQueue') /\ \A i \in DOMAIN taskQueue' : Numbered(taskQueue'[i])
      BY <1>1
    <3> HIDE <1>1, <1>2 DEF a, b, d, e
    <3> QED BY <3>1, AskedTasks
  <2> QED BY <2>1
<1>4. a \in Seq(Int)
  BY DEF TaskInv
<1>5. InProcess(c) = a \o (b \o d) /\ InProcess(c)' = a \o (b \o (d \o e))
  <2> HIDE DEF a, b, d, e
  <2>1. InProcess(c) = done[c] \o Asked(c, <<task>> \o taskQueue)
        /\ InProcess(c)' = done'[c] \o Asked(c, <<task'>> \o taskQueue')
    BY DEF InProcess
  <2>2. done'[c] = a /\ done[c] = a
    BY DEF a
  <2> QED BY <1>1, <1>2, <1>3, <2>1, <2>2
<1> HIDE DEF a, b, d, e
<1>6. a \o (b \o (d \o e)) = (a \o (b \o d)) \o e /\ a \o (b \o d) \in Seq(Int)
  <2>1. \A x, y, z \in Seq(Int) : x \o y \in Seq(Int) /\ (x \o y) \o z = x \o (y \o z)
    BY BytesAssociative
  <2>2. b \o d \in Seq(Int) /\ b \o (d \o e) = (b \o d) \o e
    BY <1>1, <1>2, <2>1
  <2>3. a \o ((b \o d) \o e) = (a \o (b \o d)) \o e /\ a \o (b \o d) \in Seq(Int)
    BY <1>1, <1>4, <2>1, <2>2
  <2> QED BY <2>2, <2>3
<1> QED BY <1>1, <1>5, <1>6 DEF e

\* A task that is added to the queue.
LEMMA InProcessAppend ==
  ASSUME TaskInv, NEW t, Numbered(t), taskQueue' = Append(taskQueue, t), Numbered(task'),
         NEW c \in Conns, done'[c] = done[c], OfTask(c, task') = OfTask(c, task)
  PROVE  /\ IsSeq(taskQueue') /\ \A i \in DOMAIN taskQueue' : Numbered(taskQueue'[i])
         /\ InProcess(c) \in Seq(Int)
         /\ InProcess(c)' = InProcess(c) \o OfTask(c, t)
<1>1. /\ IsSeq(<<t>>) /\ \A i \in DOMAIN <<t>> : Numbered(<<t>>[i])
      /\ Asked(c, <<t>>) = OfTask(c, t)
  BY AskedOne
<1>2. taskQueue' = taskQueue \o <<t>>
  <2>1. PICK S : taskQueue \in Seq(S)
    BY DEF TaskInv, IsSeq
  <2>2. taskQueue \in Seq(S \cup {t}) /\ t \in S \cup {t}
    BY <2>1
  <2> QED BY <2>2
<1>3. /\ IsSeq(taskQueue') /\ \A i \in DOMAIN taskQueue' : Numbered(taskQueue'[i])
      /\ InProcess(c) \in Seq(Int)
      /\ InProcess(c)' = InProcess(c) \o Asked(c, <<t>>)
  BY <1>1, <1>2, InProcessGrows
<1> QED BY <1>1, <1>3

\* A step of the tasks that asks for nothing and evaluates no request.
LEMMA InProcessQuiet ==
  ASSUME TaskInv, UNCHANGED done, Numbered(task'), tpc' # "eval" => task' = NoTask,
         \A c \in Conns : OfTask(c, task') = OfTask(c, task),
         \/ UNCHANGED taskQueue
         \/ \E t : /\ Numbered(t) /\ taskQueue' = Append(taskQueue, t)
                   /\ \A c \in Conns : OfTask(c, t) = <<>>
  PROVE  TaskInv' /\ \A c \in Conns : InProcess(c)' = InProcess(c)
<1>1. CASE UNCHANGED taskQueue
  <2>1. ASSUME NEW c \in Conns PROVE InProcess(c)' = InProcess(c)
    <3>1. Asked(c, <<task>> \o taskQueue) = OfTask(c, task) \o Asked(c, taskQueue)
      BY AskedTasks DEF TaskInv
    <3>2. Asked(c, <<task'>> \o taskQueue) = OfTask(c, task') \o Asked(c, taskQueue)
      BY AskedTasks DEF TaskInv
    <3>3. Asked(c, <<task'>> \o taskQueue') = Asked(c, <<task>> \o taskQueue)
      BY <1>1, <3>1, <3>2
    <3> QED BY <3>3 DEF InProcess
  <2> QED BY <1>1, <2>1 DEF TaskInv
<1>2. CASE \E t : /\ Numbered(t) /\ taskQueue' = Append(taskQueue, t)
                  /\ \A c \in Conns : OfTask(c, t) = <<>>
  <2>1. PICK t : /\ Numbered(t) /\ taskQueue' = Append(taskQueue, t)
                 /\ \A c \in Conns : OfTask(c, t) = <<>>
    BY <1>2
  <2>2. IsSeq(taskQueue') /\ \A i \in DOMAIN taskQueue' : Numbered(taskQueue'[i])
    <3>1. IsSeq(taskQueue) /\ \A i \in DOMAIN taskQueue : Numbered(taskQueue[i])
      BY DEF TaskInv
    <3>2. /\ IsSeq(taskQueue') /\ Len(taskQueue) \in Nat
          /\ DOMAIN taskQueue = 1..Len(taskQueue)
          /\ DOMAIN taskQueue' = 1..(Len(taskQueue) + 1)
          /\ \A i \in 1..Len(taskQueue) : taskQueue'[i] = taskQueue[i]
          /\ taskQueue'[Len(taskQueue) + 1] = t
      BY <2>1, <3>1, AppendElements
    <3>3. ASSUME NEW i \in DOMAIN taskQueue' PROVE Numbered(taskQueue'[i])
      <4>1. i \in 1..Len(taskQueue) \/ i = Len(taskQueue) + 1
        BY <3>2
      <4>2. CASE i \in 1..Len(taskQueue)
        BY <4>2, <3>1, <3>2
      <4>3. CASE i = Len(taskQueue) + 1
        BY <4>3, <2>1, <3>2
      <4> QED BY <4>1, <4>2, <4>3
    <3> QED BY <3>2, <3>3
  <2>3. ASSUME NEW c \in Conns PROVE InProcess(c)' = InProcess(c)
    <3>1. InProcess(c) \in Seq(Int) /\ InProcess(c)' = InProcess(c) \o OfTask(c, t)
      BY <2>1, InProcessAppend
    <3>2. OfTask(c, t) = <<>>
      BY <2>1
    <3> HIDE DEF InProcess
    <3> QED BY <3>1, <3>2
  <2> QED BY <2>2, <2>3 DEF TaskInv
<1> QED BY <1>1, <1>2

\* The first work of the primary process.
LEMMA QuietInit ==
  ASSUME TaskInv, TaskInit
  PROVE  TaskInv' /\ \A c \in Conns : InProcess(c)' = InProcess(c)
<1> DEFINE r == [i \in 1..InitTasks |-> String]
<1>1. InitTasks \in Nat /\ r \in Seq({String}) /\ DOMAIN r = 1..InitTasks
      /\ \A i \in DOMAIN r : r[i] = String
  BY ProcessAssumption
<1>2. taskQueue' = taskQueue \o r /\ UNCHANGED <<task, done>> /\ task = NoTask /\ tpc' = "idle"
  BY DEF TaskInit, TaskInv, past
<1> HIDE DEF r
<1>3. IsSeq(r) /\ \A i \in DOMAIN r : Numbered(r[i])
  BY <1>1, TaskKinds DEF IsSeq
<1>4. \A c \in Conns : Asked(c, r) = <<>>
  BY <1>1, <1>3, TaskKinds, AskedNothing
<1>5. Numbered(task')
  BY <1>2 DEF TaskInv
<1>6. IsSeq(taskQueue') /\ \A i \in DOMAIN taskQueue' : Numbered(taskQueue'[i])
  <2>1. IsSeq(taskQueue) /\ \A i \in DOMAIN taskQueue : Numbered(taskQueue[i])
    BY DEF TaskInv
  <2> QED BY <1>2, <1>3, <2>1, AskedConcat
<1>7. ASSUME NEW c \in Conns PROVE InProcess(c)' = InProcess(c)
  <2>1. InProcess(c) \in Seq(Int) /\ InProcess(c)' = InProcess(c) \o Asked(c, r)
    BY <1>2, <1>3, <1>5, InProcessGrows
  <2>2. Asked(c, r) = <<>>
    BY <1>4
  <2> QED BY <2>1, <2>2
<1> QED BY <1>2, <1>5, <1>6, <1>7 DEF TaskInv

\* The first task of the queue becomes the one that runs.
LEMMA QuietTake ==
  ASSUME TaskInv, Take
  PROVE  TaskInv' /\ \A c \in Conns : InProcess(c)' = InProcess(c)
<1>1. /\ task = NoTask /\ taskQueue # <<>> /\ IsSeq(taskQueue)
      /\ task' = Head(taskQueue) /\ taskQueue' = Tail(taskQueue) /\ tpc' = "eval"
      /\ UNCHANGED done
  BY DEF Take, TaskInv, past
<1>2. /\ IsSeq(taskQueue') /\ Len(taskQueue) \in Nat \ {0}
      /\ DOMAIN taskQueue = 1..Len(taskQueue)
      /\ DOMAIN taskQueue' = 1..(Len(taskQueue) - 1)
      /\ \A i \in 1..(Len(taskQueue) - 1) : taskQueue'[i] = taskQueue[i + 1]
      /\ task' = taskQueue[1]
  BY <1>1, TailElements
<1>3. \A i \in DOMAIN taskQueue : Numbered(taskQueue[i])
  BY DEF TaskInv
<1>4. Numbered(task') /\ \A i \in DOMAIN taskQueue' : Numbered(taskQueue'[i])
  <2>1. 1 \in DOMAIN taskQueue /\ \A i \in DOMAIN taskQueue' : i + 1 \in DOMAIN taskQueue
    BY <1>2
  <2> QED BY <1>2, <1>3, <2>1
<1>5. taskQueue = <<task'>> \o taskQueue'
  <2>1. PICK S : taskQueue \in Seq(S)
    BY <1>1 DEF IsSeq
  <2> QED BY <1>1, <2>1
<1>6. ASSUME NEW c \in Conns PROVE InProcess(c)' = InProcess(c)
  <2>1. Asked(c, <<task>> \o taskQueue) = OfTask(c, task) \o Asked(c, taskQueue)
        /\ Asked(c, taskQueue) \in Seq(Int)
    BY AskedTasks DEF TaskInv
  <2>2. OfTask(c, task) = <<>>
    BY <1>1, TaskKinds
  <2>3. Asked(c, <<task>> \o taskQueue) = Asked(c, taskQueue)
    BY <2>1, <2>2
  <2> QED BY <1>1, <1>5, <2>3 DEF InProcess
<1> QED BY <1>1, <1>2, <1>4, <1>6 DEF TaskInv

\* A request was evaluated.
LEMMA QuietEndRepl ==
  ASSUME TaskInv, NEW reply \in BOOLEAN, EndRepl(reply)
  PROVE  TaskInv' /\ \A c \in Conns : InProcess(c)' = InProcess(c)
<1>1. /\ task.type = "repl" /\ task' = NoTask /\ UNCHANGED taskQueue
      /\ done' = [done EXCEPT ![task.conn] = Append(@, task.n)]
  BY DEF EndRepl
<1>2. task.conn \in Conns /\ task.n \in Int /\ done \in [Conns -> Seq(Int)]
  BY <1>1 DEF TaskInv, Numbered
<1>3. done' \in [Conns -> Seq(Int)]
  BY <1>1, <1>2
<1>4. ASSUME NEW c \in Conns PROVE InProcess(c)' = InProcess(c)
  <2> DEFINE a == done[c]
             d == Asked(c, taskQueue)
             n == task.n
  <2>1. Asked(c, <<task>> \o taskQueue) = OfTask(c, task) \o d /\ d \in Seq(Int)
    BY AskedTasks DEF TaskInv
  <2>2. Asked(c, <<NoTask>> \o taskQueue) = <<>> \o d
    <3>1. Numbered(NoTask) /\ OfTask(c, NoTask) = <<>>
      BY TaskKinds
    <3>2. Asked(c, <<NoTask>> \o taskQueue) = OfTask(c, NoTask) \o d
      BY <3>1, AskedTasks DEF TaskInv
    <3> QED BY <3>1, <3>2
  <2>3. InProcess(c) = a \o (OfTask(c, task) \o d) /\ InProcess(c)' = done'[c] \o (<<>> \o d)
    <3>1. InProcess(c)' = done'[c] \o Asked(c, <<NoTask>> \o taskQueue)
      BY <1>1 DEF InProcess
    <3>2. InProcess(c) = a \o Asked(c, <<task>> \o taskQueue)
      BY DEF InProcess
    <3> QED BY <2>1, <2>2, <3>1, <3>2
  <2>4. a \in Seq(Int)
    BY <1>2
  <2>5. CASE c = task.conn
    <3>1. OfTask(c, task) = <<n>> /\ done'[c] = Append(a, n) /\ n \in Int
      BY <2>5, <1>1, <1>2 DEF OfTask
    <3> HIDE DEF a, d, n
    <3>2. Append(a, n) = a \o <<n>> /\ <<n>> \in Seq(Int) /\ <<>> \o d = d
      <4>1. \A x \in Seq(Int), y \in Int : Append(x, y) = x \o <<y>> /\ <<y>> \in Seq(Int) /\ <<>> \o x = x
        OBVIOUS
      <4> QED BY <4>1, <2>1, <2>4, <3>1
    <3>3. \A x, y, z \in Seq(Int) : x \o y \in Seq(Int) /\ (x \o y) \o z = x \o (y \o z)
      BY BytesAssociative
    <3>4. (a \o <<n>>) \o d = a \o (<<n>> \o d)
      BY <2>1, <2>4, <3>2, <3>3
    <3> QED BY <2>3, <3>1, <3>2, <3>4
  <2>6. CASE c # task.conn
    <3>1. OfTask(c, task) = <<>> /\ done'[c] = a
      BY <2>6, <1>1, <1>2 DEF OfTask
    <3> QED BY <2>3, <3>1
  <2> QED BY <2>5, <2>6
<1>5. Numbered(NoTask)
  BY TaskKinds
<1> QED BY <1>1, <1>3, <1>4, <1>5 DEF TaskInv

\* The task thread, the evaluated code and the callbacks.
LEMMA QuietSteps ==
  ASSUME TaskInv, Worker \/ Evaluated \/ Scheduler \/ CreateSchemeTask
  PROVE  TaskInv' /\ \A c \in Conns : InProcess(c)' = InProcess(c)
<1>1. CASE TaskBoot
  <2>1. UNCHANGED <<done, task, taskQueue>> /\ tpc = "boot"
    BY <1>1 DEF TaskBoot, past
  <2> QED BY <2>1, InProcessQuiet DEF TaskInv
<1>2. CASE EndString \/ EndCallback \/ DestroyEnv
  <2>1. /\ UNCHANGED done /\ task' = NoTask
        /\ task.type \in {"string", "callback", "destroy"}
        /\ UNCHANGED taskQueue \/ taskQueue' = Append(taskQueue, Destroy(task.env))
    BY <1>2 DEF EndString, EndCallback, DestroyEnv, past
  <2>2. \A c \in Conns : OfTask(c, task) = <<>> /\ OfTask(c, NoTask) = <<>>
    BY <2>1, TaskKinds DEF OfTask
  <2>3. Numbered(NoTask) /\ Numbered(Destroy(task.env))
        /\ \A c \in Conns : OfTask(c, Destroy(task.env)) = <<>>
    BY TaskKinds
  <2> QED BY <2>1, <2>2, <2>3, InProcessQuiet
<1>3. CASE Evaluated
  <2>1. UNCHANGED <<done, task, taskQueue, tpc>>
    BY <1>3 DEF Evaluated, Schedule, past
  <2> QED BY <2>1, InProcessQuiet DEF TaskInv
<1>4. CASE Scheduler
  <2>1. PICK e \in Envs : AddCallback(e)
    BY <1>4 DEF Scheduler
  <2>2. UNCHANGED <<done, task, tpc>> /\ taskQueue' = Append(taskQueue, Callback(e))
    BY <2>1 DEF AddCallback, past
  <2>3. Numbered(Callback(e)) /\ \A c \in Conns : OfTask(c, Callback(e)) = <<>>
    BY TaskKinds
  <2> QED BY <2>2, <2>3, InProcessQuiet DEF TaskInv
<1>5. CASE CreateSchemeTask
  <2>1. UNCHANGED <<done, task, tpc>> /\ taskQueue' = Append(taskQueue, String)
    BY <1>5 DEF CreateSchemeTask, past
  <2>2. Numbered(String) /\ \A c \in Conns : OfTask(c, String) = <<>>
    BY TaskKinds
  <2> QED BY <2>1, <2>2, InProcessQuiet DEF TaskInv
<1> QED BY <1>1, <1>2, <1>3, <1>4, <1>5, QuietInit, QuietTake, QuietEndRepl DEF Worker

(* The bytes of the clients and of the server.                             *)
StreamType ==
  /\ out \in [Conns -> Seq(Int)] /\ wire \in [Conns -> Seq(Int)]
  /\ inStrings \in [Fds -> Seq(Int)] /\ evalStr \in Seq(Int)
  /\ sent \in [Conns -> Nat]
  /\ spc # "push" => evalStr = <<>>
  /\ evalStr = <<>> \/ evalStr[Len(evalStr)] = Lf

(* What is on the way of a connection spells the requests after k; when    *)
(* the client has left, as far as it was written and not lost.             *)
Waiting(c, k) ==
  /\ conn[c] \in {"none", "backlog"} => sent[c] = 0 /\ wire[c] = <<>>
  /\ conn[c] # "open" => out[c] = <<>>
  /\ Open(c) => \E rest \in Seq(Int) : /\ Spelled(Bytes(c) \o rest, k, sent[c])
                                       /\ conn[c] = "open" => rest = <<>>

InOrder(c) ==
  c \notin cut =>
    \E k \in Nat : k <= sent[c] /\ InProcess(c) = Run(0, k) /\ Waiting(c, k)

(* The requests of each connection whose text was never thrown away are in *)
(* process up to some number, and on the way from there.                   *)
StreamInv == TaskInv /\ StreamType /\ \A c \in Conns : InOrder(c)

(* What is being pushed of a connection.                                   *)
Pushed(c) == IF spc = "push" /\ ConnAt(Sock) = c THEN evalStr ELSE <<>>

\* The parts of a connection's bytes.
LEMMA BytesParts ==
  ASSUME NetInv, StreamType, NEW c \in Conns, Open(c)
  PROVE  /\ fdOf[c] \in Fds /\ Pushed(c) \in Seq(Int) /\ inStrings[fdOf[c]] \in Seq(Int)
         /\ wire[c] \in Seq(Int) /\ out[c] \in Seq(Int)
         /\ Bytes(c) = ((Pushed(c) \o inStrings[fdOf[c]]) \o wire[c]) \o out[c]
<1>1. fdOf[c] \in Fds
  BY DEF NetInv, NetType, ToSet
<1>2. Pushed(c) \in Seq(Int)
  BY DEF Pushed, StreamType
<1> QED BY <1>1, <1>2 DEF Bytes, Pushed, StreamType

\* A sequence and its two halves.
LEMMA SplitSeq ==
  ASSUME NEW X, NEW a \in Seq(X), NEW n \in 0..Len(a)
  PROVE  /\ SubSeq(a, 1, n) \in Seq(X) /\ SubSeq(a, n + 1, Len(a)) \in Seq(X)
         /\ Len(SubSeq(a, 1, n)) = n /\ Len(SubSeq(a, n + 1, Len(a))) = Len(a) - n
         /\ \A i \in 1..(Len(a) - n) : SubSeq(a, n + 1, Len(a))[i] = a[n + i]
         /\ SubSeq(a, 1, n) \o SubSeq(a, n + 1, Len(a)) = a
<1> DEFINE p == SubSeq(a, 1, n)
           q == SubSeq(a, n + 1, Len(a))
<1>1. p \in Seq(X) /\ Len(p) = n /\ \A i \in 1..n : p[i] = a[i]
  OBVIOUS
<1>2. q \in Seq(X) /\ Len(q) = Len(a) - n /\ \A i \in 1..(Len(a) - n) : q[i] = a[n + i]
  OBVIOUS
<1> HIDE DEF p, q
<1>3. /\ p \o q \in Seq(X) /\ Len(p \o q) = Len(p) + Len(q)
      /\ \A i \in 1..Len(p) : (p \o q)[i] = p[i]
      /\ \A i \in 1..Len(q) : (p \o q)[Len(p) + i] = q[i]
  <2>1. p \in Seq(X) /\ q \in Seq(X)
    BY <1>1, <1>2
  <2> QED BY <2>1, ConcatPlaces
<1>4. ASSUME NEW i \in 1..Len(a) PROVE (p \o q)[i] = a[i]
  <2>1. CASE i <= n
    BY <2>1, <1>1, <1>3
  <2>2. CASE i > n
    <3>1. i - n \in 1..(Len(a) - n) /\ n + (i - n) = i
      BY <2>2
    <3>2. (p \o q)[n + (i - n)] = q[i - n] /\ q[i - n] = a[n + (i - n)]
      BY <3>1, <1>1, <1>2, <1>3
    <3> QED BY <3>1, <3>2
  <2>3. i <= n \/ i > n
    OBVIOUS
  <2> QED BY <2>1, <2>2, <2>3
<1>5. p \o q = a
  <2>1. Len(p \o q) = Len(a)
    BY <1>1, <1>2, <1>3
  <2> QED BY <1>3, <1>4, <2>1, SeqEqual
<1> QED BY <1>1, <1>2, <1>5 DEF p, q

\* A step that does not concern a connection.
LEMMA OrderKept ==
  ASSUME NEW c \in Conns, InOrder(c), cut \subseteq cut', InProcess(c)' = InProcess(c),
         conn'[c] = conn[c], sent'[c] = sent[c],
         conn[c] # "open" => out'[c] = out[c],
         conn[c] \in {"none", "backlog"} => wire'[c] = wire[c],
         Open(c) => Bytes(c)' = Bytes(c)
  PROVE  InOrder(c)'
<1> SUFFICES ASSUME c \notin cut PROVE InOrder(c)'
  BY DEF InOrder
<1>1. PICK k \in Nat : k <= sent[c] /\ InProcess(c) = Run(0, k) /\ Waiting(c, k)
  BY DEF InOrder
<1>2. Open(c)' <=> Open(c)
  BY DEF Open
<1>3. Waiting(c, k)'
  BY <1>1, <1>2 DEF Waiting
<1>4. k <= sent'[c] /\ InProcess(c)' = Run(0, k)
  BY <1>1
<1> QED BY <1>3, <1>4 DEF InOrder

\* A step that does not touch the tasks.
LEMMA TasksKept ==
  ASSUME TaskInv, UNCHANGED <<tpc, task, taskQueue, done>>
  PROVE  TaskInv' /\ \A c \in Conns : InProcess(c)' = InProcess(c)
BY DEF TaskInv, InProcess

\* Nothing was asked for at the start.
LEMMA StreamInit == Init => StreamInv
<1> SUFFICES ASSUME Init PROVE StreamInv
  OBVIOUS
<1>1. taskQueue = <<>> /\ task = NoTask /\ tpc = "boot" /\ done = [c \in Conns |-> <<>>]
  BY DEF Init
<1>2. <<>> \in Seq(Int) /\ <<>> \in Seq({}) /\ DOMAIN <<>> = {} /\ IsSeq(<<>>)
  BY DEF IsSeq
<1>3. TaskInv
  BY <1>1, <1>2, TaskKinds DEF TaskInv
<1>4. StreamType
  BY <1>2 DEF Init, StreamType
<1>5. ASSUME NEW c \in Conns PROVE InOrder(c)
  <2>1. Asked(c, <<task>> \o taskQueue) = <<>>
    <3>1. Asked(c, <<NoTask>>) = OfTask(c, NoTask) /\ OfTask(c, NoTask) = <<>>
      BY AskedOne, TaskKinds
    <3>2. <<NoTask>> \o <<>> = <<NoTask>>
      <4> DEFINE t == NoTask
      <4> HIDE DEF t
      <4>1. <<t>> \in Seq({t})
        OBVIOUS
      <4>2. <<t>> \o <<>> = <<t>>
        BY <4>1
      <4> QED BY <4>2 DEF t
    <3> QED BY <1>1, <3>1, <3>2
  <2>2. InProcess(c) = <<>>
    <3>1. done[c] = <<>> /\ <<>> \o <<>> = <<>>
      BY <1>1
    <3> QED BY <2>1, <3>1 DEF InProcess
  <2>3. Run(0, 0) = <<>>
    <3>1. 0 \in Nat /\ 0 <= 0
      OBVIOUS
    <3> QED BY <3>1, RunMore
  <2>4. Waiting(c, 0)
    BY DEF Init, Waiting, Open
  <2>5. 0 <= sent[c]
    BY DEF Init
  <2> QED BY <2>2, <2>3, <2>4, <2>5 DEF InOrder
<1> QED BY <1>3, <1>4, <1>5 DEF StreamInv

\* The tasks, without the bytes.
LEMMA StreamTasks ==
  ASSUME StreamInv, Worker \/ Evaluated \/ Scheduler \/ CreateSchemeTask
  PROVE  StreamInv'
<1>1. TaskInv' /\ \A c \in Conns : InProcess(c)' = InProcess(c)
  BY QuietSteps DEF StreamInv
<1>2. UNCHANGED <<kernel, client, wire, server, cut>>
  BY DEF Worker, Evaluated, Scheduler, TaskBoot, TaskInit, Take, EndRepl, EndString,
         EndCallback, DestroyEnv, Schedule, AddCallback, CreateSchemeTask, past
<1>3. UNCHANGED <<conn, fdOf, out, sent, wire, spc, clientSockets, inStrings, index, evalStr>>
  BY <1>2 DEF kernel, client, server
<1>4. StreamType'
  BY <1>3 DEF StreamInv, StreamType
<1>5. \A c \in Conns : Bytes(c)' = Bytes(c)
  BY <1>3 DEF Bytes, ConnAt, Sock, Open
<1>6. \A c \in Conns : InOrder(c)'
  BY <1>1, <1>2, <1>3, <1>5, OrderKept DEF StreamInv
<1> QED BY <1>1, <1>4, <1>6 DEF StreamInv

\* The first CR of a sequence of bytes.
LEMMA FirstCr ==
  ASSUME NEW s \in Seq(Int), \E i \in 1..Len(s) : s[i] = Cr
  PROVE  LET e == SelectInSeq(s, LAMBDA b : b = Cr)
         IN  e \in 1..Len(s) /\ s[e] = Cr /\ \A i \in 1..(e - 1) : s[i] # Cr
<1> DEFINE I == {i \in 1..Len(s) : s[i] = Cr}
           e == SelectInSeq(s, LAMBDA b : b = Cr)
           R == {ss \in Nat \X Nat : ss[1] < ss[2]}
<1>1. I \subseteq Nat /\ I # {} /\ Len(s) \in Nat
  OBVIOUS
<1>2. PICK x \in I : \A y \in I : ~ (<<y, x>> \in R)
  <2>1. IsWellFoundedOn(R, Nat)
    BY NatLessThanWellFounded DEF OpToRel
  <2> HIDE DEF I, R
  <2> QED BY <1>1, <2>1, WFMin
<1>3. \A y \in I : x <= y
  <2> SUFFICES ASSUME NEW y \in I PROVE x <= y
    OBVIOUS
  <2>1. x \in Nat /\ y \in Nat
    BY <1>1
  <2>2. ~(y < x)
    BY <1>2, <2>1
  <2> QED BY <2>1, <2>2
<1>4. e = CHOOSE z \in I : \A y \in I : z <= y
  BY <1>1 DEF SelectInSeq, Min
<1> HIDE DEF e
<1>5. e \in I /\ \A y \in I : e <= y
  BY <1>3, <1>4
<1>6. ASSUME NEW i \in 1..(e - 1) PROVE s[i] # Cr
  <2>1. i \in 1..Len(s) /\ ~(e <= i)
    BY <1>5
  <2> QED BY <1>5, <2>1
<1> QED BY <1>5, <1>6 DEF e

\* A connection of which some text was thrown away: the types are kept, and
\* the others are not concerned.
LEMMA StreamCut ==
  ASSUME NetInv, StreamInv, NEW d \in cut \cap Conns,
         \/ WritePiece(d) \/ \E len \in BodyLens : WriteString(d, len)
         \/ PushExpr /\ d = ConnAt(Sock)
  PROVE  StreamInv'
<1>1. /\ UNCHANGED <<conn, fdOf, spc, clientSockets, inStrings, index, tpc, task, done, cut>>
      /\ \A c \in Conns \ {d} : wire'[c] = wire[c] /\ out'[c] = out[c] /\ sent'[c] = sent[c]
  BY DEF WritePiece, WriteString, PushExpr, kernel, client, server, past, StreamInv, StreamType
<1>2. StreamType' /\ (spc = "push" /\ d # ConnAt(Sock) => UNCHANGED evalStr)
  <2>1. ASSUME WritePiece(d) PROVE <1>2!:
    <3> DEFINE o == out[d]
               w == wire[d]
    <3>1. o \in Seq(Int) /\ w \in Seq(Int) /\ Len(o) \in Nat /\ BufLen \in Nat
      BY ProcessAssumption DEF StreamInv, StreamType
    <3>2. PICK n \in 0..Len(o) : /\ wire' = [wire EXCEPT ![d] = w \o SubSeq(o, 1, n)]
                                 /\ out' = [out EXCEPT ![d] = SubSeq(o, n + 1, Len(o))]
      <4> DEFINE n == IF Len(o) > BufLen THEN BufLen ELSE Len(o)
      <4>1. n \in 0..Len(o)
        BY <3>1
      <4>2. /\ wire' = [wire EXCEPT ![d] = w \o SubSeq(o, 1, n)]
            /\ out' = [out EXCEPT ![d] = SubSeq(o, n + 1, Len(o))]
        BY <2>1 DEF WritePiece
      <4> HIDE DEF n
      <4> QED BY <4>1, <4>2
    <3>3. SubSeq(o, 1, n) \in Seq(Int) /\ SubSeq(o, n + 1, Len(o)) \in Seq(Int)
      BY <3>1, SplitSeq
    <3>4. w \o SubSeq(o, 1, n) \in Seq(Int)
      BY <3>1, <3>3
    <3>5. UNCHANGED <<evalStr, sent>>
      BY <2>1 DEF WritePiece, server
    <3> HIDE DEF o, w
    <3> QED BY <1>1, <3>2, <3>3, <3>4, <3>5 DEF StreamInv, StreamType
  <2>2. ASSUME NEW len \in BodyLens, WriteString(d, len) PROVE <1>2!:
    <3> DEFINE r == Request(sent[d] + 1, len)
    <3>1. sent[d] \in Nat /\ len \in Nat \ {0} /\ sent[d] + 1 \in Nat \ {0}
      BY SMTT(30), ProcessAssumption DEF StreamInv, StreamType
    <3>2. r \in Seq(Int)
      BY <3>1, RequestBytes
    <3>3. /\ sent' = [sent EXCEPT ![d] = @ + 1] /\ out' = [out EXCEPT ![d] = r]
          /\ UNCHANGED <<wire, evalStr>>
      BY <2>2 DEF WriteString, server
    <3> HIDE DEF r
    <3> QED BY <1>1, <3>1, <3>2, <3>3 DEF StreamInv, StreamType
  <2>3. ASSUME PushExpr, d = ConnAt(Sock) PROVE <1>2!:
    <3> DEFINE ev == evalStr
               end == SelectInSeq(ev, LAMBDA b : b = Cr)
               q == SubSeq(ev, end + 2, Len(ev))
    <3>1. ev \in Seq(Int) /\ ev # <<>> /\ ev[Len(ev)] = Lf /\ Len(ev) \in Nat
      BY <2>3 DEF PushExpr, StreamInv, StreamType
    <3>2. end \in Nat
      <4>1. CASE \E i \in 1..Len(ev) : ev[i] = Cr
        <5>1. end \in 1..Len(ev)
          BY <3>1, <4>1, FirstCr
        <5> QED BY <5>1
      <4>2. CASE ~ \E i \in 1..Len(ev) : ev[i] = Cr
        <5>1. end = 0
          BY <4>2 DEF SelectInSeq
        <5> QED BY <5>1
      <4> QED BY <4>1, <4>2
    <3> HIDE DEF end
    <3>3. q \in Seq(Int) /\ (q = <<>> \/ q[Len(q)] = Lf)
      <4>1. CASE end + 1 >= Len(ev)
        <5>1. end + 2 > Len(ev) /\ end + 2 \in Nat
          BY <3>1, <3>2, <4>1
        <5>2. Len(q) = 0 /\ q \in Seq(Int)
          BY <3>1, <5>1
        <5> HIDE DEF q
        <5>3. q = <<>>
          BY <5>2
        <5> QED BY <5>2, <5>3
      <4>2. CASE end + 1 < Len(ev)
        <5>1. PICK n \in 0..Len(ev) : n = end + 1 /\ n < Len(ev)
          BY <3>1, <3>2, <4>2
        <5>2. /\ SubSeq(ev, n + 1, Len(ev)) \in Seq(Int)
              /\ Len(SubSeq(ev, n + 1, Len(ev))) = Len(ev) - n
              /\ \A i \in 1..(Len(ev) - n) : SubSeq(ev, n + 1, Len(ev))[i] = ev[n + i]
          BY <3>1, SplitSeq
        <5>3. q = SubSeq(ev, n + 1, Len(ev))
          BY <3>2, <5>1
        <5> HIDE DEF q, ev
        <5>4. Len(ev) - n \in 1..(Len(ev) - n) /\ n + (Len(ev) - n) = Len(ev)
          BY <3>1, <5>1
        <5> QED BY <3>1, <5>2, <5>3, <5>4
      <4> HIDE DEF q, ev
      <4>3. end + 1 >= Len(ev) \/ end + 1 < Len(ev)
        BY <3>1, <3>2
      <4> QED BY <4>1, <4>2, <4>3
    <3>4. evalStr' = q /\ spc = "push" /\ spc' = "push" /\ UNCHANGED <<wire, out, sent>>
      BY <2>3 DEF PushExpr, client, end
    <3> HIDE DEF q
    <3> QED BY <1>1, <2>3, <3>3, <3>4 DEF StreamInv, StreamType
  <2> QED BY <2>1, <2>2, <2>3
<1>3. TaskInv' /\ \A c \in Conns \ {d} : InProcess(c)' = InProcess(c)
  <2>1. CASE WritePiece(d) \/ \E len \in BodyLens : WriteString(d, len)
    <3>1. UNCHANGED taskQueue
      BY <2>1 DEF WritePiece, WriteString
    <3> QED BY <1>1, <3>1, TasksKept DEF StreamInv
  <2>2. CASE PushExpr /\ d = ConnAt(Sock)
    <3> DEFINE t == Repl(d, evalStr[1], Label)
    <3>1. taskQueue' = Append(taskQueue, t)
      BY <2>2 DEF PushExpr
    <3>2. evalStr[1] \in Int
      <4>1. evalStr \in Seq(Int) /\ evalStr # <<>>
        BY <2>2 DEF PushExpr, StreamInv, StreamType
      <4> QED BY <4>1
    <3>3. t.type = "repl" /\ t.conn = d /\ t.n = evalStr[1]
      BY DEF Repl
    <3>4. Numbered(t) /\ \A c \in Conns \ {d} : OfTask(c, t) = <<>>
      BY <3>2, <3>3 DEF Numbered, OfTask
    <3> HIDE DEF t
    <3>5. ASSUME NEW c \in Conns
          PROVE  /\ IsSeq(taskQueue') /\ \A i \in DOMAIN taskQueue' : Numbered(taskQueue'[i])
                 /\ InProcess(c) \in Seq(Int)
                 /\ InProcess(c)' = InProcess(c) \o OfTask(c, t)
      <4>1. /\ TaskInv /\ done'[c] = done[c] /\ OfTask(c, task') = OfTask(c, task)
            /\ Numbered(task')
        BY <1>1 DEF StreamInv, TaskInv
      <4> QED BY <3>1, <3>4, <4>1, InProcessAppend
    <3>6. ASSUME NEW c \in Conns \ {d} PROVE InProcess(c)' = InProcess(c)
      <4> DEFINE y == InProcess(c)
      <4>1. y \in Seq(Int) /\ InProcess(c)' = y \o <<>>
        BY <3>4, <3>5
      <4> HIDE DEF y
      <4>2. y \o <<>> = y
        BY <4>1
      <4> QED BY <4>1, <4>2 DEF y
    <3>7. TaskInv'
      BY <1>1, <3>5 DEF StreamInv, TaskInv
    <3> QED BY <3>6, <3>7
  <2> QED BY <2>1, <2>2
<1>4. ASSUME NEW c \in Conns \ {d} PROVE InOrder(c)'
  <2>1. ConnAt(Sock)' = ConnAt(Sock)
    BY <1>1 DEF ConnAt, Sock, Open
  <2>2. Bytes(c)' = Bytes(c)
    BY <1>1, <1>2, <2>1 DEF Bytes
  <2> QED BY <1>1, <1>3, <2>2, OrderKept DEF StreamInv
<1>5. InOrder(d)'
  BY <1>1 DEF InOrder
<1> QED BY <1>2, <1>3, <1>4, <1>5 DEF StreamInv

\* A request is written to out, and its bytes from there to the socket.
LEMMA StreamWrite ==
  ASSUME NetInv, StreamInv, NEW d \in Conns \ cut,
         WritePiece(d) \/ \E len \in BodyLens : WriteString(d, len)
  PROVE  StreamInv'
<1>1. /\ UNCHANGED <<conn, fdOf, spc, clientSockets, inStrings, index, evalStr, tpc, task, taskQueue, done, cut>>
      /\ conn[d] = "open"
      /\ \A c \in Conns \ {d} : wire'[c] = wire[c] /\ out'[c] = out[c] /\ sent'[c] = sent[c]
  BY DEF WritePiece, WriteString, kernel, server, past, StreamInv, StreamType
<1>2. TaskInv' /\ \A c \in Conns : InProcess(c)' = InProcess(c)
  BY <1>1, TasksKept DEF StreamInv
<1>3. \A c \in Conns \ {d} : Bytes(c)' = Bytes(c)
  BY <1>1 DEF Bytes, ConnAt, Sock, Open
<1>4. \A c \in Conns \ {d} : InOrder(c)'
  BY <1>1, <1>2, <1>3, OrderKept DEF StreamInv
<1> DEFINE a == Pushed(d)
           b == inStrings[fdOf[d]]
           w == wire[d]
           o == out[d]
<1>5. /\ a \in Seq(Int) /\ b \in Seq(Int) /\ w \in Seq(Int) /\ o \in Seq(Int)
      /\ Bytes(d) = ((a \o b) \o w) \o o /\ Open(d)
  <2>1. Open(d)
    BY <1>1 DEF Open
  <2> QED BY <2>1, BytesParts DEF StreamInv
<1>6. Bytes(d)' = ((a \o b) \o wire'[d]) \o out'[d]
  <2>1. ConnAt(Sock)' = ConnAt(Sock)
    BY <1>1 DEF ConnAt, Sock, Open
  <2> QED BY <1>1, <2>1 DEF Bytes, Pushed
<1>7. PICK k \in Nat : /\ k <= sent[d] /\ InProcess(d) = Run(0, k)
                       /\ Spelled(Bytes(d) \o <<>>, k, sent[d])
  BY <1>1, <1>5 DEF StreamInv, InOrder, Waiting
<1> HIDE DEF a, b, w, o
<1>8. \A x, y, z \in Seq(Int) : x \o y \in Seq(Int) /\ (x \o y) \o z = x \o (y \o z)
  BY BytesAssociative
<1>9. \A x \in Seq(Int) : x \o <<>> = x
  OBVIOUS
<1>10. Bytes(d) \in Seq(Int) /\ Spelled(Bytes(d), k, sent[d])
  <2>1. Bytes(d) \in Seq(Int)
    BY <1>5, <1>8
  <2> QED BY <1>7, <1>9, <2>1
<1>11. /\ wire' \in [Conns -> Seq(Int)] /\ out' \in [Conns -> Seq(Int)] /\ sent' \in [Conns -> Nat]
       /\ k <= sent'[d] /\ Spelled(Bytes(d)', k, sent'[d])
  <2>1. ASSUME NEW len \in BodyLens, WriteString(d, len)
        PROVE  <1>11!:
    <3> DEFINE r == Request(sent[d] + 1, len)
    <3>1. /\ out[d] = <<>> /\ sent' = [sent EXCEPT ![d] = @ + 1]
          /\ out' = [out EXCEPT ![d] = r] /\ UNCHANGED wire
      BY <2>1 DEF WriteString
    <3>2. sent[d] \in Nat /\ len \in Nat \ {0} /\ sent[d] + 1 \in Nat \ {0}
      BY ProcessAssumption DEF StreamInv, StreamType
    <3>3. r \in Seq(Int)
      BY <3>2, RequestBytes
    <3>4. Spelled(Bytes(d) \o r, k, sent[d] + 1)
      BY <1>10, <3>2, SpelledMore
    <3> HIDE DEF r
    <3>5. out' \in [Conns -> Seq(Int)] /\ sent' \in [Conns -> Nat] /\ wire' \in [Conns -> Seq(Int)]
          /\ out'[d] = r /\ sent'[d] = sent[d] + 1 /\ wire'[d] = w
      BY <3>1, <3>2, <3>3 DEF StreamInv, StreamType, w
    <3>6. Bytes(d) = (a \o b) \o w
      <4>1. o = <<>> /\ (a \o b) \o w \in Seq(Int)
        BY <1>5, <1>8, <3>1 DEF o
      <4> QED BY <1>5, <1>9, <4>1
    <3>7. Bytes(d)' = Bytes(d) \o r
      BY <1>6, <3>5, <3>6
    <3> QED BY <1>7, <3>2, <3>4, <3>5, <3>7
  <2>2. ASSUME WritePiece(d)
        PROVE  <1>11!:
    <3>1. PICK n \in 0..Len(o) : /\ wire' = [wire EXCEPT ![d] = w \o SubSeq(o, 1, n)]
                                 /\ out' = [out EXCEPT ![d] = SubSeq(o, n + 1, Len(o))]
      <4>1. Len(o) \in Nat /\ BufLen \in Nat
        BY <1>5, ProcessAssumption
      <4> DEFINE n == IF Len(o) > BufLen THEN BufLen ELSE Len(o)
      <4>2. n \in 0..Len(o)
        BY <4>1
      <4>3. /\ wire' = [wire EXCEPT ![d] = w \o SubSeq(o, 1, n)]
            /\ out' = [out EXCEPT ![d] = SubSeq(o, n + 1, Len(o))]
        BY <2>2 DEF WritePiece, w, o
      <4> HIDE DEF n
      <4> QED BY <4>2, <4>3
    <3> DEFINE p == SubSeq(o, 1, n)
               q == SubSeq(o, n + 1, Len(o))
    <3>2. p \in Seq(Int) /\ q \in Seq(Int) /\ p \o q = o
      BY <1>5, SplitSeq
    <3>3. wire' = [wire EXCEPT ![d] = w \o p] /\ out' = [out EXCEPT ![d] = q] /\ UNCHANGED sent
      BY <2>2, <3>1 DEF WritePiece
    <3> HIDE DEF p, q
    <3>4. /\ wire' \in [Conns -> Seq(Int)] /\ out' \in [Conns -> Seq(Int)] /\ sent' \in [Conns -> Nat]
          /\ wire'[d] = w \o p /\ out'[d] = q /\ sent'[d] = sent[d]
      BY <1>5, <1>8, <3>2, <3>3 DEF StreamInv, StreamType
    <3>5. Bytes(d)' = Bytes(d)
      <4>1. (a \o b) \in Seq(Int) /\ (a \o b) \o (w \o p) = ((a \o b) \o w) \o p
            /\ (a \o b) \o w \in Seq(Int)
        <5>1. a \o b \in Seq(Int)
          BY <1>5, <1>8
        <5>2. Joins(a \o b, w, p)
          BY BytesJoin
        <5>3. (a \o b) \o w \in Seq(Int) /\ ((a \o b) \o w) \o p = (a \o b) \o (w \o p)
          BY <5>1, <5>2, <1>5, <1>8, <3>2, Zenon DEF Joins
        <5> QED BY <5>1, <5>3
      <4>2. (((a \o b) \o w) \o p) \o q = ((a \o b) \o w) \o (p \o q)
        <5>1. Joins((a \o b) \o w, p, q)
          BY BytesJoin
        <5> QED BY <5>1, <3>2, <4>1, Zenon DEF Joins
      <4> QED BY <1>5, <1>6, <3>2, <3>4, <4>1, <4>2
    <3>6. k <= sent'[d] /\ Spelled(Bytes(d)', k, sent'[d])
      BY <1>7, <1>10, <3>4, <3>5
    <3> QED BY <3>4, <3>6
  <2> QED BY <2>1, <2>2
<1>12. InOrder(d)'
  <2>1. Bytes(d)' \o <<>> = Bytes(d)'
    BY <1>9, <1>11 DEF Spelled
  <2>2. Waiting(d, k)'
    <3>1. conn'[d] = "open" /\ <<>> \in Seq(Int)
      BY <1>1
    <3> QED BY <1>11, <2>1, <3>1 DEF Waiting
  <2>3. InProcess(d)' = Run(0, k)
    BY <1>2, <1>7
  <2> QED BY <1>11, <2>2, <2>3 DEF InOrder
<1>13. StreamType'
  BY <1>1, <1>11 DEF StreamInv, StreamType
<1> QED BY <1>2, <1>4, <1>12, <1>13 DEF StreamInv

\* A client connects or leaves; what it had still to write is not written.
LEMMA StreamClients ==
  ASSUME NetInv, StreamInv, NEW d \in Conns, Connect(d) \/ CloseRepl(d)
  PROVE  StreamInv'
<1>1. /\ UNCHANGED <<fdOf, sent, wire, spc, clientSockets, inStrings, index, evalStr, tpc, task,
                     taskQueue, done, cut>>
      /\ \A c \in Conns \ {d} : conn'[c] = conn[c] /\ out'[c] = out[c]
      /\ \A c \in Conns : Open(c)' <=> Open(c)
  BY DEF Connect, CloseRepl, client, server, past, StreamInv, StreamType, NetInv, NetType, Open
<1>2. TaskInv' /\ \A c \in Conns : InProcess(c)' = InProcess(c)
  BY <1>1, TasksKept DEF StreamInv
<1>3. \A c \in Conns : Pushed(c)' = Pushed(c)
  <2>1. CASE spc = "push"
    <3>1. index \in DOMAIN clientSockets /\ Sock' = Sock
      BY <1>1, <2>1 DEF NetInv, Sock
    <3>2. /\ ConnAt(Sock) \in Conns /\ Open(ConnAt(Sock)) /\ fdOf[ConnAt(Sock)] = Sock
          /\ \A c \in Conns : Open(c) /\ fdOf[c] = Sock => c = ConnAt(Sock)
      BY <3>1, ConnAtSock
    <3> DEFINE At(c) == conn'[c] \in {"open", "left"} /\ fdOf'[c] = Sock'
               e == CHOOSE c \in Conns : At(c)
    <3>3. \A c \in Conns : At(c) <=> Open(c) /\ fdOf[c] = Sock
      BY <1>1, <3>1 DEF Open
    <3>4. ConnAt(Sock)' = e /\ e \in Conns /\ At(e)
      <4>1. ConnAt(Sock)' = IF \E c \in Conns : At(c) THEN e ELSE NoConn
        BY DEF ConnAt, Open
      <4> HIDE DEF At
      <4>2. \E c \in Conns : At(c)
        BY <3>2, <3>3
      <4> QED BY <4>1, <4>2
    <3> HIDE DEF At, e
    <3>5. ConnAt(Sock)' = ConnAt(Sock)
      BY <3>2, <3>3, <3>4
    <3> QED BY <1>1, <3>5 DEF Pushed
  <2>2. CASE spc # "push"
    BY <1>1, <2>2 DEF Pushed
  <2> QED BY <2>1, <2>2
<1>4. \A c \in Conns \ {d} : Bytes(c)' = Bytes(c)
  BY <1>1, <1>3 DEF Bytes, Pushed
<1>5. \A c \in Conns \ {d} : InOrder(c)'
  BY <1>1, <1>2, <1>4, OrderKept DEF StreamInv
<1>6. StreamType' /\ InOrder(d)'
  <2>1. CASE Connect(d)
    <3>1. conn[d] = "none" /\ conn'[d] = "backlog" /\ out' = out
      BY <2>1 DEF Connect, client, NetInv, NetType
    <3>2. StreamType'
      BY <1>1, <3>1 DEF StreamInv, StreamType
    <3> SUFFICES ASSUME d \notin cut PROVE InOrder(d)'
      BY <1>1, <3>2 DEF InOrder
    <3>3. PICK k \in Nat : k <= sent[d] /\ InProcess(d) = Run(0, k) /\ Waiting(d, k)
      BY DEF StreamInv, InOrder
    <3>4. Waiting(d, k)'
      BY <1>1, <3>1, <3>3 DEF Waiting, Open
    <3>5. k <= sent'[d] /\ InProcess(d)' = Run(0, k)
      BY <1>1, <1>2, <3>3
    <3> QED BY <3>2, <3>4, <3>5 DEF InOrder
  <2>2. CASE CloseRepl(d)
    <3>1. conn[d] = "open" /\ conn'[d] = "left" /\ out' = [out EXCEPT ![d] = <<>>]
      BY <2>2 DEF CloseRepl, NetInv, NetType
    <3>2. <<>> \in Seq(Int)
      OBVIOUS
    <3>3. StreamType' /\ out'[d] = <<>>
      BY <1>1, <3>1, <3>2 DEF StreamInv, StreamType
    <3> SUFFICES ASSUME d \notin cut PROVE InOrder(d)'
      BY <1>1, <3>3 DEF InOrder
    <3>4. PICK k \in Nat : /\ k <= sent[d] /\ InProcess(d) = Run(0, k)
                           /\ Spelled(Bytes(d) \o <<>>, k, sent[d])
      BY <3>1 DEF StreamInv, InOrder, Waiting, Open
    <3> DEFINE a == Pushed(d)
               b == inStrings[fdOf[d]]
               w == wire[d]
               o == out[d]
    <3>5. /\ a \in Seq(Int) /\ b \in Seq(Int) /\ w \in Seq(Int) /\ o \in Seq(Int)
          /\ Bytes(d) = ((a \o b) \o w) \o o
      BY <3>1, BytesParts DEF StreamInv, Open
    <3>6. Bytes(d)' = ((a \o b) \o w) \o <<>>
      BY <1>1, <1>3, <3>3 DEF Bytes, Pushed
    <3> HIDE DEF a, b, w, o
    <3>7. (a \o b) \o w \in Seq(Int)
      BY <3>5, BytesAssociative
    <3>8. \A x \in Seq(Int) : x \o <<>> = x
      OBVIOUS
    <3>9. ((a \o b) \o w) \o o \in Seq(Int)
      BY <3>5, <3>7, BytesAssociative
    <3>10. Bytes(d)' \o o = Bytes(d) \o <<>>
      BY <3>5, <3>6, <3>7, <3>8, <3>9
    <3>11. Spelled(Bytes(d)' \o o, k, sent'[d])
      BY <1>1, <3>4, <3>10
    <3>12. Waiting(d, k)'
      BY <3>1, <3>3, <3>5, <3>11 DEF Waiting
    <3>13. k <= sent'[d] /\ InProcess(d)' = Run(0, k)
      BY <1>1, <1>2, <3>4
    <3> QED BY <3>3, <3>12, <3>13 DEF InOrder
  <2> QED BY <2>1, <2>2
<1> QED BY <1>2, <1>5, <1>6 DEF StreamInv

\* A connection is accepted, with nothing of an earlier one in its string.
LEMMA StreamAccept ==
  ASSUME NetInv, StreamInv, NEW d \in Conns, Accept(d)
  PROVE  StreamInv'
<1>1. PICK fd \in Fds \ UsedFds :
        /\ fdOf' = [fdOf EXCEPT ![d] = fd]
        /\ inStrings' = [inStrings EXCEPT ![fd] = <<>>]
  BY DEF Accept
<1>2. /\ spc = "select" /\ spc' = "select" /\ UNCHANGED <<out, sent, wire, evalStr, tpc, task, taskQueue, done, cut>>
      /\ conn[d] = "backlog" /\ conn' = [conn EXCEPT ![d] = "open"]
  BY DEF Accept, client, past
<1>3. TaskInv' /\ \A c \in Conns : InProcess(c)' = InProcess(c)
  BY <1>2, TasksKept DEF StreamInv
<1>4. <<>> \in Seq(Int)
  OBVIOUS
<1>5. StreamType' /\ inStrings'[fd] = <<>>
  BY <1>1, <1>2, <1>4 DEF StreamInv, StreamType
<1>6. ASSUME NEW c \in Conns \ {d} PROVE InOrder(c)'
  <2>1. fdOf'[c] = fdOf[c] /\ conn'[c] = conn[c]
    BY <1>1, <1>2 DEF NetInv, NetType
  <2>2. Open(c) => Bytes(c)' = Bytes(c)
    <3> SUFFICES ASSUME Open(c) PROVE Bytes(c)' = Bytes(c)
      OBVIOUS
    <3>1. fdOf[c] # fd /\ fdOf[c] \in Fds
      BY <1>1, BytesParts DEF UsedFds, StreamInv
    <3>2. inStrings'[fdOf'[c]] = inStrings[fdOf[c]]
      BY <1>1, <2>1, <3>1 DEF StreamInv, StreamType
    <3> QED BY <1>2, <3>2 DEF Bytes
  <2> QED BY <1>2, <1>3, <2>1, <2>2, OrderKept DEF StreamInv
<1>7. InOrder(d)'
  <2> SUFFICES ASSUME d \notin cut PROVE InOrder(d)'
    BY <1>2 DEF InOrder
  <2>1. PICK k \in Nat : k <= sent[d] /\ InProcess(d) = Run(0, k) /\ Waiting(d, k)
    BY DEF StreamInv, InOrder
  <2>2. sent[d] = 0 /\ wire[d] = <<>> /\ out[d] = <<>> /\ k = 0
    BY <1>2, <2>1 DEF Waiting
  <2>3. fdOf'[d] = fd /\ conn'[d] = "open"
    BY <1>1, <1>2 DEF NetInv, NetType
  <2>4. Bytes(d)' = ((<<>> \o <<>>) \o <<>>) \o <<>>
    BY <1>2, <1>5, <2>2, <2>3 DEF Bytes
  <2>5. <<>> \o <<>> = <<>>
    OBVIOUS
  <2>6. Spelled(Bytes(d)' \o <<>>, k, sent'[d])
    BY <1>2, <2>2, <2>4, <2>5, SpelledNone
  <2>7. Waiting(d, k)'
    BY <1>4, <2>3, <2>6 DEF Waiting
  <2> QED BY <1>2, <1>3, <2>1, <2>7 DEF InOrder
<1> QED BY <1>3, <1>5, <1>6, <1>7 DEF StreamInv

\* The loop goes on.
LEMMA StreamLoop ==
  ASSUME NetInv, StreamInv, ServerBoot \/ Select \/ NextClient \/ PushEnd
  PROVE  StreamInv'
<1>1. /\ UNCHANGED <<conn, fdOf, out, sent, wire, clientSockets, inStrings, evalStr, tpc, task, taskQueue, done, cut>>
      /\ spc' # "push" /\ (spc = "push" => evalStr = <<>>)
  BY DEF ServerBoot, Select, NextClient, PushEnd, kernel, client, past
<1>2. TaskInv' /\ \A c \in Conns : InProcess(c)' = InProcess(c)
  BY <1>1, TasksKept DEF StreamInv
<1>3. StreamType'
  BY <1>1 DEF StreamInv, StreamType
<1>4. \A c \in Conns : Bytes(c)' = Bytes(c)
  BY <1>1 DEF Bytes
<1>5. \A c \in Conns : InOrder(c)'
  BY <1>1, <1>2, <1>4, OrderKept DEF StreamInv
<1> QED BY <1>2, <1>3, <1>5 DEF StreamInv

\* A connection has ended.
LEMMA StreamRecvEnd ==
  ASSUME NetInv, StreamInv, RecvEnd
  PROVE  StreamInv'
<1>1. index \in DOMAIN clientSockets
  BY DEF RecvEnd, NetInv
<1>2. PICK d \in Conns : /\ d = ConnAt(Sock) /\ Open(d) /\ fdOf[d] = Sock
                         /\ \A c \in Conns : Open(c) /\ fdOf[c] = Sock => c = d
  BY <1>1, ConnAtSock
<1>3. /\ conn[d] = "left" /\ conn' = [conn EXCEPT ![d] = "gone"]
      /\ inStrings' = [inStrings EXCEPT ![Sock] = <<>>]
      /\ spc = "recv" /\ spc' = "clients"
      /\ UNCHANGED <<fdOf, out, sent, wire, evalStr, tpc, task, taskQueue, done, cut>>
  BY <1>2 DEF RecvEnd, client, past
<1>4. TaskInv' /\ \A c \in Conns : InProcess(c)' = InProcess(c)
  BY <1>3, TasksKept DEF StreamInv
<1>5. <<>> \in Seq(Int)
  OBVIOUS
<1>6. StreamType'
  BY <1>3, <1>5 DEF StreamInv, StreamType
<1>7. ASSUME NEW c \in Conns \ {d} PROVE InOrder(c)'
  <2>1. conn'[c] = conn[c]
    BY <1>3 DEF NetInv, NetType
  <2>2. Open(c) => Bytes(c)' = Bytes(c)
    <3> SUFFICES ASSUME Open(c) PROVE Bytes(c)' = Bytes(c)
      OBVIOUS
    <3>1. fdOf[c] # Sock /\ fdOf[c] \in Fds
      BY <1>2, BytesParts DEF StreamInv
    <3>2. inStrings'[fdOf'[c]] = inStrings[fdOf[c]]
      BY <1>3, <3>1 DEF StreamInv, StreamType
    <3> QED BY <1>3, <3>2 DEF Bytes
  <2> QED BY <1>3, <1>4, <2>1, <2>2, OrderKept DEF StreamInv
<1>8. InOrder(d)'
  <2> SUFFICES ASSUME d \notin cut PROVE InOrder(d)'
    BY <1>3 DEF InOrder
  <2>1. PICK k \in Nat : k <= sent[d] /\ InProcess(d) = Run(0, k) /\ Waiting(d, k)
    BY DEF StreamInv, InOrder
  <2>2. conn'[d] = "gone" /\ out'[d] = <<>>
    BY <1>3, <2>1 DEF Waiting, NetInv, NetType
  <2>3. Waiting(d, k)'
    BY <2>2 DEF Waiting, Open
  <2> QED BY <1>3, <1>4, <2>1, <2>3 DEF InOrder
<1> QED BY <1>4, <1>6, <1>7, <1>8 DEF StreamInv

\* What a client that has left had written is lost.
LEMMA StreamRecvError ==
  ASSUME NetInv, StreamInv, RecvError
  PROVE  StreamInv'
<1>1. index \in DOMAIN clientSockets
  BY DEF RecvError, NetInv
<1>2. PICK d \in Conns : d = ConnAt(Sock) /\ Open(d)
  BY <1>1, ConnAtSock
<1>3. /\ conn[d] = "left" /\ wire' = [wire EXCEPT ![d] = <<>>]
      /\ spc = "recv" /\ spc' = "clients"
      /\ UNCHANGED <<conn, fdOf, out, sent, inStrings, evalStr, tpc, task, taskQueue, done, cut>>
  BY <1>2 DEF RecvError, kernel, client, past
<1>4. TaskInv' /\ \A c \in Conns : InProcess(c)' = InProcess(c)
  BY <1>3, TasksKept DEF StreamInv
<1>5. <<>> \in Seq(Int) /\ \A x \in Seq(Int) : x \o <<>> = x
  OBVIOUS
<1>6. StreamType' /\ wire'[d] = <<>> /\ \A c \in Conns \ {d} : wire'[c] = wire[c]
  BY <1>3, <1>5 DEF StreamInv, StreamType
<1>7. \A c \in Conns \ {d} : Bytes(c)' = Bytes(c)
  BY <1>3, <1>6 DEF Bytes
<1>8. \A c \in Conns \ {d} : InOrder(c)'
  BY <1>3, <1>4, <1>6, <1>7, OrderKept DEF StreamInv
<1>9. InOrder(d)'
  <2> SUFFICES ASSUME d \notin cut PROVE InOrder(d)'
    BY <1>3 DEF InOrder
  <2>1. PICK k \in Nat : k <= sent[d] /\ InProcess(d) = Run(0, k) /\ Waiting(d, k)
    BY DEF StreamInv, InOrder
  <2>2. PICK rest \in Seq(Int) : Spelled(Bytes(d) \o rest, k, sent[d])
    BY <1>2, <2>1 DEF Waiting
  <2> DEFINE a == Pushed(d)
             b == inStrings[fdOf[d]]
             w == wire[d]
  <2>3. /\ a \in Seq(Int) /\ b \in Seq(Int) /\ w \in Seq(Int) /\ out[d] = <<>>
        /\ Bytes(d) = ((a \o b) \o w) \o <<>>
    <3>1. out[d] = <<>>
      BY <1>3, <2>1 DEF Waiting
    <3> QED BY <1>2, <3>1, BytesParts DEF StreamInv
  <2>4. Bytes(d)' = ((a \o b) \o <<>>) \o <<>>
    BY <1>3, <1>6, <2>3 DEF Bytes, Pushed
  <2> HIDE DEF a, b, w
  <2>5. a \o b \in Seq(Int) /\ (a \o b) \o w \in Seq(Int)
    BY <2>3, BytesAssociative
  <2>6. Bytes(d)' = a \o b /\ Bytes(d) = (a \o b) \o w
    BY <1>5, <2>3, <2>4, <2>5
  <2>7. Bytes(d) \o rest = Bytes(d)' \o (w \o rest) /\ w \o rest \in Seq(Int)
    <3>1. w \in Seq(Int) /\ rest \in Seq(Int) /\ a \o b \in Seq(Int)
      BY <2>3, <2>5
    <3>2. w \o rest \in Seq(Int) /\ ((a \o b) \o w) \o rest = (a \o b) \o (w \o rest)
      BY <3>1, BytesAssociative
    <3> QED BY <2>6, <3>2
  <2>8. Spelled(Bytes(d)' \o (w \o rest), k, sent'[d])
    BY <1>3, <2>2, <2>7
  <2>9. Waiting(d, k)'
    BY <1>3, <2>3, <2>7, <2>8 DEF Waiting
  <2> QED BY <1>3, <1>4, <2>1, <2>9 DEF InOrder
<1> QED BY <1>4, <1>6, <1>8, <1>9 DEF StreamInv

\* A block goes from the socket to inStrings, or with all that is there to
\* evalStr.
LEMMA StreamRecvBlock ==
  ASSUME NetInv, StreamInv, NEW n \in 1..BufLen, RecvBlock(n)
  PROVE  StreamInv'
<1>1. index \in DOMAIN clientSockets /\ spc = "recv"
  BY DEF RecvBlock, NetInv
<1>2. PICK d \in Conns : /\ d = ConnAt(Sock) /\ Open(d) /\ fdOf[d] = Sock
                         /\ \A c \in Conns : Open(c) /\ fdOf[c] = Sock => c = d
  BY <1>1, ConnAtSock
<1> DEFINE b == inStrings[Sock]
           w == wire[d]
           o == out[d]
           p == SubSeq(w, 1, n)
           q == SubSeq(w, n + 1, Len(w))
<1>3. /\ UNCHANGED <<conn, fdOf, out, sent, clientSockets, index, tpc, task, taskQueue, done>>
      /\ n <= Len(w) /\ wire' = [wire EXCEPT ![d] = q]
      /\ \/ /\ TRUE \in Terminated(p)
            /\ evalStr' = b \o p /\ inStrings' = [inStrings EXCEPT ![Sock] = <<>>] /\ spc' = "push"
            /\ UNCHANGED cut
         \/ inStrings' = [inStrings EXCEPT ![Sock] = b \o p] /\ UNCHANGED <<evalStr, spc, cut>>
         \/ /\ inStrings' = [inStrings EXCEPT ![Sock] = <<>>] /\ spc' = "push" /\ UNCHANGED evalStr
            /\ cut' = cut \cup {d}
  <2>1. \A end \in Terminated(p) : end \in BOOLEAN
    BY DEF Terminated
  <2> QED BY <1>2, <2>1 DEF RecvBlock, Read, kernel, client, past
<1>4. TaskInv' /\ \A c \in Conns : InProcess(c)' = InProcess(c)
  BY <1>3, TasksKept DEF StreamInv
<1>5. /\ b \in Seq(Int) /\ w \in Seq(Int) /\ o \in Seq(Int) /\ Sock \in Fds
      /\ Pushed(d) = <<>> /\ Bytes(d) = ((<<>> \o b) \o w) \o o
  <2>1. Pushed(d) = <<>>
    BY <1>1 DEF Pushed
  <2> QED BY <1>2, <2>1, BytesParts DEF StreamInv
<1>6. p \in Seq(Int) /\ q \in Seq(Int) /\ p \o q = w /\ Len(p) = n /\ n \in Nat \ {0}
  <2>1. Len(w) \in Nat /\ n \in Nat \ {0} /\ n \in 0..Len(w)
    <3>1. Len(w) \in Nat /\ BufLen \in Nat /\ n <= Len(w)
      BY <1>3, <1>5, ProcessAssumption
    <3> HIDE DEF w
    <3> QED BY <3>1
  <2> QED BY <1>5, <2>1, SplitSeq
<1>7. TRUE \in Terminated(p) => p[n] = Lf
  BY <1>6 DEF Terminated
<1>8. ConnAt(Sock)' = d
  <2>1. ConnAt(Sock)' = ConnAt(Sock)
    BY <1>3 DEF ConnAt, Sock, Open
  <2> QED BY <1>2, <2>1
<1> HIDE DEF b, w, o, p, q
<1>9. \A x \in Seq(Int) : x \o <<>> = x /\ <<>> \o x = x /\ <<>> \in Seq(Int)
  OBVIOUS
<1>10. b \o p \in Seq(Int) /\ (p[n] = Lf => (b \o p)[Len(b \o p)] = Lf)
  <2>1. Len(b) \in Nat /\ Len(b \o p) = Len(b) + n /\ b \o p \in Seq(Int)
        /\ \A i \in 1..n : (b \o p)[Len(b) + i] = p[i]
    <3>1. /\ b \o p \in Seq(Int) /\ Len(b \o p) = Len(b) + Len(p)
          /\ \A i \in 1..Len(p) : (b \o p)[Len(b) + i] = p[i]
      <4>1. b \in Seq(Int) /\ p \in Seq(Int)
        BY <1>5, <1>6
      <4> QED BY <4>1, ConcatPlaces
    <3> QED BY <1>5, <1>6, <3>1
  <2>2. n \in 1..n
    BY <1>6
  <2> QED BY <2>1, <2>2
<1>11. StreamType' /\ wire'[d] = q /\ \A c \in Conns \ {d} : wire'[c] = wire[c]
  <2>1. wire' \in [Conns -> Seq(Int)] /\ wire'[d] = q /\ \A c \in Conns \ {d} : wire'[c] = wire[c]
    BY <1>3, <1>6 DEF StreamInv, StreamType
  <2>2. inStrings' \in [Fds -> Seq(Int)] /\ evalStr' \in Seq(Int)
    BY <1>3, <1>9, <1>10 DEF StreamInv, StreamType
  <2>3. evalStr = <<>>
    BY <1>1 DEF StreamInv, StreamType
  <2>4. /\ spc' # "push" => evalStr' = <<>>
        /\ evalStr' = <<>> \/ evalStr'[Len(evalStr')] = Lf
    BY <1>3, <1>7, <1>10, <2>3
  <2> QED BY <1>3, <2>1, <2>2, <2>4 DEF StreamInv, StreamType
<1>12. ASSUME NEW c \in Conns \ {d} PROVE InOrder(c)'
  <2>1. Open(c) => Bytes(c)' = Bytes(c)
    <3> SUFFICES ASSUME Open(c) PROVE Bytes(c)' = Bytes(c)
      OBVIOUS
    <3>1. fdOf[c] # Sock /\ fdOf[c] \in Fds
      BY <1>2, BytesParts DEF StreamInv
    <3>2. inStrings'[fdOf'[c]] = inStrings[fdOf[c]]
      BY <1>3, <3>1 DEF StreamInv, StreamType
    <3>3. ConnAt(Sock)' # c /\ spc # "push"
      BY <1>1, <1>8
    <3> QED BY <1>3, <1>11, <3>2, <3>3 DEF Bytes
  <2>2. cut \subseteq cut'
    BY <1>3
  <2> QED BY <1>3, <1>4, <1>11, <2>1, <2>2, OrderKept DEF StreamInv
<1>13. d \notin cut' => Bytes(d)' = Bytes(d)
  <2> SUFFICES ASSUME d \notin cut' PROVE Bytes(d)' = Bytes(d)
    OBVIOUS
  <2>1. (b \o p) \o q = b \o w
    <3>1. b \in Seq(Int) /\ p \in Seq(Int) /\ q \in Seq(Int)
      BY <1>5, <1>6
    <3>2. (b \o p) \o q = b \o (p \o q)
      BY <3>1, BytesAssociative
    <3> QED BY <1>6, <3>2
  <2>2. Bytes(d) = (b \o w) \o o
    BY <1>5, <1>9
  <2>3. CASE /\ evalStr' = b \o p /\ inStrings' = [inStrings EXCEPT ![Sock] = <<>>] /\ spc' = "push"
    <3>1. inStrings'[fdOf'[d]] = <<>>
      BY <1>2, <1>3, <1>5, <2>3 DEF StreamInv, StreamType
    <3>2. Bytes(d)' = (((b \o p) \o <<>>) \o q) \o o
      BY <1>3, <1>8, <1>11, <2>3, <3>1 DEF Bytes, o
    <3>3. (b \o p) \o <<>> = b \o p
      BY <1>9, <1>10
    <3> QED BY <2>1, <2>2, <3>2, <3>3
  <2>4. CASE inStrings' = [inStrings EXCEPT ![Sock] = b \o p] /\ UNCHANGED <<evalStr, spc>>
    <3>1. inStrings'[fdOf'[d]] = b \o p
      BY <1>2, <1>3, <1>5, <2>4 DEF StreamInv, StreamType
    <3>2. Bytes(d)' = ((<<>> \o (b \o p)) \o q) \o o
      BY <1>1, <1>3, <1>11, <2>4, <3>1 DEF Bytes, o
    <3>3. <<>> \o (b \o p) = b \o p
      BY <1>9, <1>10
    <3> QED BY <2>1, <2>2, <3>2, <3>3
  <2> QED BY <1>3, <2>3, <2>4
<1>14. InOrder(d)'
  <2>1. conn[d] \notin {"none", "backlog"}
    BY <1>2 DEF Open
  <2>2. cut \subseteq cut'
    BY <1>3
  <2>3. CASE d \in cut'
    BY <2>3 DEF InOrder
  <2>4. CASE d \notin cut'
    BY <1>3, <1>4, <1>13, <2>1, <2>2, <2>4, OrderKept DEF StreamInv
  <2> QED BY <2>3, <2>4
<1> QED BY <1>4, <1>11, <1>12, <1>14 DEF StreamInv

(* The pieces of a connection's bytes, and those behind the first.         *)
Behind(x, b, w, o, r) ==
  x \in Seq(Int) /\ b \in Seq(Int) /\ w \in Seq(Int) /\ o \in Seq(Int) /\ r \in Seq(Int)
    => /\ ((b \o w) \o o) \o r \in Seq(Int)
       /\ (((x \o b) \o w) \o o) \o r = x \o (((b \o w) \o o) \o r)

\* What is behind the first piece moves as one piece.
LEMMA BehindFirst ==
  ASSUME NEW x, NEW b, NEW w, NEW o, NEW r
  PROVE  Behind(x, b, w, o, r)
<1> SUFFICES ASSUME x \in Seq(Int), b \in Seq(Int), w \in Seq(Int), o \in Seq(Int), r \in Seq(Int)
             PROVE  /\ ((b \o w) \o o) \o r \in Seq(Int)
                    /\ (((x \o b) \o w) \o o) \o r = x \o (((b \o w) \o o) \o r)
  BY DEF Behind
<1> DEFINE h == b \o w
           i == h \o o
<1>1. Joins(x, b, w) /\ Joins(b, w, o)
  BY BytesJoin
<1>2. h \in Seq(Int) /\ (x \o b) \o w = x \o h
  BY <1>1 DEF Joins
<1> HIDE DEF h
<1>3. Joins(x, h, o) /\ Joins(h, o, r)
  BY BytesJoin
<1>4. i \in Seq(Int) /\ (x \o h) \o o = x \o i
  BY <1>2, <1>3 DEF Joins
<1> HIDE DEF i
<1>5. Joins(x, i, r) /\ Joins(i, r, x)
  BY BytesJoin
<1>6. i \o r \in Seq(Int) /\ (x \o i) \o r = x \o (i \o r)
  BY <1>4, <1>5 DEF Joins
<1> QED BY <1>2, <1>4, <1>6 DEF h, i

\* The first request of what is being pushed is the next one, and its bytes
\* are left out: what remains spells the others.
LEMMA PushedFirst ==
  ASSUME NEW k, NEW s, NEW ev \in Seq(Int), ev # <<>>, ev[Len(ev)] = Lf,
         NEW tail \in Seq(Int), Spelled(ev \o tail, k, s)
  PROVE  LET e == SelectInSeq(ev, LAMBDA b : b = Cr)
             q == SubSeq(ev, e + 2, Len(ev))
         IN  /\ k \in Nat /\ k + 1 <= s /\ ev[1] = k + 1
             /\ q \in Seq(Int) /\ (q = <<>> \/ q[Len(q)] = Lf)
             /\ Spelled(q \o tail, k + 1, s)
<1> DEFINE e == SelectInSeq(ev, LAMBDA b : b = Cr)
           q == SubSeq(ev, e + 2, Len(ev))
           m == Len(ev)
           full == ev \o tail
           d == q \o tail
<1>1. m \in Nat \ {0} /\ Len(tail) \in Nat
  OBVIOUS
<1>2. /\ full \in Seq(Int) /\ Len(full) = m + Len(tail)
      /\ \A i \in 1..m : full[i] = ev[i]
      /\ \A i \in 1..Len(tail) : full[m + i] = tail[i]
  BY ConcatPlaces
<1>3. Spelled(full, k, s)
  OBVIOUS
<1>a. m = Len(ev)
  OBVIOUS
<1> HIDE DEF full, m
<1>4. m > 2 /\ ev[m - 1] = Cr
  <2>1. m \in 1..Len(full) /\ full[m] = Lf
    <3>1. m \in 1..m /\ m <= m + Len(tail) /\ ev[m] = Lf
      BY <1>1, <1>a
    <3> QED BY <3>1, <1>1, <1>2
  <2>2. m > 2 /\ full[m - 1] = Cr
    BY <1>3, <2>1 DEF Spelled
  <2>3. m - 1 \in 1..m
    BY <1>1, <2>2
  <2> QED BY <1>2, <2>2, <2>3
<1>5. e \in 1..m /\ ev[e] = Cr /\ \A i \in 1..(e - 1) : ev[i] # Cr
  <2>1. m - 1 \in 1..m
    BY <1>1, <1>4
  <2>2. \E i \in 1..Len(ev) : ev[i] = Cr
    BY <1>4, <1>a, <2>1
  <2> QED BY <2>2, <1>a, FirstCr
<1> HIDE DEF e
<1>6. e < m
  <2>1. ev[m] = Lf
    BY <1>a
  <2> QED BY <1>1, <1>5, <2>1 DEF Cr, Lf
<1>7. e \in 1..Len(full) /\ full[e] = Cr /\ \A i \in 1..(e - 1) : full[i] # Cr
  <2>1. e \in 1..(m + Len(tail)) /\ \A i \in 1..(e - 1) : i \in 1..m
    BY <1>1, <1>5
  <2>2. full[e] = ev[e] /\ \A i \in 1..(e - 1) : full[i] = ev[i]
    BY <1>2, <1>5, <2>1
  <2> QED BY <1>2, <1>5, <2>1, <2>2
<1>8. full[1] = k + 1 /\ k + 1 <= s /\ k \in Nat /\ ev[1] = k + 1
  <2>1. full[1] = k + 1 /\ k + 1 <= s
    BY <1>3, <1>7, SpelledFirst
  <2>2. k \in Nat /\ 1 \in 1..m
    BY <1>1, <1>3 DEF Spelled
  <2> QED BY <2>1, <2>2, <1>2
<1>9. q \in Seq(Int) /\ Len(q) = m - (e + 1) /\ \A i \in 1..(m - (e + 1)) : q[i] = ev[(e + 1) + i]
  <2>1. e + 1 \in 0..Len(ev) /\ (e + 1) + 1 = e + 2
    BY <1>1, <1>a, <1>5, <1>6
  <2>2. PICK n \in 0..Len(ev) : n = e + 1
    BY <2>1
  <2>3. /\ SubSeq(ev, n + 1, Len(ev)) \in Seq(Int) /\ Len(SubSeq(ev, n + 1, Len(ev))) = Len(ev) - n
        /\ \A i \in 1..(Len(ev) - n) : SubSeq(ev, n + 1, Len(ev))[i] = ev[n + i]
    BY <1>a, SplitSeq
  <2>4. q = SubSeq(ev, n + 1, Len(ev)) /\ m = Len(ev)
    BY <2>1, <2>2, <1>a
  <2> QED BY <2>2, <2>3, <2>4
<1> HIDE DEF q
<1>10. q = <<>> \/ q[Len(q)] = Lf
  <2> SUFFICES ASSUME q # <<>> PROVE q[Len(q)] = Lf
    OBVIOUS
  <2> DEFINE n == m - (e + 1)
  <2>1. n \in Int /\ n >= 0 /\ (e + 1) + n = m
    BY <1>1, <1>5, <1>6
  <2>2. Len(q) = n /\ n # 0
    BY <1>9
  <2> HIDE DEF n
  <2>3. n \in 1..n
    BY <2>1, <2>2
  <2>4. q[n] = ev[(e + 1) + n]
    BY <1>9, <2>3 DEF n
  <2> QED BY <2>1, <2>2, <2>4, <1>a
<1>11. /\ d \in Seq(Int) /\ Len(d) = Len(q) + Len(tail)
       /\ \A i \in 1..Len(q) : d[i] = q[i]
       /\ \A i \in 1..Len(tail) : d[Len(q) + i] = tail[i]
  <2>1. q \in Seq(Int) /\ tail \in Seq(Int)
    BY <1>9
  <2> QED BY <2>1, ConcatPlaces
<1> HIDE DEF d
<1>12. Len(d) = Len(full) - (e + 1)
  BY <1>1, <1>2, <1>5, <1>9, <1>11
<1>13. ASSUME NEW i \in 1..Len(d) PROVE d[i] = full[(e + 1) + i]
  <2>1. CASE i <= Len(q)
    <3>1. i \in 1..Len(q) /\ i \in 1..(m - (e + 1)) /\ (e + 1) + i \in 1..m
      BY <2>1, <1>1, <1>5, <1>9
    <3> QED BY <3>1, <1>2, <1>9, <1>11
  <2>2. CASE i > Len(q)
    <3> DEFINE j == i - Len(q)
    <3>1. j \in 1..Len(tail) /\ i = Len(q) + j /\ (e + 1) + i = m + j
      BY <2>2, <1>1, <1>5, <1>9, <1>11
    <3> HIDE DEF j
    <3> QED BY <3>1, <1>2, <1>11
  <2>3. i <= Len(q) \/ i > Len(q)
    BY <1>1, <1>5, <1>9
  <2> QED BY <2>1, <2>2, <2>3
<1>14. Spelled(d, k + 1, s)
  <2>1. d \in Seq(Int)
    BY <1>11
  <2> QED BY <1>3, <1>7, <1>12, <1>13, <2>1, SpelledRest
<1> QED BY <1>8, <1>9, <1>10, <1>14 DEF d, q, e

\* The next request becomes a task.
LEMMA StreamPush ==
  ASSUME NetInv, StreamInv, PushExpr, ConnAt(Sock) \notin cut
  PROVE  StreamInv'
<1>1. index \in DOMAIN clientSockets /\ spc = "push" /\ evalStr # <<>>
  BY DEF PushExpr, NetInv
<1>2. PICK d \in Conns : d = ConnAt(Sock) /\ Open(d)
  BY <1>1, ConnAtSock
<1> DEFINE ev == evalStr
           b == inStrings[fdOf[d]]
           w == wire[d]
           o == out[d]
           q == SubSeq(ev, SelectInSeq(ev, LAMBDA x : x = Cr) + 2, Len(ev))
<1>3. /\ taskQueue' = Append(taskQueue, Repl(d, ev[1], Label)) /\ evalStr' = q /\ spc' = "push"
      /\ UNCHANGED <<conn, fdOf, out, sent, wire, clientSockets, inStrings, index, tpc, task, done, cut>>
  BY <1>1, <1>2 DEF PushExpr, kernel, client, past
<1>4. ConnAt(Sock)' = d
  <2>1. ConnAt(Sock)' = ConnAt(Sock)
    BY <1>3 DEF ConnAt, Sock, Open
  <2> QED BY <1>2, <2>1
<1>5. /\ ev \in Seq(Int) /\ b \in Seq(Int) /\ w \in Seq(Int) /\ o \in Seq(Int)
      /\ ev[Len(ev)] = Lf /\ Bytes(d) = ((ev \o b) \o w) \o o
  <2>1. Pushed(d) = ev
    BY <1>1, <1>2 DEF Pushed
  <2>2. ev[Len(ev)] = Lf
    BY <1>1 DEF StreamInv, StreamType
  <2> QED BY <1>2, <2>1, <2>2, BytesParts DEF StreamInv
<1>6. Bytes(d)' = ((q \o b) \o w) \o o
  BY <1>3, <1>4 DEF Bytes
<1>7. PICK k \in Nat : k <= sent[d] /\ InProcess(d) = Run(0, k) /\ Waiting(d, k)
  BY <1>2 DEF StreamInv, InOrder
<1>8. PICK rest \in Seq(Int) : /\ Spelled(Bytes(d) \o rest, k, sent[d])
                               /\ conn[d] = "open" => rest = <<>>
  BY <1>2, <1>7 DEF Waiting
<1> DEFINE tail == ((b \o w) \o o) \o rest
<1> HIDE DEF b, w, o, q, ev
<1>9. tail \in Seq(Int) /\ Bytes(d) \o rest = ev \o tail
  <2>1. ev \in Seq(Int) /\ b \in Seq(Int) /\ w \in Seq(Int) /\ o \in Seq(Int) /\ rest \in Seq(Int)
    BY <1>5
  <2>2. tail \in Seq(Int) /\ (((ev \o b) \o w) \o o) \o rest = ev \o tail
    <3> HIDE DEF tail
    <3>1. ((b \o w) \o o) \o rest \in Seq(Int)
          /\ (((ev \o b) \o w) \o o) \o rest = ev \o (((b \o w) \o o) \o rest)
      <4>1. Behind(ev, b, w, o, rest)
        BY BehindFirst
      <4> QED BY <2>1, <4>1 DEF Behind
    <3> QED BY <3>1 DEF tail
  <2>3. Bytes(d) = ((ev \o b) \o w) \o o
    BY <1>5
  <2> QED BY <2>2, <2>3
<1>10. /\ k + 1 <= sent[d] /\ ev[1] = k + 1
       /\ q \in Seq(Int) /\ (q = <<>> \/ q[Len(q)] = Lf)
       /\ Spelled(q \o tail, k + 1, sent[d])
  <2>1. ev # <<>>
    BY <1>1 DEF ev
  <2> HIDE DEF tail
  <2>2. Spelled(ev \o tail, k, sent[d])
    BY <1>8, <1>9
  <2> QED BY <1>5, <1>9, <2>1, <2>2, PushedFirst DEF q
<1>11. Bytes(d)' \o rest = q \o tail
  <2>1. q \in Seq(Int) /\ b \in Seq(Int) /\ w \in Seq(Int) /\ o \in Seq(Int) /\ rest \in Seq(Int)
    BY <1>5, <1>10
  <2>2. (((q \o b) \o w) \o o) \o rest = q \o tail
    <3> HIDE DEF tail
    <3>1. (((q \o b) \o w) \o o) \o rest = q \o (((b \o w) \o o) \o rest)
      <4>1. Behind(q, b, w, o, rest)
        BY BehindFirst
      <4> QED BY <2>1, <4>1 DEF Behind
    <3> QED BY <3>1 DEF tail
  <2> QED BY <1>6, <2>2
<1>12. Numbered(Repl(d, k + 1, Label))
       /\ \A c : OfTask(c, Repl(d, k + 1, Label)) = IF c = d THEN <<k + 1>> ELSE <<>>
  <2>1. k + 1 \in Int
    OBVIOUS
  <2> DEFINE t == Repl(d, k + 1, Label)
  <2>2. t.type = "repl" /\ t.conn = d /\ t.n = k + 1
    BY DEF Repl
  <2> HIDE DEF t
  <2> QED BY <2>1, <2>2 DEF Numbered, OfTask, t
<1>13. ASSUME NEW c \in Conns
       PROVE  /\ IsSeq(taskQueue') /\ \A i \in DOMAIN taskQueue' : Numbered(taskQueue'[i])
              /\ InProcess(c) \in Seq(Int)
              /\ InProcess(c)' = InProcess(c) \o OfTask(c, Repl(d, k + 1, Label))
  <2>1. taskQueue' = Append(taskQueue, Repl(d, k + 1, Label)) /\ Numbered(task')
    BY <1>3, <1>10 DEF StreamInv, TaskInv
  <2>2. TaskInv /\ done'[c] = done[c] /\ OfTask(c, task') = OfTask(c, task)
    BY <1>3 DEF StreamInv
  <2> QED BY <1>12, <2>1, <2>2, InProcessAppend
<1>14. TaskInv'
  BY <1>3, <1>13 DEF StreamInv, TaskInv
<1>15. StreamType'
  BY <1>3, <1>10 DEF StreamInv, StreamType
<1>16. ASSUME NEW c \in Conns \ {d} PROVE InOrder(c)'
  <2>1. OfTask(c, Repl(d, k + 1, Label)) = <<>>
    BY <1>12
  <2>2. InProcess(c)' = InProcess(c)
    <3> DEFINE y == InProcess(c)
    <3>1. y \in Seq(Int) /\ InProcess(c)' = y \o <<>>
      BY <1>13, <2>1
    <3> HIDE DEF y
    <3>2. y \o <<>> = y
      BY <3>1
    <3> QED BY <3>1, <3>2 DEF y
  <2>3. Bytes(c)' = Bytes(c)
    BY <1>2, <1>3, <1>4 DEF Bytes
  <2> QED BY <1>3, <2>2, <2>3, OrderKept DEF StreamInv
<1>17. InOrder(d)'
  <2>1. Run(0, k + 1) = Run(0, k) \o <<k + 1>>
    <3>1. 0 \in Nat /\ 0 <= k
      OBVIOUS
    <3> QED BY <3>1, RunMore
  <2>2. InProcess(d)' = Run(0, k + 1)
    BY <1>7, <1>12, <1>13, <2>1
  <2>3. Spelled(Bytes(d)' \o rest, k + 1, sent'[d])
    BY <1>3, <1>10, <1>11
  <2>4. Waiting(d, k + 1)'
    <3>1. conn'[d] = conn[d] /\ out'[d] = out[d] /\ conn[d] \notin {"none", "backlog"}
      BY <1>2, <1>3 DEF Open
    <3> QED BY <1>7, <1>8, <2>3, <3>1 DEF Waiting
  <2>5. k + 1 \in Nat /\ k + 1 <= sent'[d]
    BY <1>3, <1>10
  <2> QED BY <2>2, <2>4, <2>5 DEF InOrder
<1> QED BY <1>14, <1>15, <1>16, <1>17 DEF StreamInv

\* Every step keeps the streams in order.
LEMMA StreamStep ==
  ASSUME NetInv, StreamInv, [Next]_vars
  PROVE  StreamInv'
<1>1. CASE UNCHANGED vars
  <2>1. UNCHANGED <<conn, fdOf, out, sent, wire, spc, clientSockets, inStrings, index, evalStr,
                    tpc, task, taskQueue, done, cut>>
    BY <1>1 DEF vars, kernel, client, server, past
  <2>2. TaskInv' /\ \A c \in Conns : InProcess(c)' = InProcess(c)
    BY <2>1, TasksKept DEF StreamInv
  <2>3. StreamType' /\ \A c \in Conns : Bytes(c)' = Bytes(c)
    BY <2>1 DEF StreamInv, StreamType, Bytes, ConnAt, Sock, Open
  <2>4. \A c \in Conns : InOrder(c)'
    BY <2>1, <2>2, <2>3, OrderKept DEF StreamInv
  <2> QED BY <2>2, <2>3, <2>4 DEF StreamInv
<1>2. CASE PushExpr
  <2>1. ConnAt(Sock) \in Conns
    BY <1>2, ConnAtSock DEF PushExpr, NetInv
  <2> QED BY <1>2, <2>1, StreamCut, StreamPush
<1>3. CASE Writers \/ \E c \in Conns, len \in BodyLens : WriteString(c, len)
  BY <1>3, StreamCut, StreamWrite DEF Writers
<1>4. CASE Next
  BY <1>2, <1>3, <1>4, StreamClients, StreamAccept, StreamLoop, StreamRecvEnd, StreamRecvError,
     StreamRecvBlock, StreamTasks DEF Next, Writers, Clients, Server
<1> QED BY <1>1, <1>4

(* No request of a connection is lost, doubled or overtaken between the    *)
(* client's writes, the blocks of recv, the expressions of evalStr and the *)
(* task queue, wherever a recv ends and whichever descriptors are used     *)
(* again, unless the server threw some of its text away: more than         *)
(* MaxReads reads brought no terminator.                                   *)
THEOREM RequestsConserved == Spec => []Conserved
<1>1. Init => NetInv /\ StreamInv
  BY NetInit, StreamInit
<1>2. PInv /\ StreamInv /\ [Next]_vars => StreamInv'
  BY StreamStep DEF PInv
<1>3. NetInv /\ StreamInv => Conserved
  <2> SUFFICES ASSUME NetInv, StreamInv, NEW c \in Conns \ cut
               PROVE  LET all == [i \in 1..sent[c] |-> i]
                      IN  IF conn[c] = "open" THEN InProcess(c) \o Requests(Bytes(c)) = all
                                              ELSE IsPrefix(InProcess(c), all)
    BY DEF Conserved
  <2>1. PICK k \in Nat : k <= sent[c] /\ InProcess(c) = Run(0, k) /\ Waiting(c, k)
    BY DEF StreamInv, InOrder
  <2>2. sent[c] \in Nat
    BY DEF StreamInv, StreamType
  <2>3. [i \in 1..sent[c] |-> i] = Run(0, sent[c])
    <3>1. sent[c] - 0 = sent[c] /\ \A i \in 1..sent[c] : 0 + i = i
      BY <2>2
    <3> QED BY <3>1 DEF Run
  <2>4. Run(0, k) \o Run(k, sent[c]) = Run(0, sent[c]) /\ IsPrefix(Run(0, k), Run(0, sent[c]))
    BY <2>1, <2>2, RunConcat
  <2>5. ASSUME conn[c] = "open" PROVE Requests(Bytes(c)) = Run(k, sent[c])
    <3>1. Open(c)
      BY <2>5 DEF Open
    <3>2. Spelled(Bytes(c) \o <<>>, k, sent[c])
      BY <2>1, <2>5, <3>1 DEF Waiting
    <3>3. Bytes(c) \in Seq(Int)
      <4> DEFINE a == Pushed(c)
                 b == inStrings[fdOf[c]]
                 w == wire[c]
                 o == out[c]
      <4>1. /\ a \in Seq(Int) /\ b \in Seq(Int) /\ w \in Seq(Int) /\ o \in Seq(Int)
            /\ Bytes(c) = ((a \o b) \o w) \o o
        BY <3>1, BytesParts DEF StreamInv
      <4> HIDE DEF a, b, w, o
      <4>2. a \o b \in Seq(Int)
        BY <4>1
      <4>3. (a \o b) \o w \in Seq(Int)
        BY <4>1, <4>2
      <4> QED BY <4>1, <4>3
    <3>4. Bytes(c) \o <<>> = Bytes(c)
      BY <3>3
    <3> QED BY <3>2, <3>4, SpelledRequests
  <2> QED BY <2>1, <2>3, <2>4, <2>5
<1>4. PInv => NetInv
  BY DEF PInv
<1> QED BY <1>1, <1>2, <1>3, <1>4, ProcessInvariance, PTL DEF Spec
=============================================================================
