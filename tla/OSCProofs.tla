----------------------------- MODULE OSCProofs -----------------------------
(***************************************************************************)
(* The UDP servers: a packet reaches the handler of the port it was sent   *)
(* to, in the process that started that server, and the address of the     *)
(* sender goes with it exactly when that process has asked for addresses;  *)
(* for any number of processes, servers and packets, and whatever the      *)
(* network does to them.  The format reads back the arguments that it      *)
(* writes, for any number of them.                                         *)
(*                                                                         *)
(* The TCP server: what process_osc_data gets of a stream are whole        *)
(* packets in their order, none is lost of a client whose packets do not   *)
(* meet in a block, and only a client that filled a block, sent something  *)
(* between packets or had packets dropped is waited for; for any number of *)
(* connections, any packets and any size of the buffer.                    *)
(***************************************************************************)
EXTENDS OSC, TLAPS, SequenceTheorems, FiniteSetTheorems, WellFoundedInduction

ServerType ==
    [thread : {"none", "running", "ended"}, proc : Procs \cup {None}, types : Types,
     netaddr : BOOLEAN, serverfd : BOOLEAN]

DType ==
    /\ current \in [Procs -> Servers \cup {None}]
    /\ starting \in [Procs -> Servers \cup {None}]
    /\ server \in [Servers -> ServerType]
    /\ asked \in [Procs -> BOOLEAN]

\* What SCHEME_MAP and osc->sc say of each other: a server has been started by
\* one process, which is the process of osc->sc from the end of registerScheme
\* on, and that process has a server in SCHEME_MAP from then on.
Registered ==
    /\ \A p, q \in Procs : current[p] = current[q] /\ current[p] # None => p = q
    /\ \A p \in Procs :
        starting[p] # None => starting[p] = current[p] /\ server[starting[p]].proc = None
    /\ \A s \in Servers :
        server[s].thread = "none" =>
            /\ server[s].proc = None /\ server[s].netaddr = FALSE
            /\ \A p \in Procs : current[p] # s
    /\ \A s \in Servers :
        server[s].proc # None => current[server[s].proc] # None

RInv == DType /\ Registered

\* The packets on their way were written by processArgs, or elsewhere.
Written ==
    /\ \A t \in sends :
        /\ t.proc \in Procs /\ t.to \in Servers /\ t.args \in Args
        /\ current[t.proc] # None
    /\ \A d \in net : d.to \in Servers
    /\ \A d \in net :
        d.args # <<>> =>
            /\ d.args \in Args /\ d.types \in Types
            /\ d.packet = Single(Message(d.to, d.args, d.types))

\* The calls that were made: the process and the handler are those of the
\* server of the port, and the arguments are what the packet holds.
Called ==
    \A i \in DOMAIN tasks :
        LET d == tasks[i].dgram
        IN  /\ d.to \in Servers /\ tasks[i].handler = d.to
            /\ tasks[i].proc = server[d.to].proc /\ tasks[i].proc # None
            /\ d.args # <<>> =>
                /\ d.args \in Args /\ d.types \in Types
                /\ tasks[i].args = Arguments(Message(d.to, d.args, d.types))

DInv == RInv /\ Written /\ Called

\* The option of the server that SCHEME_MAP names is what was asked for last.
Answered ==
    \A p \in Procs :
        /\ current[p] = None => asked[p] = FALSE
        /\ current[p] # None => server[current[p]].netaddr = asked[p]

----------------------------------------------------------------------------
\* The calls made of a packet are its first elements.
LEMMA CallsArePrefix ==
    ASSUME NEW m, NEW i \in DOMAIN CallsOf(Single(m))
    PROVE  CallsOf(Single(m))[i] = m
<1> DEFINE stop == {j \in DOMAIN <<m>> : <<m>>[j].nested \/ Bad(<<m>>[j])}
           n == IF stop = {} THEN Len(<<m>>)
                ELSE (CHOOSE j \in stop : \A k \in stop : j <= k) - 1
<1>1. CallsOf(Single(m)) = SubSeq(<<m>>, 1, n)
      BY DEF CallsOf, Single
<1>2. n \in {0, 1}
      <2>1. CASE stop = {}
            BY <2>1
      <2>2. CASE stop # {}
            <3>1. stop = {1}
                  BY <2>2
            <3>2. (CHOOSE j \in stop : \A k \in stop : j <= k) = 1
                  BY <3>1
            <3> QED BY <2>2, <3>2
      <2> QED BY <2>1, <2>2
<1> HIDE DEF n
<1> QED BY <1>1, <1>2

\* The TCP thread leaves the UDP servers alone.
LEMMA DatagramSteps ==
    ASSUME [Next]_vars
    PROVE  DatagramNext \/ UNCHANGED datagramVars
BY DEF Next, UDP, TCP, vars

\* No server has been started and nothing has been sent.
LEMMA InitEstablishesDInv == Init => DInv /\ Answered
<1> SUFFICES ASSUME Init PROVE DInv /\ Answered
    OBVIOUS
<1> USE DEF Init, DatagramInit
<1>1. NoServer \in ServerType
      BY DEF NoServer, ServerType, Types
<1>2. DType
      BY <1>1 DEF DType
<1>3. \A s \in Servers : server[s].proc = None /\ server[s].netaddr = FALSE
      BY DEF NoServer
<1>4. Registered
      BY <1>3, DatagramAssumption DEF Registered
<1>5. Written /\ Called /\ Answered
      BY DEF Written, Called, Answered
<1> QED BY <1>2, <1>4, <1>5 DEF DInv, RInv

----------------------------------------------------------------------------
\* The step lemmas have a conclusion in three parts: the registrations, the
\* packets and calls, and the answers of the options.

\* registerScheme up to the start of the thread: a server with default options
\* takes the place of the last one.
LEMMA StartServerStep ==
    ASSUME DInv, NEW p \in Procs, NEW s \in Servers, StartServer(p, s)
    PROVE  /\ DInv'
           /\ ~ MayReset /\ Answered => Answered'
<1> USE DatagramAssumption DEF StartServer, Free
<1>1. /\ current' = [current EXCEPT ![p] = s]
      /\ starting' = [starting EXCEPT ![p] = s]
      /\ starting[p] = None
      /\ server[s].thread = "none" /\ server[s].proc = None /\ server[s].netaddr = FALSE
      /\ \A q \in Procs : current[q] # s
      BY DEF DInv, RInv, Registered
<1>2. /\ server' \in [Servers -> ServerType]
      /\ server'[s].thread = "running" /\ server'[s].proc = None
      /\ server'[s].netaddr = FALSE
      /\ \A r \in Servers : r # s => server'[r] = server[r]
      BY <1>1 DEF DInv, RInv, DType, ServerType
<1>3. DType'
      BY <1>1, <1>2 DEF DInv, RInv, DType
<1>4. Registered'
      <2>1. \A q, r \in Procs : current'[q] = current'[r] /\ current'[q] # None => q = r
            BY <1>1 DEF DInv, RInv, DType, Registered
      <2>2. \A q \in Procs : starting'[q] # None =>
              starting'[q] = current'[q] /\ server'[starting'[q]].proc = None
            BY <1>1, <1>2 DEF DInv, RInv, DType, Registered
      <2>3. \A r \in Servers : server'[r].thread = "none" =>
              /\ server'[r].proc = None /\ server'[r].netaddr = FALSE
              /\ \A q \in Procs : current'[q] # r
            BY <1>1, <1>2 DEF DInv, RInv, DType, Registered
      <2>4. \A r \in Servers : server'[r].proc # None => current'[server'[r].proc] # None
            BY <1>1, <1>2 DEF DInv, RInv, DType, Registered, ServerType
      <2> QED BY <2>1, <2>2, <2>3, <2>4 DEF Registered
<1>5. Written'
      BY <1>1 DEF DInv, RInv, DType, Written
<1>6. Called'
      <2>1. \A r \in Servers : server'[r].proc = server[r].proc
            BY <1>1, <1>2
      <2>2. \A i \in DOMAIN tasks : server'[tasks[i].dgram.to].proc = server[tasks[i].dgram.to].proc
            BY <2>1 DEF DInv, Called
      <2> QED BY <2>2 DEF DInv, Called
<1>7. ~ MayReset /\ Answered => Answered'
      <2> SUFFICES ASSUME ~ MayReset, Answered PROVE Answered'
          OBVIOUS
      <2>1. asked' = asked /\ asked[p] = FALSE
            BY DEF DInv, RInv, DType
      <2>2. \A q \in Procs : q # p => current'[q] = current[q] /\ current[q] # s
            BY <1>1 DEF DInv, RInv, DType
      <2>3. current'[p] = s
            BY <1>1 DEF DInv, RInv, DType
      <2> SUFFICES ASSUME NEW q \in Procs
                   PROVE  /\ current'[q] = None => asked'[q] = FALSE
                          /\ current'[q] # None => server'[current'[q]].netaddr = asked'[q]
          BY DEF Answered
      <2>4. CASE q = p
            BY <1>2, <2>1, <2>3, <2>4
      <2>5. CASE q # p
            <3>1. current[q] # None => current[q] \in Servers
                  BY DEF DInv, RInv, DType
            <3> QED BY <1>2, <2>1, <2>2, <2>5, <3>1 DEF Answered
      <2> QED BY <2>4, <2>5
<1> QED BY <1>3, <1>4, <1>5, <1>6, <1>7 DEF DInv, RInv

\* The rest of registerScheme: no call has named the server before.
LEMMA StartServerEndStep ==
    ASSUME DInv, NEW p \in Procs, StartServerEnd(p)
    PROVE  /\ DInv'
           /\ Answered => Answered'
<1> USE DatagramAssumption DEF StartServerEnd
<1> DEFINE s == starting[p]
<1>1. s \in Servers /\ current[p] = s /\ server[s].proc = None /\ server[s].thread # "none"
      BY DEF DInv, RInv, DType, Registered
<1>2. /\ server' \in [Servers -> ServerType]
      /\ server'[s].thread = server[s].thread /\ server'[s].proc = p
      /\ server'[s].netaddr = server[s].netaddr
      /\ \A r \in Servers : r # s => server'[r] = server[r]
      BY <1>1 DEF DInv, RInv, DType, ServerType
<1>3. /\ current' = current /\ asked' = asked
      /\ starting'[p] = None
      /\ \A q \in Procs : q # p => starting'[q] = starting[q]
      /\ starting' \in [Procs -> Servers \cup {None}]
      BY DEF DInv, RInv, DType
<1>4. DType'
      BY <1>2, <1>3 DEF DInv, RInv, DType
<1>5. Registered'
      <2>1. \A q \in Procs : starting'[q] # None =>
              starting'[q] = current'[q] /\ server'[starting'[q]].proc = None
            <3> SUFFICES ASSUME NEW q \in Procs, starting'[q] # None
                         PROVE  starting'[q] = current'[q] /\ server'[starting'[q]].proc = None
                OBVIOUS
            <3>1. q # p /\ starting'[q] = starting[q]
                  BY <1>3
            <3>2. starting[q] = current[q] /\ server[starting[q]].proc = None /\ starting[q] # s
                  BY <1>1, <3>1 DEF DInv, RInv, Registered
            <3>3. starting[q] \in Servers
                  BY <3>1 DEF DInv, RInv, DType
            <3> QED BY <1>2, <1>3, <3>1, <3>2, <3>3
      <2>2. \A r \in Servers : server'[r].thread = "none" =>
              /\ server'[r].proc = None /\ server'[r].netaddr = FALSE
              /\ \A q \in Procs : current'[q] # r
            BY <1>1, <1>2, <1>3 DEF DInv, RInv, Registered
      <2>3. \A r \in Servers : server'[r].proc # None => current'[server'[r].proc] # None
            BY <1>1, <1>2, <1>3 DEF DInv, RInv, Registered
      <2> QED BY <1>3, <2>1, <2>2, <2>3 DEF DInv, RInv, Registered
<1>6. Written'
      BY <1>3 DEF DInv, Written
<1>7. Called'
      <2>1. \A i \in DOMAIN tasks :
              /\ tasks[i].dgram.to \in Servers /\ tasks[i].dgram.to # s
              /\ server'[tasks[i].dgram.to] = server[tasks[i].dgram.to]
            BY <1>1, <1>2 DEF DInv, Called
      <2> QED BY <2>1 DEF DInv, Called
<1>8. Answered => Answered'
      BY <1>1, <1>2, <1>3 DEF DInv, RInv, DType, Answered
<1> QED BY <1>4, <1>5, <1>6, <1>7, <1>8 DEF DInv, RInv

\* An option is set in the server that SCHEME_MAP names.
LEMMA SetOptionStep ==
    ASSUME DInv, NEW p \in Procs, NEW f, NEW v \in BOOLEAN, SetOption(p, f, v),
           current[p] # None =>
               /\ f \in ServerType
               /\ f.thread = server[current[p]].thread /\ f.proc = server[current[p]].proc
    PROVE  /\ DInv'
           /\ Answered /\ (current[p] # None => f.netaddr = v) => Answered'
<1> USE DatagramAssumption DEF SetOption, Free
<1>1. CASE current[p] = None
      <2>1. UNCHANGED <<current, starting, server, asked, sends, net, tasks>>
            BY <1>1
      <2> QED BY <2>1 DEF DInv, RInv, DType, Registered, Written, Called, Answered
<1>2. CASE current[p] # None
      <2> DEFINE s == current[p]
      <2>1. s \in Servers /\ server[s].thread # "none"
            BY <1>2 DEF DInv, RInv, DType, Registered
      <2>2. /\ server' \in [Servers -> ServerType]
            /\ server'[s] = f
            /\ \A r \in Servers : r # s => server'[r] = server[r]
            BY <1>2, <2>1 DEF DInv, RInv, DType
      <2>3. \A r \in Servers : /\ server'[r].thread = server[r].thread
                               /\ server'[r].proc = server[r].proc
            BY <1>2, <2>1, <2>2
      <2>4. /\ UNCHANGED <<current, starting, sends, net, tasks>>
            /\ asked' \in [Procs -> BOOLEAN]
            /\ asked'[p] = v
            /\ \A q \in Procs : q # p => asked'[q] = asked[q]
            BY <1>2 DEF DInv, RInv, DType
      <2>5. DType'
            BY <2>2, <2>4 DEF DInv, RInv, DType
      <2>6. Registered'
            <3>1. \A q \in Procs : starting'[q] # None =>
                    starting'[q] = current'[q] /\ server'[starting'[q]].proc = None
                  BY <2>3, <2>4 DEF DInv, RInv, DType, Registered
            <3>2. \A r \in Servers : server'[r].thread = "none" =>
                    /\ server'[r].proc = None /\ server'[r].netaddr = FALSE
                    /\ \A q \in Procs : current'[q] # r
                  BY <2>1, <2>2, <2>3, <2>4 DEF DInv, RInv, Registered
            <3>3. \A r \in Servers : server'[r].proc # None => current'[server'[r].proc] # None
                  BY <2>3, <2>4 DEF DInv, RInv, Registered
            <3> QED BY <2>4, <3>1, <3>2, <3>3 DEF DInv, RInv, Registered
      <2>7. Written'
            BY <2>4 DEF DInv, Written
      <2>8. Called'
            BY <2>3, <2>4 DEF DInv, Called
      <2>9. Answered /\ (current[p] # None => f.netaddr = v) => Answered'
            <3> SUFFICES ASSUME Answered, f.netaddr = v, NEW q \in Procs
                         PROVE  /\ current'[q] = None => asked'[q] = FALSE
                                /\ current'[q] # None => server'[current'[q]].netaddr = asked'[q]
                BY <1>2 DEF Answered
            <3>1. CASE q = p
                  BY <1>2, <2>2, <2>4, <3>1
            <3>2. CASE q # p
                  <4>1. asked'[q] = asked[q] /\ current'[q] = current[q]
                        BY <2>4, <3>2
                  <4>2. current[q] # None => current[q] \in Servers /\ current[q] # s
                        BY <1>2, <3>2 DEF DInv, RInv, DType, Registered
                  <4> QED BY <2>2, <4>1, <4>2 DEF Answered
            <3> QED BY <3>1, <3>2
      <2> QED BY <2>5, <2>6, <2>7, <2>8, <2>9 DEF DInv, RInv
<1> QED BY <1>1, <1>2

\* The options one by one.
LEMMA OptionsStep ==
    ASSUME DInv, NEW p \in Procs,
           \/ \E types \in Types : SetType(p, types)
           \/ \E b \in BOOLEAN : SendFromServerSocket(p, b) \/ SetMsgIncludeNetaddr(p, b)
    PROVE  DInv' /\ (Answered => Answered')
<1>1. current[p] # None => server[current[p]] \in ServerType
      BY DEF DInv, RInv, DType
<1>2. asked[p] \in BOOLEAN
      BY DEF DInv, RInv, DType
<1>3. Answered /\ current[p] # None => server[current[p]].netaddr = asked[p]
      BY DEF Answered
<1>4. ASSUME NEW types \in Types, SetType(p, types)
      PROVE  DInv' /\ (Answered => Answered')
      <2> DEFINE f == [server[current[p]] EXCEPT !.types = types]
      <2>1. current[p] # None =>
              /\ f \in ServerType
              /\ f.thread = server[current[p]].thread /\ f.proc = server[current[p]].proc
              /\ f.netaddr = server[current[p]].netaddr
            BY <1>1 DEF ServerType
      <2>2. SetOption(p, f, asked[p])
            BY <1>4 DEF SetType
      <2> HIDE DEF f
      <2> QED BY <1>2, <1>3, <2>1, <2>2, SetOptionStep
<1>5. ASSUME NEW b \in BOOLEAN, SendFromServerSocket(p, b)
      PROVE  DInv' /\ (Answered => Answered')
      <2> DEFINE f == [server[current[p]] EXCEPT !.serverfd = b]
      <2>1. current[p] # None =>
              /\ f \in ServerType
              /\ f.thread = server[current[p]].thread /\ f.proc = server[current[p]].proc
              /\ f.netaddr = server[current[p]].netaddr
            BY <1>1 DEF ServerType
      <2>2. SetOption(p, f, asked[p])
            BY <1>5 DEF SendFromServerSocket
      <2> HIDE DEF f
      <2> QED BY <1>2, <1>3, <2>1, <2>2, SetOptionStep
<1>6. ASSUME NEW b \in BOOLEAN, SetMsgIncludeNetaddr(p, b)
      PROVE  DInv' /\ (Answered => Answered')
      <2> DEFINE f == [server[current[p]] EXCEPT !.netaddr = b]
      <2>1. current[p] # None =>
              /\ f \in ServerType
              /\ f.thread = server[current[p]].thread /\ f.proc = server[current[p]].proc
              /\ f.netaddr = b
            BY <1>1 DEF ServerType
      <2>2. SetOption(p, f, b)
            BY <1>6 DEF SetMsgIncludeNetaddr
      <2> HIDE DEF f
      <2> QED BY <2>1, <2>2, SetOptionStep
<1> QED BY <1>4, <1>5, <1>6

\* Steps that leave the servers and the calls as they are keep all but Written.
LEMMA RegistrationsKept ==
    ASSUME DInv, UNCHANGED <<current, starting, server, tasks, asked>>
    PROVE  RInv' /\ Called' /\ (Answered => Answered')
BY DEF DInv, RInv, DType, Registered, Called, Answered

\* Sending: io:osc:send, sendOSC and other programs.
LEMMA SendStep ==
    ASSUME DInv,
           \/ \E p \in Procs, s \in Servers, args \in Args : Send(p, s, args)
           \/ \E task \in sends : SendOSC(task)
           \/ \E s \in Servers, packet \in Foreign : ForeignSend(s, packet)
    PROVE  DInv' /\ (Answered => Answered')
<1>1. ASSUME NEW p \in Procs, NEW s \in Servers, NEW args \in Args, Send(p, s, args)
      PROVE  DInv' /\ (Answered => Answered')
      <2>1. RInv' /\ Called' /\ (Answered => Answered')
            BY <1>1, RegistrationsKept DEF Send
      <2>2. Written'
            BY <1>1 DEF Send, DInv, Written
      <2> QED BY <2>1, <2>2 DEF DInv
<1>2. ASSUME NEW task \in sends, SendOSC(task)
      PROVE  DInv' /\ (Answered => Answered')
      <2>1. RInv' /\ Called' /\ (Answered => Answered')
            BY <1>2, RegistrationsKept DEF SendOSC
      <2> DEFINE own == server[current[task.proc]]
                 from == IF own.serverfd THEN current[task.proc] ELSE None
                 d == Packet(task.to, from, Single(Message(task.to, task.args, own.types)),
                             task.args, own.types, task.id)
      <2>2. task.proc \in Procs /\ task.to \in Servers /\ task.args \in Args
            BY <1>2 DEF DInv, Written
      <2>3. current[task.proc] \in Servers
            BY <1>2, <2>2 DEF DInv, RInv, DType, Written
      <2>4. own.types \in Types
            BY <2>3 DEF DInv, RInv, DType, ServerType
      <2>5. sends' = sends \ {task} /\ net' = net \cup {d} /\ current' = current
            BY <1>2 DEF SendOSC
      <2>6. /\ d.to \in Servers /\ d.args \in Args /\ d.types \in Types
            /\ d.packet = Single(Message(d.to, d.args, d.types))
            BY <2>2, <2>4 DEF Packet
      <2> HIDE DEF d
      <2>7. Written'
            BY <2>5, <2>6 DEF DInv, Written
      <2> QED BY <2>1, <2>7 DEF DInv
<1>3. ASSUME NEW s \in Servers, NEW packet \in Foreign, ForeignSend(s, packet)
      PROVE  DInv' /\ (Answered => Answered')
      <2>1. RInv' /\ Called' /\ (Answered => Answered')
            BY <1>3, RegistrationsKept DEF ForeignSend
      <2> DEFINE d == Packet(s, None, packet, <<>>, NoServer.types, sent)
      <2>2. d.to = s /\ d.args = <<>>
            BY DEF Packet
      <2>3. sends' = sends /\ net' = net \cup {d} /\ current' = current
            BY <1>3 DEF ForeignSend
      <2> HIDE DEF d
      <2>4. Written'
            BY <2>2, <2>3 DEF DInv, Written
      <2> QED BY <2>1, <2>4 DEF DInv
<1> QED BY <1>1, <1>2, <1>3

\* osc_mesg_callback.
LEMMA ReceiveStep ==
    ASSUME DInv, NEW d \in net, NEW again \in BOOLEAN, Receive(d.to, d, again)
    PROVE  DInv' /\ (Answered => Answered')
<1> USE DatagramAssumption DEF Receive
<1> DEFINE s == d.to
<1>1. s \in Servers
      BY DEF DInv, Written
<1>2. Written'
      BY DEF DInv, Written
<1>3. CASE server[s].proc = None \/ ReadThrows(d.packet)
      BY <1>2, <1>3, RegistrationsKept DEF DInv
<1>4. CASE ~ (server[s].proc = None \/ ReadThrows(d.packet))
      <2>1. /\ server' \in [Servers -> ServerType]
            /\ \A r \in Servers : /\ server'[r].proc = server[r].proc
                                  /\ server'[r].netaddr = server[r].netaddr
                                  /\ server'[r].thread = "none" => server[r].thread = "none"
            BY <1>1, <1>4 DEF DInv, RInv, DType, ServerType
      <2>2. UNCHANGED <<current, starting, asked>>
            OBVIOUS
      <2>3. DType'
            BY <2>1, <2>2 DEF DInv, RInv, DType
      <2>4. Registered'
            <3>1. \A q \in Procs : starting'[q] # None =>
                    starting'[q] = current'[q] /\ server'[starting'[q]].proc = None
                  BY <2>1, <2>2 DEF DInv, RInv, DType, Registered
            <3>2. \A r \in Servers : server'[r].thread = "none" =>
                    /\ server'[r].proc = None /\ server'[r].netaddr = FALSE
                    /\ \A q \in Procs : current'[q] # r
                  BY <2>1, <2>2 DEF DInv, RInv, Registered
            <3>3. \A r \in Servers : server'[r].proc # None => current'[server'[r].proc] # None
                  BY <2>1, <2>2 DEF DInv, RInv, Registered
            <3> QED BY <2>2, <3>1, <3>2, <3>3 DEF DInv, RInv, Registered
      <2>5. Called'
            <3> SUFFICES ASSUME NEW i \in DOMAIN tasks'
                         PROVE  LET e == tasks'[i].dgram
                                IN  /\ e.to \in Servers /\ tasks'[i].handler = e.to
                                    /\ tasks'[i].proc = server'[e.to].proc
                                    /\ tasks'[i].proc # None
                                    /\ e.args # <<>> =>
                                        /\ e.args \in Args /\ e.types \in Types
                                        /\ tasks'[i].args =
                                             Arguments(Message(e.to, e.args, e.types))
                BY DEF Called
            <3> DEFINE m == CallsOf(d.packet)[i]
            <3>1. i \in DOMAIN CallsOf(d.packet) /\ tasks'[i] = Task(s, d, m)
                  BY <1>4
            <3>2. /\ tasks'[i].proc = server[s].proc /\ tasks'[i].handler = s
                  /\ tasks'[i].dgram = d /\ tasks'[i].args = Arguments(m)
                  BY <3>1 DEF Task, Handler
            <3>3. ASSUME d.args # <<>>
                  PROVE  /\ d.args \in Args /\ d.types \in Types
                         /\ m = Message(s, d.args, d.types)
                  <4>1. /\ d.args \in Args /\ d.types \in Types
                        /\ d.packet = Single(Message(s, d.args, d.types))
                        BY <3>3 DEF DInv, Written
                  <4>2. m = Message(s, d.args, d.types)
                        BY <3>1, <4>1, CallsArePrefix
                  <4> QED BY <4>1, <4>2
            <3> QED BY <1>1, <1>4, <2>1, <3>2, <3>3
      <2>6. Answered => Answered'
            BY <2>1, <2>2 DEF DInv, RInv, DType, Answered
      <2> QED BY <1>2, <2>3, <2>4, <2>5, <2>6 DEF DInv, RInv
<1> QED BY <1>3, <1>4

----------------------------------------------------------------------------
\* A step of either server keeps the registrations, packets and calls right.
LEMMA StepKeepsDInv ==
    ASSUME DInv, [Next]_vars
    PROVE  /\ DInv'
           /\ ~ MayReset /\ Answered => Answered'
<1>1. CASE UNCHANGED datagramVars
      BY <1>1, RegistrationsKept DEF datagramVars, DInv, Written
<1>2. CASE DatagramNext
      BY <1>2, StartServerStep, StartServerEndStep, OptionsStep, SendStep, ReceiveStep
         DEF DatagramNext
<1> QED BY <1>1, <1>2, DatagramSteps

----------------------------------------------------------------------------
(* The format. *)

\* Induction over the natural numbers, of a set.
LEMMA NatSetInduction ==
  ASSUME NEW S, 0 \in S, \A n \in Nat : n \in S => n + 1 \in S
  PROVE  Nat \subseteq S
<1> DEFINE R == {ss \in Nat \X Nat : ss[1] < ss[2]}
           T == Nat \ S
<1>1. IsWellFoundedOn(R, Nat) BY NatLessThanWellFounded DEF OpToRel
<1> SUFFICES ASSUME T # {} PROVE FALSE OBVIOUS
<1>2. T \subseteq Nat OBVIOUS
<1> HIDE DEF R, T
<1>3. PICK x \in T : \A y \in T : ~ (<<y, x>> \in R) BY <1>1, <1>2, WFMin
<1>4. x \in Nat /\ x # 0 /\ x - 1 \in Nat BY <1>3 DEF T
<1>5. x - 1 \in T
  <2>1. (x - 1) + 1 = x BY <1>4
  <2>2. x \notin S BY <1>3 DEF T
  <2> QED BY <1>4, <2>1, <2>2 DEF T
<1>6. <<x - 1, x>> \in R BY <1>4 DEF R
<1> QED BY <1>3, <1>5, <1>6

\* FlattenSeq, as the last of its partial results.
Partial(F, seqs, X) ==
    /\ F \in [0 .. Len(seqs) -> Seq(X)] /\ F[0] = <<>>
    /\ \A i \in 1 .. Len(seqs) : F[i] = F[i - 1] \o seqs[i]

\* FlattenSeq has such partial results, whatever it flattens.
LEMMA FlattenPartial ==
  ASSUME NEW X, NEW seqs \in Seq(Seq(X))
  PROVE  \E F : Partial(F, seqs, X) /\ FlattenSeq(seqs) = F[Len(seqs)]
<1> DEFINE n == Len(seqs)
           Defines(g, m) == g = [i \in 1 .. m |-> IF i = 1 THEN seqs[i] ELSE g[i - 1] \o seqs[i]]
           Good(m) == \E g \in [1 .. m -> Seq(X)] : Defines(g, m)
           S == {m \in Nat : m <= n => Good(m)}
<1>1. n \in Nat /\ \A i \in 1 .. n : seqs[i] \in Seq(X) OBVIOUS
<1>2. CASE n = 0
  <2> DEFINE F == [i \in 0 .. 0 |-> <<>>]
  <2>1. seqs = <<>> /\ FlattenSeq(seqs) = seqs BY <1>2 DEF FlattenSeq
  <2>2. 0 .. n = 0 .. 0 /\ 0 \in 0 .. 0 /\ <<>> \in Seq(X) /\ 1 .. n = {} BY <1>2
  <2>3. Partial(F, seqs, X) BY <2>2 DEF Partial
  <2>4. F[n] = <<>> BY <1>2
  <2> QED BY <2>1, <2>3, <2>4
<1>3. CASE n # 0
  <2>1. 0 \in S
    <3>1. 1 .. 0 = {} OBVIOUS
    <3> DEFINE g == [i \in 1 .. 0 |-> <<>>]
    <3>2. g \in [1 .. 0 -> Seq(X)] /\ Defines(g, 0) BY <3>1
    <3> QED BY <3>2
  <2>2. ASSUME NEW m \in Nat, m \in S PROVE m + 1 \in S
    <3> SUFFICES ASSUME m + 1 <= n PROVE Good(m + 1)
      <4> HIDE DEF Good
      <4> QED OBVIOUS
    <3>1. PICK g \in [1 .. m -> Seq(X)] : Defines(g, m)
      <4>1. Good(m)
        <5> HIDE DEF Good
        <5> QED BY <2>2, <1>1
      <4> QED BY <4>1
    <3> DEFINE k == [i \in 1 .. m + 1 |-> IF i = m + 1
                                          THEN IF m = 0 THEN seqs[1] ELSE g[m] \o seqs[m + 1]
                                          ELSE g[i]]
    <3>2. ASSUME NEW i \in 1 .. m + 1
          PROVE  k[i] = (IF i = 1 THEN seqs[i] ELSE k[i - 1] \o seqs[i]) /\ k[i] \in Seq(X)
      <4>1. CASE i = m + 1 /\ m = 0 BY <4>1, <1>1, <1>3
      <4>2. CASE i = m + 1 /\ m # 0
        <5>1. i # 1 /\ i - 1 = m /\ m \in 1 .. m /\ m \in 1 .. m + 1 /\ m # m + 1 BY <4>2
        <5>2. k[i - 1] = g[m] /\ k[i] = g[m] \o seqs[m + 1] BY <4>2, <5>1
        <5>3. g[m] \in Seq(X) /\ seqs[m + 1] \in Seq(X) BY <5>1, <1>1
        <5> QED BY <4>2, <5>1, <5>2, <5>3
      <4>3. CASE i # m + 1
        <5>1. i \in 1 .. m BY <4>3
        <5>2. k[i] = g[i] /\ g[i] \in Seq(X) BY <4>3, <5>1
        <5>3. g[i] = IF i = 1 THEN seqs[i] ELSE g[i - 1] \o seqs[i] BY <3>1, <5>1
        <5>4. i # 1 => i - 1 \in 1 .. m /\ i - 1 \in 1 .. m + 1 /\ i - 1 # m + 1 BY <5>1
        <5>5. i # 1 => k[i - 1] = g[i - 1] BY <5>4
        <5> QED BY <5>2, <5>3, <5>5
      <4> QED BY <4>1, <4>2, <4>3
    <3>3. k = [i \in 1 .. m + 1 |-> k[i]] OBVIOUS
    <3> HIDE DEF k
    <3>4. k \in [1 .. m + 1 -> Seq(X)] BY <3>2, <3>3
    <3>5. Defines(k, m + 1) BY <3>2, <3>3
    <3> QED BY <3>4, <3>5
  <2>3. n \in S
    <3> HIDE DEF S
    <3>1. Nat \subseteq S BY <2>1, <2>2, NatSetInduction
    <3> QED BY <3>1, <1>1
  <2>4. PICK g \in [1 .. n -> Seq(X)] : Defines(g, n)
    <3>1. Good(n)
      <4> HIDE DEF Good
      <4> QED BY <2>3, <1>1
    <3> QED BY <3>1
  <2> DEFINE f == CHOOSE h : h = [i \in 1 .. n |-> IF i = 1 THEN seqs[i] ELSE h[i - 1] \o seqs[i]]
  <2>5. FlattenSeq(seqs) = f[n] BY <1>3 DEF FlattenSeq
  <2>6. Defines(f, n)
    <3>1. \E h : h = [i \in 1 .. n |-> IF i = 1 THEN seqs[i] ELSE h[i - 1] \o seqs[i]] BY <2>4
    <3> QED BY <3>1
  <2> HIDE DEF f
  <2>7. \A i \in 1 .. n : f[i] = IF i = 1 THEN seqs[i] ELSE f[i - 1] \o seqs[i] BY <2>6
  <2>8. \A i \in 1 .. n : f[i] \in Seq(X)
    <3> DEFINE U == {m \in Nat : m \in 1 .. n => f[m] \in Seq(X)}
    <3>1. 0 \in U OBVIOUS
    <3>2. ASSUME NEW m \in Nat, m \in U PROVE m + 1 \in U
      <4> SUFFICES ASSUME m + 1 \in 1 .. n PROVE f[m + 1] \in Seq(X) OBVIOUS
      <4>1. CASE m = 0 BY <4>1, <2>7, <1>1
      <4>2. CASE m # 0
        <5>1. m \in 1 .. n /\ m + 1 # 1 /\ (m + 1) - 1 = m BY <4>2, <1>1
        <5>2. f[m] \in Seq(X) BY <3>2, <5>1
        <5>3. f[m + 1] = f[m] \o seqs[m + 1] BY <2>7, <5>1
        <5> QED BY <5>2, <5>3, <1>1
      <4> QED BY <4>1, <4>2
    <3> HIDE DEF U
    <3>3. Nat \subseteq U BY <3>1, <3>2, NatSetInduction
    <3> QED BY <3>3, <1>1 DEF U
  <2> DEFINE F == [i \in 0 .. n |-> IF i = 0 THEN <<>> ELSE f[i]]
  <2>9. \A i \in 0 .. n : i # 0 => i \in 1 .. n BY <1>1
  <2>10. F \in [0 .. n -> Seq(X)] BY <2>8, <2>9
  <2>11. F[0] = <<>> BY <1>1
  <2>12. ASSUME NEW i \in 1 .. n PROVE F[i] = F[i - 1] \o seqs[i]
    <3>1. F[i] = f[i] /\ seqs[i] \in Seq(X) BY <1>1
    <3>2. CASE i = 1
      <4>1. i - 1 = 0 /\ <<>> \o seqs[i] = seqs[i] BY <3>1, <3>2
      <4> QED BY <3>1, <3>2, <4>1, <2>7, <2>11
    <3>3. CASE i # 1
      <4>1. i - 1 \in 0 .. n /\ i - 1 # 0 BY <3>3, <1>1
      <4>2. F[i - 1] = f[i - 1] BY <4>1
      <4> QED BY <3>1, <3>3, <4>2, <2>7
    <3> QED BY <3>2, <3>3
  <2>13. F[n] = f[n] BY <1>1, <1>3
  <2> HIDE DEF F
  <2> QED BY <2>5, <2>10, <2>11, <2>12, <2>13 DEF Partial
<1> QED BY <1>2, <1>3

\* What a concatenation consists of.
LEMMA ConcatParts ==
  ASSUME NEW X, NEW s \in Seq(X), NEW t \in Seq(X)
  PROVE  /\ Len(s) \in Nat /\ Len(t) \in Nat /\ Len(s \o t) = Len(s) + Len(t)
         /\ \A k \in 1 .. Len(s) : (s \o t)[k] = s[k]
         /\ \A k \in 1 .. Len(t) : (s \o t)[Len(s) + k] = t[k]
OBVIOUS

\* A partial result is where it is in the whole, and what follows it begins
\* with the next sequence.
LEMMA PartialPrefix ==
  ASSUME NEW X, NEW seqs \in Seq(Seq(X)), NEW F, Partial(F, seqs, X)
  PROVE  \A i \in 0 .. Len(seqs) :
             /\ Len(F[i]) <= Len(F[Len(seqs)])
             /\ \A k \in 1 .. Len(F[i]) : F[Len(seqs)][k] = F[i][k]
<1> DEFINE n == Len(seqs)
           Good(i) == /\ Len(F[i]) <= Len(F[n])
                      /\ \A k \in 1 .. Len(F[i]) : F[n][k] = F[i][k]
           S == {m \in Nat : m <= n => Good(n - m)}
<1>1. /\ n \in Nat /\ \A i \in 0 .. n : F[i] \in Seq(X)
      /\ \A i \in 1 .. n : seqs[i] \in Seq(X) /\ F[i] = F[i - 1] \o seqs[i]
  <2>1. n \in Nat /\ \A i \in 1 .. n : seqs[i] \in Seq(X) OBVIOUS
  <2>2. \A i \in 0 .. n : F[i] \in Seq(X) BY DEF Partial
  <2>3. \A i \in 1 .. n : F[i] = F[i - 1] \o seqs[i] BY DEF Partial
  <2> QED BY <2>1, <2>2, <2>3
<1>2. 0 \in S
  <2>1. n - 0 = n /\ n \in 0 .. n BY <1>1
  <2>2. Len(F[n]) \in Nat BY <1>1, <2>1
  <2>3. Good(n - 0) BY <2>1, <2>2
  <2> HIDE DEF Good
  <2> QED BY <2>3
<1>3. ASSUME NEW m \in Nat, m \in S PROVE m + 1 \in S
  <2> SUFFICES ASSUME m + 1 <= n PROVE Good(n - (m + 1))
    <3> HIDE DEF Good
    <3> QED OBVIOUS
  <2>1. Good(n - m)
    <3> HIDE DEF Good
    <3> QED BY <1>3, <1>1
  <2>2. PICK i : i = n - m OBVIOUS
  <2>3. i \in 1 .. n /\ n - (m + 1) = i - 1 /\ i - 1 \in 0 .. n /\ i \in 0 .. n BY <2>2, <1>1
  <2>4. F[i] = F[i - 1] \o seqs[i] /\ F[i - 1] \in Seq(X) /\ seqs[i] \in Seq(X) BY <2>3, <1>1
  <2>5. /\ Len(F[i]) = Len(F[i - 1]) + Len(seqs[i]) /\ Len(F[i - 1]) \in Nat /\ Len(seqs[i]) \in Nat
        /\ \A k \in 1 .. Len(F[i - 1]) : F[i][k] = F[i - 1][k]
    <3>1. PICK s, t : s = F[i - 1] /\ t = seqs[i] OBVIOUS
    <3>2. s \in Seq(X) /\ t \in Seq(X) /\ F[i] = s \o t BY <3>1, <2>4
    <3>3. /\ Len(s) \in Nat /\ Len(t) \in Nat /\ Len(s \o t) = Len(s) + Len(t)
          /\ \A k \in 1 .. Len(s) : (s \o t)[k] = s[k]
      BY <3>2, ConcatParts
    <3> QED BY <3>1, <3>2, <3>3
  <2>6. Good(i) BY <2>1, <2>2
  <2>7. F[n] \in Seq(X) /\ Len(F[n]) \in Nat
    <3>1. n \in 0 .. n BY <1>1
    <3>2. F[n] \in Seq(X) BY <3>1, <1>1
    <3>3. \A s \in Seq(X) : Len(s) \in Nat OBVIOUS
    <3> QED BY <3>2, <3>3
  <2>8. Good(i - 1)
    <3>1. PICK p, q, r, b : p = F[i - 1] /\ q = F[i] /\ r = F[n] /\ b = Len(seqs[i]) OBVIOUS
    <3>2. /\ Len(q) = Len(p) + b /\ Len(p) \in Nat /\ b \in Nat
          /\ \A k \in 1 .. Len(p) : q[k] = p[k]
      BY <3>1, <2>5
    <3>3. Len(q) <= Len(r) /\ \A k \in 1 .. Len(q) : r[k] = q[k]
      BY <3>1, <2>6
    <3>4. Len(r) \in Nat BY <3>1, <2>7
    <3>5. Len(p) <= Len(r) /\ \A k \in 1 .. Len(p) : r[k] = p[k]
      <4> HIDE <3>1
      <4>1. Len(q) \in Nat /\ Len(p) <= Len(q) BY <3>2
      <4>2. \A k \in 1 .. Len(p) : k \in 1 .. Len(q) BY <4>1, <3>2
      <4>3. Len(p) <= Len(r) BY <3>2, <3>3, <3>4, <4>1
      <4>4. \A k \in 1 .. Len(p) : r[k] = p[k] BY <3>2, <3>3, <4>2, Zenon
      <4> QED BY <4>3, <4>4
    <3> QED BY <3>1, <3>5
  <2> QED BY <2>3, <2>8
<1>4. Nat \subseteq S
  <2> HIDE DEF S
  <2> QED BY <1>2, <1>3, NatSetInduction
<1>5. ASSUME NEW i \in 0 .. n PROVE Good(i)
  <2>1. n - i \in Nat /\ n - i <= n /\ n - (n - i) = i BY <1>1
  <2>2. Good(n - (n - i))
    <3> HIDE DEF Good
    <3> QED BY <2>1, <1>4
  <2> QED BY <2>1, <2>2
<1> QED BY <1>5

\* The elements of s are those of whole from the place a on, up to b.
LiesAt(s, whole, a, b) ==
    /\ a \in Nat /\ Len(s) \in Nat /\ Len(whole) \in Nat
    /\ b = a + Len(s) /\ b <= Len(whole)
    /\ \A k \in 1 .. Len(s) : whole[a + k] = s[k]

\* What is added to a partial result lies behind it in the whole.
LEMMA PartialNext ==
  ASSUME NEW X, NEW seqs \in Seq(Seq(X)), NEW F, Partial(F, seqs, X), NEW i \in 1 .. Len(seqs),
         NEW whole, whole = F[Len(seqs)], NEW a, a = Len(F[i - 1])
  PROVE  LiesAt(seqs[i], whole, a, Len(F[i]))
<1>1. /\ i - 1 \in 0 .. Len(seqs) /\ i \in 0 .. Len(seqs) /\ Len(seqs) \in 0 .. Len(seqs)
      /\ F[i - 1] \in Seq(X) /\ seqs[i] \in Seq(X) /\ whole \in Seq(X)
  <2>1. Len(seqs) \in Nat /\ seqs[i] \in Seq(X) OBVIOUS
  <2>2. i - 1 \in 0 .. Len(seqs) /\ i \in 0 .. Len(seqs) /\ Len(seqs) \in 0 .. Len(seqs)
    BY <2>1
  <2>3. \A j \in 0 .. Len(seqs) : F[j] \in Seq(X) BY DEF Partial
  <2> QED BY <2>1, <2>2, <2>3
<1>2. F[i] = F[i - 1] \o seqs[i] BY DEF Partial
<1>3. /\ a \in Nat /\ Len(seqs[i]) \in Nat /\ Len(F[i]) = a + Len(seqs[i])
      /\ \A k \in 1 .. Len(seqs[i]) : F[i][a + k] = seqs[i][k]
  <2>1. PICK s, t : s = F[i - 1] /\ t = seqs[i] OBVIOUS
  <2>2. s \in Seq(X) /\ t \in Seq(X) /\ F[i] = s \o t BY <2>1, <1>1, <1>2
  <2>3. /\ Len(s) \in Nat /\ Len(t) \in Nat /\ Len(s \o t) = Len(s) + Len(t)
        /\ \A k \in 1 .. Len(t) : (s \o t)[Len(s) + k] = t[k]
    BY <2>2, ConcatParts
  <2> QED BY <2>1, <2>2, <2>3
<1>4. /\ Len(whole) \in Nat
      /\ \A k \in 1 .. Len(seqs[i]) : F[i][a + k] = seqs[i][k] /\ a + k \in 1 .. Len(F[i])
  <2>1. \A s \in Seq(X) : Len(s) \in Nat OBVIOUS
  <2>2. Len(whole) \in Nat BY <1>1, <2>1
  <2>3. PICK b, c : b = Len(seqs[i]) /\ c = Len(F[i]) OBVIOUS
  <2>4. a \in Nat /\ b \in Nat /\ c = a + b BY <1>3, <2>3
  <2>5. \A k \in 1 .. b : a + k \in 1 .. c
    <3> HIDE <2>3
    <3> QED BY <2>4
  <2> QED BY <1>3, <2>2, <2>3, <2>5
<1>5. Len(F[i]) <= Len(whole) /\ \A k \in 1 .. Len(F[i]) : whole[k] = F[i][k]
  BY <1>1, PartialPrefix
<1> QED BY <1>3, <1>4, <1>5 DEF LiesAt

\* Where the reader looks for the arguments.
LEMMA PositionsStep ==
  ASSUME NEW tags, NEW words, Len(tags) \in Nat
  PROVE  LET pos == Positions(tags, words)
         IN  /\ pos[1] = 1
             /\ \A i \in 1 .. Len(tags) :
                    pos[i + 1] = pos[i] + WidthAt(tags[i], words, pos[i])
<1> DEFINE n == Len(tags)
           Defines(g, m) == g = [i \in 1 .. m + 1 |->
               IF i = 1 THEN 1 ELSE g[i - 1] + WidthAt(tags[i - 1], words, g[i - 1])]
           Good(m) == \E g : Defines(g, m)
           S == {m \in Nat : Good(m)}
<1>1. 0 \in S
  <2> DEFINE g == [i \in 1 .. 0 + 1 |-> 1]
  <2>1. \A i \in 1 .. 0 + 1 : i = 1 OBVIOUS
  <2>2. Defines(g, 0) BY <2>1
  <2>3. Good(0) BY <2>2
  <2> HIDE DEF Good
  <2> QED BY <2>3
<1>2. ASSUME NEW m \in Nat, m \in S PROVE m + 1 \in S
  <2>1. PICK g : Defines(g, m)
    <3>1. Good(m)
      <4> HIDE DEF Good
      <4> QED BY <1>2
    <3> QED BY <3>1
  <2> DEFINE k == [i \in 1 .. (m + 1) + 1 |->
                      IF i = m + 2 THEN g[m + 1] + WidthAt(tags[m + 1], words, g[m + 1]) ELSE g[i]]
  <2>2. ASSUME NEW i \in 1 .. (m + 1) + 1
        PROVE  k[i] = IF i = 1 THEN 1 ELSE k[i - 1] + WidthAt(tags[i - 1], words, k[i - 1])
    <3>1. CASE i = m + 2
      <4>1. i # 1 /\ i - 1 = m + 1 /\ m + 1 \in 1 .. (m + 1) + 1 /\ m + 1 # m + 2 BY <3>1
      <4>2. k[i - 1] = g[m + 1] BY <4>1
      <4> QED BY <3>1, <4>1, <4>2
    <3>2. CASE i # m + 2
      <4>1. i \in 1 .. m + 1 BY <3>2
      <4>2. g[i] = IF i = 1 THEN 1 ELSE g[i - 1] + WidthAt(tags[i - 1], words, g[i - 1])
        BY <2>1, <4>1
      <4>3. k[i] = g[i] BY <3>2
      <4>4. i # 1 => i - 1 \in 1 .. (m + 1) + 1 /\ i - 1 # m + 2 BY <4>1
      <4>5. i # 1 => k[i - 1] = g[i - 1] BY <4>4
      <4> QED BY <4>2, <4>3, <4>5
    <3> QED BY <3>1, <3>2
  <2>3. k = [i \in 1 .. (m + 1) + 1 |-> k[i]] OBVIOUS
  <2> HIDE DEF k
  <2>4. Defines(k, m + 1) BY <2>2, <2>3
  <2>5. Good(m + 1) BY <2>4
  <2> HIDE DEF Good
  <2> QED BY <2>5
<1>3. PICK g : Defines(g, n)
  <2>1. Good(n)
    <3> HIDE DEF Good
    <3>1. Nat \subseteq S
      <4> HIDE DEF S
      <4> QED BY <1>1, <1>2, NatSetInduction
    <3> QED BY <3>1
  <2> QED BY <2>1
<1> DEFINE f == CHOOSE h : h = [i \in 1 .. n + 1 |->
               IF i = 1 THEN 1 ELSE h[i - 1] + WidthAt(tags[i - 1], words, h[i - 1])]
<1>4. Positions(tags, words) = f BY DEF Positions
<1>5. Defines(f, n)
  <2>1. \E h : h = [i \in 1 .. n + 1 |->
               IF i = 1 THEN 1 ELSE h[i - 1] + WidthAt(tags[i - 1], words, h[i - 1])]
    BY <1>3
  <2> QED BY <2>1
<1> HIDE DEF f
<1>6. \A i \in 1 .. n + 1 :
          f[i] = IF i = 1 THEN 1 ELSE f[i - 1] + WidthAt(tags[i - 1], words, f[i - 1])
  BY <1>5
<1>7. 1 \in 1 .. n + 1 /\ \A i \in 1 .. n : i + 1 \in 1 .. n + 1 /\ i + 1 # 1 /\ (i + 1) - 1 = i
  OBVIOUS
<1>8. f[1] = 1 BY <1>6, <1>7
<1>9. \A i \in 1 .. n : f[i + 1] = f[i] + WidthAt(tags[i], words, f[i]) BY <1>6, <1>7
<1> QED BY <1>4, <1>8, <1>9

\* The arguments that the format is made for: 64-bit integers, reals of two
\* words, strings whose quotes can be quoted, lists and skipped symbols; and all
\* that a program may give to io:osc:send.
WordVal == 0 .. Word - 1
Chars == 1 .. Word - 1
IntArgs == {IntArg(n) : n \in -(Word * (Word \div 2)) .. Word * (Word \div 2) - 1}
RealArgs == {RealArg(<<h, l>>) : h \in WordVal, l \in WordVal}
StrArgs == {StrArg(s) : s \in Seq(Chars)}
AnyArgs == IntArgs \cup RealArgs \cup StrArgs \cup {Skip, Other, ListOpen, ListClose}
WellFormed == {a \in AnyArgs : Sendable(a)}

\* What WellFormed leaves out.
LEMMA WellFormedIs ==
  ASSUME NEW a \in WellFormed
  PROVE  \/ a \in IntArgs \cup RealArgs \cup {Skip, ListOpen, ListClose}
         \/ a \in StrArgs /\ Sendable(a)
<1>1. a # Other BY DEF WellFormed, Sendable, Other
<1> QED BY <1>1 DEF WellFormed, AnyArgs

\* Quotient and remainder by the size of a word.
LEMMA Division ==
  ASSUME NEW n \in Int
  PROVE  /\ n \div Word \in Int /\ n % Word \in WordVal
         /\ n = (n \div Word) * Word + (n % Word)
BY WordAssumption DEF WordVal

\* The sign bit of a word is half of its values.
LEMMA HalfWord == Word \div 2 \in Nat /\ Word = (Word \div 2) + (Word \div 2)
BY WordAssumption

\* The quotient of a 64-bit integer is a signed word, and what is left of it
\* in a word.
LEMMA WordBounds ==
  ASSUME NEW q \in Int, NEW r, NEW h \in Nat, NEW W \in Nat \ {0}, W = h + h, r \in 0 .. W - 1,
         -(W * h) <= q * W + r, q * W + r < W * h
  PROVE  -h <= q /\ q < h /\ q % W = IF q < 0 THEN q + W ELSE q
<1>1. -h <= q /\ q < h OBVIOUS
<1> QED BY <1>1

\* An int64 is read back as it was written, negative or not.
LEMMA LongRead ==
  ASSUME NEW n \in -(Word * (Word \div 2)) .. Word * (Word \div 2) - 1
  PROVE  SignedPair(High(n), Low(n)) = n
<1>1. PICK q, r, h : q = n \div Word /\ r = n % Word /\ h = Word \div 2 OBVIOUS
<1>2. Word \in Nat \ {0} /\ h \in Nat /\ Word = h + h BY <1>1, HalfWord, WordAssumption
<1>3. n \in Int /\ -(Word * h) <= n /\ n < Word * h
  BY <1>1, <1>2
<1>4. q \in Int /\ r \in 0 .. Word - 1 /\ n = q * Word + r BY <1>1, <1>3, Division DEF WordVal
<1>5. -h <= q /\ q < h /\ q % Word = IF q < 0 THEN q + Word ELSE q
  BY <1>2, <1>3, <1>4, WordBounds
<1>6. PICK H : H = q % Word OBVIOUS
<1>7. SignedPair(High(n), Low(n)) = IF H >= h THEN (H - Word) * Word + r ELSE H * Word + r
  BY <1>1, <1>6 DEF SignedPair, High, Low
<1>8. CASE q < 0
  <2>1. H = q + Word /\ H >= h BY <1>2, <1>4, <1>5, <1>6, <1>8
  <2>2. H - Word = q BY <2>1, <1>2, <1>4
  <2> QED BY <1>4, <1>7, <2>1, <2>2
<1>9. CASE ~ (q < 0)
  <2>1. H = q /\ ~ (H >= h) BY <1>2, <1>4, <1>5, <1>6, <1>9
  <2> QED BY <1>4, <1>7, <2>1
<1> QED BY <1>8, <1>9

\* A real has a high and a low word.
LEMMA RealShape ==
  ASSUME NEW a \in RealArgs
  PROVE  \E h \in WordVal, l \in WordVal : a = RealArg(<<h, l>>)
BY DEF RealArgs

\* What processArgs writes of an argument.
LEMMA PiecesTyped ==
  ASSUME NEW a \in WellFormed, NEW types \in Types
  PROVE  /\ WordsOf(a, types) \in Seq(WordVal)
         /\ a.type \in {"int", "real", "str", "skip", "[", "]"}
         /\ a = Skip <=> a.type = "skip"
<1> USE DEF WordsOf
<1>1. CASE a \in IntArgs
  <2>1. PICK n \in -(Word * (Word \div 2)) .. Word * (Word \div 2) - 1 : a = IntArg(n)
    BY <1>1 DEF IntArgs
  <2>2. a.type = "int" /\ a.val = n BY <2>1 DEF IntArg
  <2>3. n \in Int /\ n \div Word \in Int BY <2>1, Division, HalfWord, WordAssumption
  <2>4. Low(n) \in WordVal /\ High(n) \in WordVal BY <2>3, Division DEF Low, High
  <2> QED BY <2>2, <2>4 DEF Skip
<1>2. CASE a \in RealArgs
  <2>1. PICK h \in WordVal, l \in WordVal : a = RealArg(<<h, l>>) BY <1>2, RealShape
  <2>2. a.type = "real" /\ a.val = <<h, l>> BY <2>1 DEF RealArg
  <2> QED BY <2>2 DEF Skip
<1>3. CASE a \in StrArgs
  <2>1. PICK s \in Seq(Chars) : a = StrArg(s) BY <1>3 DEF StrArgs
  <2>2. a.type = "str" /\ a.val = s BY <2>1 DEF StrArg
  <2>3. Append(s, 0) \in Seq(WordVal)
    <3>1. Chars \subseteq WordVal /\ 0 \in WordVal BY WordAssumption DEF Chars, WordVal
    <3>2. s \in Seq(WordVal) BY <3>1
    <3> QED BY <3>1, <3>2
  <2> QED BY <2>2, <2>3 DEF Skip
<1>4. CASE a \in {Skip, ListOpen, ListClose}
  <2>1. <<>> \in Seq(WordVal) OBVIOUS
  <2> QED BY <1>4, <2>1 DEF Skip, ListOpen, ListClose
<1> QED BY <1>1, <1>2, <1>3, <1>4, WellFormedIs

\* The words of the argument a lie behind the first p words.
LiesBehind(ws, words, p) ==
    p + Len(ws) <= Len(words) /\ \A j \in 1 .. Len(ws) : words[p + j] = ws[j]

\* The end of a string is found where it is.
LEMMA StringFound ==
  ASSUME NEW s \in Seq(Chars), Len(s) <= MaxString, NEW words \in Seq(WordVal), NEW p \in Nat,
         LiesBehind(Append(s, 0), words, p)
  PROVE  StringAt(words, p + 1) = s
<1> DEFINE I == {i \in p + 1 .. Len(words) : words[i] = 0}
           n == Len(s)
           z == p + n + 1
<1>1. /\ n \in Nat /\ Len(words) \in Nat /\ z <= Len(words)
      /\ words[z] = 0 /\ \A j \in 1 .. n : words[p + j] = s[j] /\ s[j] # 0
  <2>1. n \in Nat /\ Len(words) \in Nat /\ \A j \in 1 .. n : s[j] # 0
    <3>1. 0 \notin Chars BY WordAssumption DEF Chars
    <3>2. \A j \in 1 .. n : s[j] \in Chars OBVIOUS
    <3> QED BY <3>1, <3>2
  <2>2. /\ Len(Append(s, 0)) = n + 1 /\ Append(s, 0)[n + 1] = 0
        /\ \A j \in 1 .. n : Append(s, 0)[j] = s[j]
    BY AppendProperties
  <2>3. p + (n + 1) <= Len(words) /\ \A j \in 1 .. n + 1 : words[p + j] = Append(s, 0)[j]
    BY <2>2 DEF LiesBehind
  <2>4. n + 1 \in 1 .. n + 1 /\ p + (n + 1) = z /\ \A j \in 1 .. n : j \in 1 .. n + 1 BY <2>1
  <2> HIDE DEF z, n
  <2> QED BY <2>1, <2>2, <2>3, <2>4
<1>2. z \in I
  <2>1. z \in p + 1 .. Len(words) BY <1>1
  <2> QED BY <2>1, <1>1
<1>3. \A i \in I : z <= i
  <2> SUFFICES ASSUME NEW i \in I, ~ (z <= i) PROVE FALSE OBVIOUS
  <2>1. i \in Int /\ p + 1 <= i /\ i < z BY <1>1
  <2>2. i - p \in 1 .. n /\ p + (i - p) = i BY <1>1, <2>1
  <2>3. words[i] = s[i - p] /\ s[i - p] # 0 BY <1>1, <2>2
  <2> QED BY <2>3
<1>4. Min(I) = z
  <2>1. \A x \in I : x \in Int BY <1>1
  <2>2. \A x \in I : (\A y \in I : x <= y) => x = z BY <1>1, <1>2, <1>3, <2>1
  <2> HIDE DEF I, z
  <2> QED BY <1>2, <1>3, <2>2 DEF Min
<1>5. SelectInSubSeq(words, p + 1, Len(words), LAMBDA w : w = 0) = z
  <2>1. SelectInSubSeq(words, p + 1, Len(words), LAMBDA w : w = 0) = IF I # {} THEN Min(I) ELSE 0
    BY DEF SelectInSubSeq
  <2> HIDE DEF I, z
  <2> QED BY <1>2, <1>4, <2>1
<1>6. z - (p + 1) <= MaxString /\ z - 1 = p + n BY <1>1
<1>7. StringAt(words, p + 1) = SubSeq(words, p + 1, p + n)
  <2> HIDE DEF z, n
  <2> QED BY <1>5, <1>6 DEF StringAt
<1>8. SubSeq(words, p + 1, p + n) = s
  <2> DEFINE t == SubSeq(words, p + 1, p + n)
  <2>1. t \in Seq(WordVal) /\ Len(t) = n /\ \A j \in 1 .. n : t[j] = words[p + j]
    <3>1. (p + n) - (p + 1) + 1 = n /\ p + 1 \in 1 .. Len(words) + 1 /\ p + n \in (p + 1) - 1 .. Len(words)
      BY <1>1
    <3>2. \A j \in 1 .. n : (p + 1) + j - 1 = p + j BY <1>1
    <3>3. /\ t \in Seq(WordVal) /\ Len(t) = (p + n) - (p + 1) + 1
          /\ \A j \in 1 .. (p + n) - (p + 1) + 1 : t[j] = words[(p + 1) + j - 1]
      BY <3>1, SubSeqProperties
    <3> HIDE DEF t
    <3> QED BY <3>1, <3>2, <3>3
  <2>2. t = s
    <3>1. Chars \subseteq WordVal BY WordAssumption DEF Chars, WordVal
    <3>2. s \in Seq(WordVal) BY <3>1
    <3>3. \A j \in 1 .. n : t[j] = s[j] BY <1>1, <2>1
    <3> HIDE DEF t
    <3> QED BY <1>1, <2>1, <3>2, <3>3, SeqEqual
  <2> QED BY <2>2
<1> QED BY <1>7, <1>8

\* The reader's states, one for every character of a string.
ReadsFrom(s, f, m) ==
    /\ f[0] = ReaderStart
    /\ \A i \in 1 .. m :
         f[i] = IF Quoted(s, i) THEN ReadChar(ReadChar(f[i - 1], Backslash), s[i])
                ELSE ReadChar(f[i - 1], s[i])

\* What the reader does of a string.
LEMMA LiteralReads ==
  ASSUME NEW s, Len(s) \in Nat
  PROVE  \E f : ReadsFrom(s, f, Len(s)) /\ Literal(s) = f[Len(s)]
<1> DEFINE n == Len(s)
           Defines(g, m) == g = [i \in 0 .. m |->
               IF i = 0 THEN ReaderStart
               ELSE IF Quoted(s, i) THEN ReadChar(ReadChar(g[i - 1], Backslash), s[i])
               ELSE ReadChar(g[i - 1], s[i])]
           Good(m) == \E g : Defines(g, m)
           S == {m \in Nat : Good(m)}
<1>1. 0 \in S
  <2> DEFINE g == [i \in 0 .. 0 |-> ReaderStart]
  <2>1. \A i \in 0 .. 0 : i = 0 OBVIOUS
  <2>2. Defines(g, 0) BY <2>1
  <2>3. Good(0) BY <2>2
  <2> HIDE DEF Good
  <2> QED BY <2>3
<1>2. ASSUME NEW m \in Nat, m \in S PROVE m + 1 \in S
  <2>1. PICK g : Defines(g, m)
    <3>1. Good(m)
      <4> HIDE DEF Good
      <4> QED BY <1>2
    <3> QED BY <3>1
  <2> DEFINE j == m + 1
             next == IF Quoted(s, j) THEN ReadChar(ReadChar(g[m], Backslash), s[j])
                     ELSE ReadChar(g[m], s[j])
             k == [i \in 0 .. m + 1 |-> IF i = m + 1 THEN next ELSE g[i]]
  <2>2. ASSUME NEW i \in 0 .. m + 1
        PROVE  k[i] = IF i = 0 THEN ReaderStart
                      ELSE IF Quoted(s, i) THEN ReadChar(ReadChar(k[i - 1], Backslash), s[i])
                      ELSE ReadChar(k[i - 1], s[i])
    <3>1. CASE i = m + 1
      <4>1. i # 0 /\ i - 1 = m /\ m \in 0 .. m + 1 /\ m # m + 1 BY <3>1
      <4>2. k[i - 1] = g[m] /\ k[i] = next /\ i = j BY <3>1, <4>1
      <4> HIDE DEF k, j
      <4> QED BY <4>1, <4>2
    <3>2. CASE i # m + 1
      <4>1. i \in 0 .. m BY <3>2
      <4>2. g[i] = IF i = 0 THEN ReaderStart
                   ELSE IF Quoted(s, i) THEN ReadChar(ReadChar(g[i - 1], Backslash), s[i])
                   ELSE ReadChar(g[i - 1], s[i])
        BY <2>1, <4>1
      <4>3. k[i] = g[i] BY <3>2
      <4>4. i # 0 => i - 1 \in 0 .. m + 1 /\ i - 1 # m + 1 BY <4>1
      <4>5. i # 0 => k[i - 1] = g[i - 1] BY <4>4
      <4> HIDE DEF k
      <4> QED BY <4>2, <4>3, <4>5
    <3> QED BY <3>1, <3>2
  <2>3. k = [i \in 0 .. m + 1 |-> k[i]] OBVIOUS
  <2> HIDE DEF k
  <2>4. Defines(k, m + 1) BY <2>2, <2>3
  <2>5. Good(m + 1) BY <2>4
  <2> HIDE DEF Good
  <2> QED BY <2>5
<1>3. PICK g : Defines(g, n)
  <2>1. Good(n)
    <3> HIDE DEF Good
    <3>1. Nat \subseteq S
      <4> HIDE DEF S
      <4> QED BY <1>1, <1>2, NatSetInduction
    <3> QED BY <3>1
  <2> QED BY <2>1
<1> DEFINE f == CHOOSE h : h = [i \in 0 .. n |->
               IF i = 0 THEN ReaderStart
               ELSE IF Quoted(s, i) THEN ReadChar(ReadChar(h[i - 1], Backslash), s[i])
               ELSE ReadChar(h[i - 1], s[i])]
<1>4. Literal(s) = f[n] BY DEF Literal
<1>5. Defines(f, n)
  <2>1. \E h : h = [i \in 0 .. n |->
               IF i = 0 THEN ReaderStart
               ELSE IF Quoted(s, i) THEN ReadChar(ReadChar(h[i - 1], Backslash), s[i])
               ELSE ReadChar(h[i - 1], s[i])]
    BY <1>3
  <2> QED BY <2>1
<1> HIDE DEF f
<1>6. \A i \in 0 .. n :
          f[i] = IF i = 0 THEN ReaderStart
                 ELSE IF Quoted(s, i) THEN ReadChar(ReadChar(f[i - 1], Backslash), s[i])
                 ELSE ReadChar(f[i - 1], s[i])
  BY <1>5
<1>7. 0 \in 0 .. n /\ \A i \in 1 .. n : i \in 0 .. n /\ i # 0 OBVIOUS
<1>8. ReadsFrom(s, f, n) BY <1>6, <1>7 DEF ReadsFrom
<1> QED BY <1>4, <1>8

\* The reader has the characters t, and is not behind a backslash.
HasRead(t) == [out |-> t, bsl |-> FALSE, closed |-> FALSE]

\* How the reader takes a quote that is quoted, and a character that is neither
\* a quote nor a backslash.
LEMMA CharRead ==
  ASSUME NEW t
  PROVE  /\ ReadChar(ReadChar(HasRead(t), Backslash), Quote) = HasRead(Append(t, Quote))
         /\ \A c : c # Quote /\ c # Backslash => ReadChar(HasRead(t), c) = HasRead(Append(t, c))
<1>1. ReadChar(HasRead(t), Backslash) = [out |-> t, bsl |-> TRUE, closed |-> FALSE]
  BY DEF ReadChar, HasRead
<1>2. ReadChar([out |-> t, bsl |-> TRUE, closed |-> FALSE], Quote) = HasRead(Append(t, Quote))
  BY DEF ReadChar, HasRead
<1>3. \A c : c # Quote /\ c # Backslash => ReadChar(HasRead(t), c) = HasRead(Append(t, c))
  BY DEF ReadChar, HasRead
<1> QED BY <1>1, <1>2, <1>3

\* A string without backslashes that does not begin with a quote is read back
\* as it is, with the quotes in it.
LEMMA LiteralIntact ==
  ASSUME NEW s \in Seq(Chars), ~ Throws(s), \A i \in DOMAIN s : s[i] # Backslash
  PROVE  Literal(s) = HasRead(s)
<1> DEFINE n == Len(s)
<1>1. n \in Nat /\ DOMAIN s = 1 .. n OBVIOUS
<1>2. PICK f : ReadsFrom(s, f, n) /\ Literal(s) = f[n] BY <1>1, LiteralReads
<1> DEFINE Good(m) == f[m] = HasRead(SubSeq(s, 1, m))
           S == {m \in Nat : m <= n => Good(m)}
<1>3. 0 \in S
  <2>1. SubSeq(s, 1, 0) = <<>> BY <1>1
  <2>2. Good(0) BY <1>2, <2>1 DEF ReadsFrom, ReaderStart, HasRead
  <2> HIDE DEF Good
  <2> QED BY <2>2
<1>4. ASSUME NEW m \in Nat, m \in S PROVE m + 1 \in S
  <2> SUFFICES ASSUME m + 1 <= n PROVE Good(m + 1)
    <3> HIDE DEF Good
    <3> QED OBVIOUS
  <2>1. f[m] = HasRead(SubSeq(s, 1, m)) BY <1>1, <1>4
  <2>2. PICK i, t, c : i = m + 1 /\ t = SubSeq(s, 1, m) /\ c = s[i] OBVIOUS
  <2>3. i \in 1 .. n /\ i - 1 = m BY <1>1, <2>2
  <2>4. f[i] = IF Quoted(s, i) THEN ReadChar(ReadChar(f[i - 1], Backslash), s[i])
               ELSE ReadChar(f[i - 1], s[i])
    BY <1>2, <2>3 DEF ReadsFrom
  <2>5. c # Backslash BY <1>1, <2>2, <2>3
  <2>6. c = Quote => Quoted(s, i)
    <3>1. c = Quote => i # 1
      <4>1. s # <<>> BY <1>1, <2>3
      <4>2. s[1] # Quote BY <4>1 DEF Throws
      <4> QED BY <2>2, <4>2
    <3>2. i # 1 => i - 1 \in DOMAIN s BY <1>1, <2>3
    <3> QED BY <2>2, <2>3, <3>1, <3>2 DEF Quoted
  <2>7. c # Quote => ~ Quoted(s, i) BY <2>2 DEF Quoted
  <2>8. f[i] = HasRead(Append(t, c))
    <3>1. CASE c = Quote BY <3>1, <2>1, <2>2, <2>3, <2>4, <2>6, CharRead
    <3>2. CASE c # Quote BY <3>2, <2>1, <2>2, <2>3, <2>4, <2>5, <2>7, CharRead
    <3> QED BY <3>1, <3>2
  <2>9. Append(SubSeq(s, 1, m), s[m + 1]) = SubSeq(s, 1, m + 1)
    BY <1>1
  <2> QED BY <2>2, <2>8, <2>9
<1>5. Good(n)
  <2>1. Nat \subseteq S
    <3> HIDE DEF S
    <3> QED BY <1>3, <1>4, NatSetInduction
  <2> HIDE DEF Good
  <2> QED BY <1>1, <2>1
<1>6. SubSeq(s, 1, n) = s BY <1>1
<1> QED BY <1>2, <1>5, <1>6

\* A string that can be sent is read back, and the reader goes on behind it.
LEMMA StringRead ==
  ASSUME NEW s \in Seq(Chars), Sendable(StrArg(s)), NEW words \in Seq(WordVal), NEW p \in Nat,
         LiesBehind(Append(s, 0), words, p)
  PROVE  /\ WidthAt("s", words, p + 1) = Len(Append(s, 0))
         /\ Argument("s", words, p + 1) = StrArg(s)
         /\ ~ Broken(StringAt(words, p + 1))
<1>1. Len(s) <= MaxString /\ ~ Throws(s) /\ \A i \in DOMAIN s : s[i] # Backslash
  BY DEF Sendable, StrArg
<1>2. StringAt(words, p + 1) = s BY <1>1, StringFound
<1>3. Literal(s) = HasRead(s) BY <1>1, LiteralIntact
<1>4. Literal(s).out = s /\ ~ Literal(s).bsl /\ ~ Literal(s).closed BY <1>3 DEF HasRead
<1>5. Len(Append(s, 0)) = Len(s) + 1 BY AppendProperties
<1>6. WidthAt("s", words, p + 1) = Len(s) + 1 BY <1>2 DEF WidthAt
<1>7. Argument("s", words, p + 1) = StrArg(s) BY <1>2, <1>4 DEF Argument
<1> QED BY <1>2, <1>4, <1>5, <1>6, <1>7 DEF Broken

\* An argument is read where it was written, as far as its type can hold it,
\* and the reader moves on by what the writer wrote.
LEMMA ArgumentRead ==
  ASSUME NEW a \in WellFormed, a # Skip, NEW types \in Types, NEW words \in Seq(WordVal),
         NEW p \in Nat, LiesBehind(WordsOf(a, types), words, p)
  PROVE  \E tag : /\ TagOf(a, types) = <<tag>>
                  /\ WidthAt(tag, words, p + 1) = Len(WordsOf(a, types))
                  /\ Argument(tag, words, p + 1) = Narrowed(a, types)
                  /\ tag = "s" => ~ Broken(StringAt(words, p + 1))
<1>1. types.int64 \in BOOLEAN /\ types.real64 \in BOOLEAN BY DEF Types
<1>2. CASE a \in IntArgs
  <2>1. PICK n \in -(Word * (Word \div 2)) .. Word * (Word \div 2) - 1 : a = IntArg(n)
    BY <1>2 DEF IntArgs
  <2>2. a.type = "int" /\ a.val = n BY <2>1 DEF IntArg
  <2>3. CASE types.int64
    <3>1. /\ TagOf(a, types) = <<"h">> /\ WordsOf(a, types) = <<High(n), Low(n)>>
          /\ Narrowed(a, types) = a
      BY <2>2, <2>3 DEF TagOf, WordsOf, Narrowed
    <3>2. Len(WordsOf(a, types)) = 2 BY <3>1
    <3>3. words[p + 1] = High(n) /\ words[p + 2] = Low(n)
      <4>1. words[p + 1] = <<High(n), Low(n)>>[1] /\ words[p + 2] = <<High(n), Low(n)>>[2]
        BY <3>1, <3>2 DEF LiesBehind
      <4> QED BY <4>1
    <3>4. (p + 1) + 1 = p + 2 OBVIOUS
    <3>5. Argument("h", words, p + 1) = IntArg(SignedPair(High(n), Low(n)))
      BY <3>3, <3>4 DEF Argument
    <3>6. WidthAt("h", words, p + 1) = 2 BY DEF WidthAt
    <3> QED BY <2>1, <3>1, <3>2, <3>5, <3>6, LongRead
  <2>4. CASE ~ types.int64
    <3>1. /\ TagOf(a, types) = <<"i">> /\ WordsOf(a, types) = <<Low(n)>>
          /\ Narrowed(a, types) = IntArg(Signed(Low(n)))
      BY <2>2, <2>4 DEF TagOf, WordsOf, Narrowed
    <3>2. Len(WordsOf(a, types)) = 1 BY <3>1
    <3>3. words[p + 1] = Low(n)
      <4>1. words[p + 1] = <<Low(n)>>[1] BY <3>1, <3>2 DEF LiesBehind
      <4> QED BY <4>1
    <3>5. Argument("i", words, p + 1) = IntArg(Signed(Low(n))) BY <3>3 DEF Argument
    <3>6. WidthAt("i", words, p + 1) = 1 BY DEF WidthAt
    <3> QED BY <3>1, <3>2, <3>5, <3>6
  <2> QED BY <1>1, <2>3, <2>4
<1>3. CASE a \in RealArgs
  <2>1. PICK h \in WordVal, l \in WordVal : a = RealArg(<<h, l>>) BY <1>3, RealShape
  <2>2. a.type = "real" /\ a.val = <<h, l>> /\ a.val[1] = h BY <2>1 DEF RealArg
  <2>3. CASE types.real64
    <3>1. /\ TagOf(a, types) = <<"d">> /\ WordsOf(a, types) = <<h, l>>
          /\ Narrowed(a, types) = a
      BY <2>2, <2>3 DEF TagOf, WordsOf, Narrowed
    <3>2. Len(WordsOf(a, types)) = 2 BY <3>1
    <3>3. words[p + 1] = h /\ words[p + 2] = l
      <4>1. words[p + 1] = <<h, l>>[1] /\ words[p + 2] = <<h, l>>[2]
        BY <3>1, <3>2 DEF LiesBehind
      <4> QED BY <4>1
    <3>4. (p + 1) + 1 = p + 2 OBVIOUS
    <3>5. Argument("d", words, p + 1) = RealArg(<<h, l>>)
      BY <3>3, <3>4 DEF Argument
    <3>6. WidthAt("d", words, p + 1) = 2 BY DEF WidthAt
    <3>7. "d" # "s" OBVIOUS
    <3> QED BY <2>1, <3>1, <3>2, <3>5, <3>6, <3>7
  <2>4. CASE ~ types.real64
    <3>1. /\ TagOf(a, types) = <<"f">> /\ WordsOf(a, types) = <<h>>
          /\ Narrowed(a, types) = RealArg(<<h, 0>>)
      BY <2>2, <2>4 DEF TagOf, WordsOf, Narrowed
    <3>2. Len(WordsOf(a, types)) = 1 BY <3>1
    <3>3. words[p + 1] = h
      <4>1. words[p + 1] = <<h>>[1] BY <3>1, <3>2 DEF LiesBehind
      <4> QED BY <4>1
    <3>5. Argument("f", words, p + 1) = RealArg(<<h, 0>>) BY <3>3 DEF Argument
    <3>6. WidthAt("f", words, p + 1) = 1 BY DEF WidthAt
    <3> QED BY <3>1, <3>2, <3>5, <3>6
  <2> QED BY <1>1, <2>3, <2>4
<1>4. CASE a \in StrArgs /\ Sendable(a)
  <2>1. PICK s \in Seq(Chars) : a = StrArg(s) BY <1>4 DEF StrArgs
  <2>2. a.type = "str" /\ a.val = s BY <2>1 DEF StrArg
  <2>3. /\ TagOf(a, types) = <<"s">> /\ WordsOf(a, types) = Append(s, 0)
        /\ Narrowed(a, types) = a
    BY <2>2 DEF TagOf, WordsOf, Narrowed
  <2> QED BY <1>4, <2>1, <2>3, StringRead
<1>5. CASE a \in {ListOpen, ListClose}
  <2>1. a.type \in {"[", "]"} /\ a = [type |-> a.type, val |-> 0]
    BY <1>5 DEF ListOpen, ListClose
  <2>2. /\ TagOf(a, types) = <<a.type>> /\ WordsOf(a, types) = <<>> /\ Narrowed(a, types) = a
    BY <2>1 DEF TagOf, WordsOf, Narrowed
  <2>3. WidthAt(a.type, words, p + 1) = 0 BY <2>1 DEF WidthAt
  <2>4. Argument(a.type, words, p + 1) = a BY <1>5 DEF Argument, ListOpen, ListClose
  <2>5. Len(<<>>) = 0 /\ a.type # "s" BY <2>1
  <2> QED BY <2>2, <2>3, <2>4, <2>5
<1> QED BY <1>2, <1>3, <1>4, <1>5, WellFormedIs DEF Skip

\* The reader has read the arguments up to a point, and is where the writer
\* was after them.
ReadSoFar(tags, words, meant, k, p) ==
    LET pos == Positions(tags, words)
    IN  /\ pos[k + 1] = p + 1
        /\ \A j \in 1 .. k : Argument(tags[j], words, pos[j]) = meant[j]
        /\ \A j \in 1 .. k : tags[j] = "s" => ~ Broken(StringAt(words, pos[j]))

\* The reader goes on by one argument.
LEMMA ReadNext ==
  ASSUME NEW a \in WellFormed, NEW types \in Types, NEW words \in Seq(WordVal),
         NEW tags, NEW meant, NEW k \in Nat, NEW p \in Nat, Len(tags) \in Nat,
         a # Skip, k + 1 <= Len(tags),
         LiesBehind(WordsOf(a, types), words, p),
         tags[k + 1] = TagOf(a, types)[1], meant[k + 1] = Narrowed(a, types),
         ReadSoFar(tags, words, meant, k, p)
  PROVE  ReadSoFar(tags, words, meant, k + 1, p + Len(WordsOf(a, types)))
<1> DEFINE pos == Positions(tags, words)
           w == Len(WordsOf(a, types))
<1>1. PICK tag : /\ TagOf(a, types) = <<tag>>
                 /\ WidthAt(tag, words, p + 1) = w
                 /\ Argument(tag, words, p + 1) = Narrowed(a, types)
                 /\ tag = "s" => ~ Broken(StringAt(words, p + 1))
  BY ArgumentRead
<1>2. tags[k + 1] = tag BY <1>1
<1>3. k + 1 \in 1 .. Len(tags) OBVIOUS
<1>4. /\ pos[k + 1] = p + 1
      /\ \A j \in 1 .. k : Argument(tags[j], words, pos[j]) = meant[j]
      /\ \A j \in 1 .. k : tags[j] = "s" => ~ Broken(StringAt(words, pos[j]))
  BY DEF ReadSoFar
<1>5. pos[(k + 1) + 1] = (p + 1) + w
  <2>1. pos[(k + 1) + 1] = pos[k + 1] + WidthAt(tags[k + 1], words, pos[k + 1])
    BY <1>3, PositionsStep
  <2> HIDE DEF pos, w
  <2> QED BY <1>1, <1>2, <1>4, <2>1
<1>6. w \in Nat BY PiecesTyped
<1>7. \A j \in 1 .. k + 1 : j \in 1 .. k \/ j = k + 1 OBVIOUS
<1>8. /\ Argument(tags[k + 1], words, pos[k + 1]) = meant[k + 1]
      /\ tags[k + 1] = "s" => ~ Broken(StringAt(words, pos[k + 1]))
  BY <1>1, <1>2, <1>4
<1>9. (p + 1) + w = (p + w) + 1 BY <1>6
<1> HIDE DEF pos, w
<1>10. /\ \A j \in 1 .. k + 1 : Argument(tags[j], words, pos[j]) = meant[j]
       /\ \A j \in 1 .. k + 1 : tags[j] = "s" => ~ Broken(StringAt(words, pos[j]))
  BY <1>4, <1>7, <1>8
<1> QED BY <1>5, <1>9, <1>10 DEF ReadSoFar, pos, w

\* send_scheme_call reads the arguments of a message as processArgs has written
\* them, each from its own words and with the value that its type can hold, for
\* any number of integers, reals, lists, skipped symbols and strings without
\* backslashes that do not begin with a quote: the quotes in these are quoted
\* in the text of the call and the reader of Scheme finds them again.
THEOREM FormatRoundTrip ==
  ASSUME NEW addr, NEW args \in Seq(WellFormed), NEW types \in Types
  PROVE  Arguments(Message(addr, args, types)) = Intended(args, types)
<1> DEFINE n == Len(args)
           ws == [i \in DOMAIN args |->
                     IF args[i].type = "other" THEN [j \in 1 .. Moved(args, types)[i] |-> Garbage]
                     ELSE WordsOf(args[i], types)]
           ts == [i \in DOMAIN args |-> TagOf(args[i], types)]
           ms == [i \in DOMAIN args |->
                     IF args[i].type \in {"skip", "other"} THEN <<>>
                     ELSE <<Narrowed(args[i], types)>>]
           X == {TagOf(args[i], types)[1] : i \in DOMAIN args}
           Y == {Narrowed(args[i], types) : i \in DOMAIN args}
           words == FlattenSeq(ws)
           tags == FlattenSeq(ts)
           meant == FlattenSeq(ms)
<1>1. n \in Nat /\ DOMAIN args = 1 .. n /\ \A i \in 1 .. n : args[i] \in WellFormed OBVIOUS
<1>2. ASSUME NEW i \in 1 .. n
      PROVE  /\ ws[i] = WordsOf(args[i], types) /\ ws[i] \in Seq(WordVal)
             /\ IF args[i] = Skip
                THEN ws[i] = <<>> /\ ts[i] = <<>> /\ ms[i] = <<>>
                ELSE /\ ms[i] = <<Narrowed(args[i], types)>>
                     /\ ts[i] = <<TagOf(args[i], types)[1]>>
             /\ ts[i] \in Seq(X) /\ ms[i] \in Seq(Y)
  <2>1. /\ WordsOf(args[i], types) \in Seq(WordVal)
        /\ args[i].type \in {"int", "real", "str", "skip", "[", "]"}
        /\ args[i] = Skip <=> args[i].type = "skip"
    BY <1>1, PiecesTyped
  <2>2. ws[i] = WordsOf(args[i], types) BY <1>1, <2>1
  <2>3. CASE args[i] = Skip
    <3>1. args[i].type = "skip" BY <2>1, <2>3
    <3>2. WordsOf(args[i], types) = <<>> /\ TagOf(args[i], types) = <<>>
      BY <3>1 DEF WordsOf, TagOf
    <3>3. <<>> \in Seq(X) /\ <<>> \in Seq(Y) OBVIOUS
    <3>4. ms[i] = <<>> /\ ts[i] = <<>> BY <1>1, <3>1, <3>2
    <3> HIDE DEF ws, ts, ms, X, Y
    <3> QED BY <2>1, <2>2, <2>3, <3>2, <3>3, <3>4
  <2>4. CASE args[i] # Skip
    <3>1. args[i].type \notin {"skip", "other"} BY <2>1, <2>4
    <3>2. ms[i] = <<Narrowed(args[i], types)>> BY <1>1, <3>1
    <3>3. TagOf(args[i], types) = <<TagOf(args[i], types)[1]>>
      <4>1. args[i].type \in {"int", "real", "str", "[", "]"} BY <2>1, <3>1
      <4> QED BY <4>1 DEF TagOf
    <3>4. ts[i] = <<TagOf(args[i], types)[1]>> BY <1>1, <3>3
    <3>5. TagOf(args[i], types)[1] \in X /\ Narrowed(args[i], types) \in Y BY <1>1
    <3> HIDE DEF ws, ts, ms, X, Y
    <3>6. ts[i] \in Seq(X) /\ ms[i] \in Seq(Y) BY <3>2, <3>4, <3>5
    <3> QED BY <2>1, <2>2, <2>4, <3>2, <3>4, <3>6
  <2> QED BY <2>3, <2>4
<1>3. ws \in Seq(Seq(WordVal)) /\ ts \in Seq(Seq(X)) /\ ms \in Seq(Seq(Y))
      /\ Len(ws) = n /\ Len(ts) = n /\ Len(ms) = n
  <2>1. ws = [i \in 1 .. n |-> ws[i]] /\ ts = [i \in 1 .. n |-> ts[i]] /\ ms = [i \in 1 .. n |-> ms[i]]
    BY <1>1
  <2> HIDE DEF ws, ts, ms, X, Y
  <2> QED BY <1>1, <1>2, <2>1
<1>4. Message(addr, args, types).words = words /\ Message(addr, args, types).tags = tags
  BY DEF Message, DataOf
<1>5. Intended(args, types) = meant BY DEF Intended
<1> HIDE DEF ws, ts, ms, X, Y
<1>6. PICK FW : Partial(FW, ws, WordVal) /\ words = FW[n] BY <1>3, FlattenPartial
<1>7. PICK FT : Partial(FT, ts, X) /\ tags = FT[n] BY <1>3, FlattenPartial
<1>8. PICK FM : Partial(FM, ms, Y) /\ meant = FM[n] BY <1>3, FlattenPartial
<1> HIDE DEF words, tags, meant
<1>9. /\ words \in Seq(WordVal) /\ tags \in Seq(X) /\ meant \in Seq(Y)
      /\ FW[0] = <<>> /\ FT[0] = <<>> /\ FM[0] = <<>>
  <2>1. n \in 0 .. n BY <1>1
  <2> QED BY <1>3, <1>6, <1>7, <1>8, <2>1 DEF Partial
<1> DEFINE Good(m) == /\ Len(FM[m]) = Len(FT[m]) /\ Len(FT[m]) \in Nat /\ Len(FW[m]) \in Nat
                      /\ ReadSoFar(tags, words, meant, Len(FT[m]), Len(FW[m]))
           S == {m \in Nat : m <= n => Good(m)}
<1>10. 0 \in S
  <2>1. Len(<<>>) = 0 OBVIOUS
  <2>2. Len(tags) \in Nat BY <1>9
  <2>3. Positions(tags, words)[0 + 1] = 0 + 1 BY <2>2, PositionsStep
  <2>4. ReadSoFar(tags, words, meant, 0, 0) BY <2>3 DEF ReadSoFar
  <2>5. Good(0) BY <1>9, <2>1, <2>4
  <2> HIDE DEF Good
  <2> QED BY <2>5
<1>11. ASSUME NEW m \in Nat, m \in S PROVE m + 1 \in S
  <2> SUFFICES ASSUME m + 1 <= n PROVE Good(m + 1)
    <3> HIDE DEF Good
    <3> QED OBVIOUS
  <2>1. Good(m)
    <3> HIDE DEF Good
    <3> QED BY <1>11, <1>1
  <2>2. PICK i : i = m + 1 OBVIOUS
  <2>3. i \in 1 .. n /\ i - 1 = m BY <2>2, <1>1
  <2>4. PICK a, k, p : a = args[i] /\ k = Len(FT[m]) /\ p = Len(FW[m]) OBVIOUS
  <2>5. /\ p \in Nat /\ Len(ws[i]) \in Nat /\ Len(FW[i]) = p + Len(ws[i])
        /\ Len(FW[i]) <= Len(words) /\ \A j \in 1 .. Len(ws[i]) : words[p + j] = ws[i][j]
    <3>1. i \in 1 .. Len(ws) /\ words = FW[Len(ws)] /\ p = Len(FW[i - 1])
      BY <1>3, <1>6, <2>3, <2>4
    <3>2. LiesAt(ws[i], words, p, Len(FW[i])) BY <1>3, <1>6, <3>1, PartialNext
    <3> QED BY <3>2 DEF LiesAt
  <2>6. /\ k \in Nat /\ Len(FT[i]) = k + Len(ts[i])
        /\ Len(FT[i]) <= Len(tags) /\ \A j \in 1 .. Len(ts[i]) : tags[k + j] = ts[i][j]
    <3>1. i \in 1 .. Len(ts) /\ tags = FT[Len(ts)] /\ k = Len(FT[i - 1])
      BY <1>3, <1>7, <2>3, <2>4
    <3>2. LiesAt(ts[i], tags, k, Len(FT[i])) BY <1>3, <1>7, <3>1, PartialNext
    <3> QED BY <3>2 DEF LiesAt
  <2>7. /\ Len(FM[i]) = k + Len(ms[i])
        /\ \A j \in 1 .. Len(ms[i]) : meant[k + j] = ms[i][j]
    <3>1. i \in 1 .. Len(ms) /\ meant = FM[Len(ms)] /\ k = Len(FM[i - 1])
      BY <1>3, <1>8, <2>1, <2>3, <2>4
    <3>2. LiesAt(ms[i], meant, k, Len(FM[i])) BY <1>3, <1>8, <3>1, PartialNext
    <3> QED BY <3>2 DEF LiesAt
  <2>8. a \in WellFormed /\ ws[i] = WordsOf(a, types) BY <1>1, <1>2, <2>3, <2>4
  <2>9. ReadSoFar(tags, words, meant, k, p) BY <2>1, <2>4
  <2>10. CASE a = Skip
    <3>1. ws[i] = <<>> /\ ts[i] = <<>> /\ ms[i] = <<>> BY <1>2, <2>3, <2>4, <2>10
    <3>2. Len(<<>>) = 0 /\ k + 0 = k /\ p + 0 = p BY <2>5, <2>6
    <3>3. Len(FW[i]) = p /\ Len(FT[i]) = k /\ Len(FM[i]) = k BY <2>5, <2>6, <2>7, <3>1, <3>2
    <3> QED BY <2>2, <2>5, <2>6, <2>9, <3>3
  <2>11. CASE a # Skip
    <3>1. ts[i] = <<TagOf(a, types)[1]>> /\ ms[i] = <<Narrowed(a, types)>>
      BY <1>2, <2>3, <2>4, <2>11
    <3>2. Len(ts[i]) = 1 /\ ts[i][1] = TagOf(a, types)[1]
      BY <3>1
    <3>3. Len(ms[i]) = 1 /\ ms[i][1] = Narrowed(a, types)
      BY <3>1
    <3>4. 1 \in 1 .. 1 OBVIOUS
    <3>5. Len(FT[i]) = k + 1 /\ Len(FM[i]) = k + 1 BY <2>6, <2>7, <3>2, <3>3
    <3>6. tags[k + 1] = TagOf(a, types)[1] /\ meant[k + 1] = Narrowed(a, types)
      BY <2>6, <2>7, <3>2, <3>3, <3>4
    <3>7. Len(tags) \in Nat BY <1>9
    <3>8. k + 1 <= Len(tags) BY <2>6, <3>5
    <3>9. LiesBehind(WordsOf(a, types), words, p) BY <2>5, <2>8 DEF LiesBehind
    <3>10. ReadSoFar(tags, words, meant, k + 1, p + Len(WordsOf(a, types)))
      BY <1>9, <2>5, <2>6, <2>8, <2>9, <2>11, <3>6, <3>7, <3>8, <3>9, ReadNext
    <3>11. Len(FW[i]) = p + Len(WordsOf(a, types)) /\ Len(FW[i]) \in Nat BY <2>5, <2>8
    <3> QED BY <2>2, <2>6, <3>5, <3>10, <3>11
  <2> QED BY <2>10, <2>11
<1>12. Good(n)
  <2>1. Nat \subseteq S
    <3> HIDE DEF S
    <3> QED BY <1>10, <1>11, NatSetInduction
  <2> HIDE DEF Good
  <2> QED BY <1>1, <2>1
<1>13. Len(meant) = Len(tags) /\ \A j \in 1 .. Len(tags) :
          /\ Argument(tags[j], words, Positions(tags, words)[j]) = meant[j]
          /\ tags[j] = "s" => ~ Broken(StringAt(words, Positions(tags, words)[j]))
  BY <1>7, <1>8, <1>12 DEF ReadSoFar
<1>14. Arguments(Message(addr, args, types)) =
          [j \in DOMAIN tags |-> Argument(tags[j], words, Positions(tags, words)[j])]
  <2>1. DOMAIN tags = 1 .. Len(tags) BY <1>9
  <2>2. \A t \in StringsOf(Message(addr, args, types)) : ~ Broken(t)
    BY <1>4, <1>13, <2>1 DEF StringsOf
  <2> QED BY <1>4, <2>2 DEF Arguments
<1>15. DOMAIN tags = 1 .. Len(tags) /\ meant = [j \in 1 .. Len(meant) |-> meant[j]] BY <1>9
<1> QED BY <1>5, <1>13, <1>14, <1>15

----------------------------------------------------------------------------
\* A packet for the port of a server calls the handler of that server in the
\* process that started it, and the arguments of own messages are the ones
\* that were given to io:osc:send, whatever the network loses, repeats and
\* reorders and whatever servers are started and options are set meanwhile.
\* The arguments are any that a program may give.  What is said of messages with
\* booleans and the like, and with strings that the format is not made for, is
\* that they go to the right handler, if the reader does not throw.
THEOREM PacketsDelivered ==
    ASSUME Args \subseteq Seq(AnyArgs)
    PROVE  Spec => []Delivered
<1>1. DInv /\ [Next]_vars => DInv'
      BY StepKeepsDInv
<1>2. DInv => Delivered
      <2>1. ASSUME NEW s \in Servers, NEW args \in Args, NEW types \in Types,
                   \A j \in DOMAIN args : Sendable(args[j])
            PROVE  Arguments(Message(s, args, types)) = Intended(args, types)
            <3>1. args \in Seq(AnyArgs)
                  OBVIOUS
            <3>2. \A j \in 1 .. Len(args) : args[j] \in WellFormed
                  BY <2>1, <3>1 DEF WellFormed
            <3>3. args \in Seq(WellFormed)
                  <4>1. args = [j \in 1 .. Len(args) |-> args[j]] /\ Len(args) \in Nat
                        BY <3>1
                  <4> QED BY <3>2, <4>1
            <3> QED BY <3>3, FormatRoundTrip
      <2> QED BY <2>1 DEF DInv, Called, Delivered
<1> QED BY <1>1, <1>2, InitEstablishesDInv, PTL DEF Spec

\* Only a packet that is received changes the calls, and then the option that
\* is looked at is the one that was set last.
LEMMA AnswersAsAsked ==
    ASSUME DInv, Answered, [Next]_vars, tasks' # tasks, NEW i \in DOMAIN tasks'
    PROVE  (tasks'[i].netaddr # {}) = asked[tasks'[i].proc]
<1>1. PICK d \in net, again \in BOOLEAN : Receive(d.to, d, again)
      <2>1. DatagramNext
            BY DatagramSteps DEF datagramVars
      <2>2. ASSUME NEW p \in Procs, NEW f, NEW v, SetOption(p, f, v)
            PROVE  FALSE
            BY <2>2 DEF SetOption
      <2> QED BY <2>1, <2>2 DEF DatagramNext, StartServer, StartServerEnd, SetType,
                 SendFromServerSocket, SetMsgIncludeNetaddr, Send, SendOSC, ForeignSend
<1> DEFINE s == d.to
           p == server[s].proc
           m == CallsOf(d.packet)[i]
<1>2. s \in Servers /\ p # None
      BY <1>1 DEF Receive, DInv, Written
<1>3. p \in Procs /\ current[p] # None
      BY <1>2 DEF DInv, RInv, DType, ServerType, Registered
<1>4. tasks'[i] = Task(s, d, m)
      BY <1>1, <1>2 DEF Receive
<1>5. /\ tasks'[i].proc = p
      /\ tasks'[i].netaddr = IF server[current[p]].netaddr THEN {d.from} ELSE {}
      BY <1>4 DEF Task, WithAddress
<1>6. server[current[p]].netaddr = asked[p] /\ asked[p] \in BOOLEAN
      BY <1>3 DEF Answered, DInv, RInv, DType
<1> QED BY <1>5, <1>6

\* A handler gets the address of the sender if and only if its process has
\* asked for addresses with io:osc:netaddress?, on all its servers, when no
\* server is started after it has asked.
THEOREM AddressesAsAsked ==
    ASSUME ~ MayReset
    PROVE  Spec => AddressAsAsked
<1> DEFINE Right == \A i \in DOMAIN tasks' : (tasks'[i].netaddr # {}) = asked[tasks'[i].proc]
<1>1. DInv /\ Answered /\ [Next]_vars => (DInv /\ Answered)'
      BY StepKeepsDInv
<1>2. DInv /\ Answered /\ [Next]_vars => [Right]_tasks
      BY AnswersAsAsked
<1>3. AddressAsAsked <=> [][Right]_tasks
      BY DEF AddressAsAsked
<1> HIDE DEF Right
<1> QED BY <1>1, <1>2, <1>3, InitEstablishesDInv, PTL DEF Spec

----------------------------------------------------------------------------
(* The TCP server: sequences of bytes, and their partial results. *)

\* Sequences are joined in any order.
Joins(S, x, y, z) ==
    x \in Seq(S) /\ y \in Seq(S) /\ z \in Seq(S) => (x \o y) \o z = x \o (y \o z)

\* Joining sequences is associative.
LEMMA JoinsAlways ==
  ASSUME NEW S, NEW x, NEW y, NEW z
  PROVE  Joins(S, x, y, z)
BY ConcatAssociative DEF Joins

\* The partial results are determined by what is flattened.
LEMMA FlattenIs ==
  ASSUME NEW X, NEW seqs \in Seq(Seq(X)), NEW F, Partial(F, seqs, X)
  PROVE  FlattenSeq(seqs) = F[Len(seqs)]
<1> DEFINE n == Len(seqs)
<1>1. PICK G : Partial(G, seqs, X) /\ FlattenSeq(seqs) = G[n]
  BY FlattenPartial
<1> DEFINE S == {m \in Nat : m <= n => F[m] = G[m]}
<1>2. n \in Nat
  OBVIOUS
<1>3. 0 \in S
  BY <1>1 DEF Partial
<1>4. ASSUME NEW m \in Nat, m \in S PROVE m + 1 \in S
  <2> SUFFICES ASSUME m + 1 <= n PROVE F[m + 1] = G[m + 1]
    OBVIOUS
  <2>1. m + 1 \in 1 .. n /\ (m + 1) - 1 = m /\ m <= n
    BY <1>2
  <2>2. F[m] = G[m]
    BY <1>4, <2>1
  <2>3. F[m + 1] = F[m] \o seqs[m + 1] /\ G[m + 1] = G[m] \o seqs[m + 1]
    BY <2>1, <1>1 DEF Partial
  <2> QED BY <2>2, <2>3
<1> HIDE DEF S
<1>5. n \in S
  BY <1>2, <1>3, <1>4, NatSetInduction
<1> QED BY <1>1, <1>2, <1>5 DEF S

\* The sequence t is s with one more element.
OneMore(t, s) == Len(t) = Len(s) + 1 /\ \A i \in 1 .. Len(s) : t[i] = s[i]

\* FlattenSeq of a sequence that has one more element.
LEMMA FlattenAppend ==
  ASSUME NEW X, NEW s \in Seq(Seq(X)), NEW t \in Seq(Seq(X)), OneMore(t, s)
  PROVE  /\ FlattenSeq(s) \in Seq(X) /\ FlattenSeq(t) \in Seq(X)
         /\ FlattenSeq(t) = FlattenSeq(s) \o t[Len(s) + 1]
<1> DEFINE n == Len(s)
<1>1. PICK F : Partial(F, t, X) /\ FlattenSeq(t) = F[n + 1]
  <2>1. \E F : Partial(F, t, X) /\ FlattenSeq(t) = F[Len(t)]
    BY FlattenPartial
  <2>2. Len(t) = n + 1
    BY DEF OneMore
  <2> QED BY <2>1, <2>2
<1>2. n \in Nat /\ n + 1 \in 0 .. n + 1 /\ n \in 0 .. n + 1 /\ n + 1 \in 1 .. n + 1 /\ (n + 1) - 1 = n
      /\ Len(t) = n + 1 /\ \A i \in 1 .. n : t[i] = s[i]
  BY DEF OneMore
<1>3. F \in [0 .. n + 1 -> Seq(X)] /\ F[0] = <<>> /\ \A i \in 1 .. n + 1 : F[i] = F[i - 1] \o t[i]
  BY <1>1, <1>2 DEF Partial
<1> DEFINE G == [i \in 0 .. n |-> F[i]]
<1>4. G \in [0 .. n -> Seq(X)] /\ G[0] = <<>> /\ G[n] = F[n]
  BY <1>2, <1>3
<1>5. ASSUME NEW i \in 1 .. n PROVE G[i] = G[i - 1] \o s[i]
  <2>1. i \in 0 .. n /\ i - 1 \in 0 .. n /\ i \in 1 .. n + 1
    BY <1>2
  <2>2. G[i] = F[i] /\ G[i - 1] = F[i - 1] /\ t[i] = s[i]
    BY <2>1, <1>2
  <2> QED BY <2>1, <2>2, <1>3
<1> HIDE DEF G
<1>6. Partial(G, s, X)
  BY <1>4, <1>5 DEF Partial
<1>7. FlattenSeq(s) = F[n]
  BY <1>4, <1>6, FlattenIs
<1>8. F[n + 1] = F[n] \o t[n + 1] /\ F[n] \in Seq(X) /\ F[n + 1] \in Seq(X)
  BY <1>2, <1>3
<1> QED BY <1>1, <1>7, <1>8

----------------------------------------------------------------------------
(* The streams of the clients. *)

\* What a byte of a stream can be.
Byte ==
    {END, ESC, ESC_END, ESC_ESC, "junk"}
        \cup UNION {UNION {ToSet(p) : p \in ToSet(Payloads[c])} : c \in Conns}

\* The payloads are sequences of bytes.
LEMMA PayloadsTyped ==
  ASSUME NEW c \in Conns
  PROVE  /\ Payloads[c] \in Seq(Seq(Byte)) /\ Len(Payloads[c]) \in Nat
         /\ \A i \in 1 .. Len(Payloads[c]) : Payloads[c][i] \in Seq(Byte) /\ Payloads[c][i] # <<>>
<1> DEFINE P == Payloads[c]
<1>1. P \in Seq(ToSet(P)) /\ \A p \in ToSet(P) : p \in Seq(ToSet(p)) /\ p # <<>>
  BY StreamAssumption
<1>2. \A p \in ToSet(P) : ToSet(p) \subseteq Byte
  BY DEF Byte
<1> HIDE DEF P
<1>3. \A p \in ToSet(P) : p \in Seq(Byte)
  <2> SUFFICES ASSUME NEW p \in ToSet(P) PROVE p \in Seq(Byte)
    OBVIOUS
  <2>1. p \in Seq(ToSet(p)) /\ ToSet(p) \subseteq Byte
    BY <1>1, <1>2
  <2> QED BY <2>1
<1>4. P \in Seq(Seq(Byte)) /\ Len(P) \in Nat
  <2>1. \A i \in 1 .. Len(P) : P[i] \in Seq(Byte)
    BY <1>1, <1>3 DEF ToSet
  <2> QED BY <2>1, <1>1
<1>5. \A i \in 1 .. Len(P) : P[i] \in ToSet(P)
  BY <1>1 DEF ToSet
<1> QED BY <1>1, <1>3, <1>4, <1>5 DEF P

\* Where a reader of a stream of packets is: after how many packets, inside a
\* packet or not, what it has of that packet, and whether the last byte was an
\* ESC.
Mark == [done : Nat, inside : BOOLEAN, data : Seq(Byte), esc : BOOLEAN]
At(k, b, d, e) == [done |-> k, inside |-> b, data |-> d, esc |-> e]

\* The next byte of a stream of the packets P.
Legal(P, s, b) ==
    /\ b \in Byte
    /\ ~ s.inside => b = END
    /\ s.inside /\ ~ s.esc /\ b = END => s.done < Len(P) /\ s.data = P[s.done + 1]
    /\ s.inside /\ s.esc => b \in {ESC_END, ESC_ESC}

After(s, b) ==
    IF ~ s.inside THEN At(s.done, TRUE, <<>>, FALSE)
    ELSE IF s.esc THEN At(s.done, TRUE, Append(s.data, IF b = ESC_END THEN END ELSE ESC), FALSE)
    ELSE IF b = END THEN At(s.done + 1, FALSE, <<>>, FALSE)
    ELSE IF b = ESC THEN At(s.done, TRUE, s.data, TRUE)
    ELSE At(s.done, TRUE, Append(s.data, b), FALSE)

Start0 == At(0, FALSE, <<>>, FALSE)

Marks(m, w, P) ==
    /\ m \in [0 .. Len(w) -> Mark] /\ m[0] = Start0
    /\ \A x \in 1 .. Len(w) : Legal(P, m[x - 1], w[x]) /\ m[x] = After(m[x - 1], w[x])

\* The reader is at s after the stream w.
Leads(w, P, s) == w \in Seq(Byte) /\ \E m : Marks(m, w, P) /\ m[Len(w)] = s

\* Marks are marks.
LEMMA MarkFields ==
  /\ \A k \in Nat, b \in BOOLEAN, d \in Seq(Byte), e \in BOOLEAN :
       /\ At(k, b, d, e) \in Mark
       /\ At(k, b, d, e).done = k /\ At(k, b, d, e).inside = b
       /\ At(k, b, d, e).data = d /\ At(k, b, d, e).esc = e
  /\ \A s \in Mark : /\ s = At(s.done, s.inside, s.data, s.esc)
                     /\ s.done \in Nat /\ s.inside \in BOOLEAN
                     /\ s.data \in Seq(Byte) /\ s.esc \in BOOLEAN
BY DEF Mark, At

\* The bytes of SLIP are four different bytes.
LEMMA SlipBytes ==
  /\ {END, ESC, ESC_END, ESC_ESC, "junk"} \subseteq Byte
  /\ END # ESC /\ END # ESC_END /\ END # ESC_ESC /\ ESC # ESC_END /\ ESC # ESC_ESC /\ ESC_END # ESC_ESC
<1>1. {END, ESC, ESC_END, ESC_ESC, "junk"} \subseteq Byte
  BY DEF Byte
<1>2. END # ESC /\ END # ESC_END /\ END # ESC_ESC /\ ESC # ESC_END /\ ESC # ESC_ESC /\ ESC_END # ESC_ESC
  BY DEF END, ESC, ESC_END, ESC_ESC
<1> QED BY <1>1, <1>2

\* A step of the reader leads to a mark.
LEMMA AfterTyped ==
  ASSUME NEW s \in Mark, NEW b \in Byte
  PROVE  After(s, b) \in Mark
<1>1. s.done \in Nat /\ s.data \in Seq(Byte)
  BY MarkFields
<1>0. s.done + 1 \in Nat
  BY <1>1
<1>2. Append(s.data, IF b = ESC_END THEN END ELSE ESC) \in Seq(Byte) /\ Append(s.data, b) \in Seq(Byte)
      /\ <<>> \in Seq(Byte)
  <2>1. END \in Byte /\ ESC \in Byte
    BY SlipBytes
  <2>2. (IF b = ESC_END THEN END ELSE ESC) \in Byte
    BY <2>1
  <2> QED BY <1>1, <2>2
<1> QED BY <1>1, <1>0, <1>2, MarkFields DEF After

\* One more byte.
LEMMA LeadsMore ==
  ASSUME NEW w, NEW P, NEW s, Leads(w, P, s), NEW b, Legal(P, s, b)
  PROVE  Leads(Append(w, b), P, After(s, b)) /\ s \in Mark
<1>1. w \in Seq(Byte) /\ b \in Byte /\ Len(w) \in Nat
  BY DEF Leads, Legal
<1>2. PICK m : Marks(m, w, P) /\ m[Len(w)] = s
  BY DEF Leads
<1> DEFINE n == Len(w)
           v == Append(w, b)
           f == [x \in 0 .. n + 1 |-> IF x = n + 1 THEN After(s, b) ELSE m[x]]
<1>3. v \in Seq(Byte) /\ Len(v) = n + 1 /\ v[n + 1] = b /\ \A x \in 1 .. n : v[x] = w[x]
  BY <1>1
<1>4. m \in [0 .. n -> Mark] /\ m[0] = Start0 /\ n \in 0 .. n
      /\ \A x \in 1 .. n : Legal(P, m[x - 1], w[x]) /\ m[x] = After(m[x - 1], w[x])
  BY <1>1, <1>2 DEF Marks
<1>5. s \in Mark /\ After(s, b) \in Mark
  BY <1>1, <1>2, <1>4, AfterTyped
<1>6. f \in [0 .. n + 1 -> Mark] /\ f[0] = Start0 /\ f[n + 1] = After(s, b) /\ f[n] = s
      /\ \A x \in 0 .. n : f[x] = m[x]
  BY <1>1, <1>2, <1>4, <1>5
<1> HIDE DEF f, v
<1>7. ASSUME NEW x \in 1 .. n + 1 PROVE Legal(P, f[x - 1], v[x]) /\ f[x] = After(f[x - 1], v[x])
  <2>1. CASE x = n + 1
    <3>1. x - 1 = n
      BY <2>1, <1>1
    <3> QED BY <2>1, <3>1, <1>3, <1>6
  <2>2. CASE x # n + 1
    <3>1. x \in 1 .. n /\ x \in 0 .. n /\ x - 1 \in 0 .. n
      BY <2>2, <1>1
    <3> QED BY <3>1, <1>3, <1>4, <1>6
  <2> QED BY <2>1, <2>2
<1>8. Marks(f, v, P) /\ f[Len(v)] = After(s, b)
  BY <1>3, <1>6, <1>7 DEF Marks
<1> QED BY <1>3, <1>5, <1>8 DEF Leads, v

\* The place before a stream.
LEMMA LeadsNone ==
  ASSUME NEW P PROVE Leads(<<>>, P, Start0)
<1>1. <<>> \in Seq(Byte) /\ Len(<<>>) = 0 /\ 1 .. 0 = {} /\ 0 .. 0 = {0}
  OBVIOUS
<1>2. Start0 \in Mark
  <2>1. 0 \in Nat /\ FALSE \in BOOLEAN /\ <<>> \in Seq(Byte)
    OBVIOUS
  <2> QED BY <2>1, MarkFields DEF Start0
<1>3. Marks([x \in 0 .. 0 |-> Start0], <<>>, P)
  BY <1>1, <1>2 DEF Marks
<1>4. [x \in 0 .. 0 |-> Start0][0] = Start0
  BY <1>1
<1> QED BY <1>1, <1>3, <1>4 DEF Leads

\* After the bytes of a payload the reader has that payload.
LEMMA LeadsPayload ==
  ASSUME NEW P, NEW w, NEW k \in Nat, Leads(w, P, At(k, TRUE, <<>>, FALSE)),
         NEW p \in Seq(Byte)
  PROVE  Leads(w \o Escaped(p), P, At(k, TRUE, p, FALSE)) /\ Escaped(p) \in Seq(Byte)
<1> DEFINE e == [i \in 1 .. Len(p) |->
                   CASE p[i] = END -> <<ESC, ESC_END>>
                     [] p[i] = ESC -> <<ESC, ESC_ESC>>
                     [] OTHER -> <<p[i]>>]
           n == Len(p)
<1>1. n \in Nat /\ w \in Seq(Byte) /\ DOMAIN p = 1 .. n
  BY DEF Leads
<1>2. Escaped(p) = FlattenSeq(e)
  BY <1>1 DEF Escaped
<1>3. ASSUME NEW i \in 1 .. n
      PROVE  /\ p[i] = END => e[i] = <<ESC, ESC_END>>
             /\ p[i] = ESC => e[i] = <<ESC, ESC_ESC>>
             /\ p[i] # END /\ p[i] # ESC => e[i] = <<p[i]>>
             /\ e[i] \in Seq(Byte) /\ p[i] \in Byte
  <2>1. p[i] \in Byte /\ <<p[i]>> \in Seq(Byte)
    OBVIOUS
  <2>2. <<ESC, ESC_END>> \in Seq(Byte) /\ <<ESC, ESC_ESC>> \in Seq(Byte)
    BY SlipBytes
  <2> QED BY <2>1, <2>2, SlipBytes
<1>4. e \in Seq(Seq(Byte)) /\ Len(e) = n
  <2>1. e = [i \in 1 .. n |-> e[i]]
    OBVIOUS
  <2> HIDE DEF e
  <2>2. \A i \in 1 .. n : e[i] \in Seq(Byte)
    BY <1>3
  <2> QED BY <2>1, <2>2, <1>1
<1> HIDE DEF e
<1>5. PICK G : Partial(G, e, Byte) /\ FlattenSeq(e) = G[n]
  BY <1>4, FlattenPartial
<1>6. G \in [0 .. n -> Seq(Byte)] /\ G[0] = <<>> /\ \A i \in 1 .. n : G[i] = G[i - 1] \o e[i]
  BY <1>4, <1>5 DEF Partial
<1> HIDE DEF n
<1> DEFINE Good(j) == Leads(w \o G[j], P, At(k, TRUE, SubSeq(p, 1, j), FALSE))
           S == {j \in Nat : j <= n => Good(j)}
<1>7. 0 \in S
  <2>1. w \o G[0] = w /\ SubSeq(p, 1, 0) = <<>>
    BY <1>1, <1>6
  <2> QED BY <2>1
<1>8. ASSUME NEW j \in Nat, j \in S PROVE j + 1 \in S
  <2> SUFFICES ASSUME j + 1 <= n
               PROVE  Leads(w \o G[j + 1], P, At(k, TRUE, SubSeq(p, 1, j + 1), FALSE))
    <3>1. (j + 1 <= n => Good(j + 1)) => j + 1 \in S
      <4> HIDE DEF Good
      <4> QED OBVIOUS
    <3> QED BY <3>1
  <2> DEFINE d == SubSeq(p, 1, j)
             v == w \o G[j]
             s == At(k, TRUE, d, FALSE)
  <2>1. j + 1 \in 1 .. n /\ (j + 1) - 1 = j /\ j <= n /\ j \in 0 .. n
    BY <1>1
  <2>2. d \in Seq(Byte) /\ SubSeq(p, 1, j + 1) = Append(d, p[j + 1])
    BY <2>1, <1>1 DEF n
  <2>3. Leads(v, P, s)
    <3>1. Good(j)
      <4> HIDE DEF Good
      <4> QED BY <1>8, <2>1
    <3> QED BY <3>1
  <2>4. w \o G[j + 1] = v \o e[j + 1] /\ v \in Seq(Byte)
    <3>1. w \in Seq(Byte) /\ G[j] \in Seq(Byte) /\ e[j + 1] \in Seq(Byte)
      BY <2>1, <1>1, <1>3, <1>6
    <3>2. G[j + 1] = G[j] \o e[j + 1]
      BY <2>1, <1>6
    <3>3. w \o (G[j] \o e[j + 1]) = (w \o G[j]) \o e[j + 1]
      <4>1. PICK x, y : x = G[j] /\ y = e[j + 1]
        OBVIOUS
      <4>2. x \in Seq(Byte) /\ y \in Seq(Byte)
        BY <3>1, <4>1
      <4>3. w \o (x \o y) = (w \o x) \o y
        <5>1. Joins(Byte, w, x, y)
          BY JoinsAlways
        <5> QED BY <3>1, <4>2, <5>1, Zenon DEF Joins
      <4> QED BY <4>1, <4>3
    <3>4. w \o G[j] \in Seq(Byte)
      BY <3>1
    <3> QED BY <3>2, <3>3, <3>4
  <2>5. s.done = k /\ s.inside = TRUE /\ s.data = d /\ s.esc = FALSE
    BY DEF At
  <2> HIDE DEF d, v, s
  <2>6. CASE p[j + 1] # END /\ p[j + 1] # ESC
    <3>1. e[j + 1] = <<p[j + 1]>> /\ p[j + 1] \in Byte
      BY <2>1, <2>6, <1>3
    <3>2. v \o <<p[j + 1]>> = Append(v, p[j + 1])
      BY <2>4, <3>1
    <3>3. Legal(P, s, p[j + 1]) /\ After(s, p[j + 1]) = At(k, TRUE, Append(d, p[j + 1]), FALSE)
      BY <2>5, <2>6, <3>1 DEF Legal, After
    <3>4. Leads(Append(v, p[j + 1]), P, After(s, p[j + 1]))
      BY <2>3, <3>3, LeadsMore
    <3> QED BY <2>2, <2>4, <3>1, <3>2, <3>3, <3>4
  <2>7. ASSUME NEW b, e[j + 1] = <<ESC, b>>,
               (b = ESC_END /\ p[j + 1] = END) \/ (b = ESC_ESC /\ p[j + 1] = ESC)
        PROVE  Leads(w \o G[j + 1], P, At(k, TRUE, SubSeq(p, 1, j + 1), FALSE))
    <3> DEFINE r == At(k, TRUE, d, TRUE)
    <3>1. b \in Byte /\ ESC \in Byte
      BY <2>7, SlipBytes
    <3>2. v \o <<ESC, b>> = Append(Append(v, ESC), b)
      BY <2>4, <3>1
    <3>3. r.done = k /\ r.inside = TRUE /\ r.data = d /\ r.esc = TRUE
      BY DEF At
    <3>4. Legal(P, s, ESC) /\ After(s, ESC) = r
      BY <2>5, <3>1, SlipBytes DEF Legal, After
    <3> HIDE DEF r
    <3>5. Legal(P, r, b) /\ After(r, b) = At(k, TRUE, Append(d, p[j + 1]), FALSE)
      BY <2>7, <3>1, <3>3, SlipBytes DEF Legal, After
    <3>6. Leads(Append(v, ESC), P, r)
      BY <2>3, <3>4, LeadsMore
    <3>7. Leads(Append(Append(v, ESC), b), P, After(r, b))
      BY <3>5, <3>6, LeadsMore
    <3> QED BY <2>2, <2>4, <2>7, <3>2, <3>5, <3>7
  <2>8. CASE p[j + 1] = END
    <3>1. e[j + 1] = <<ESC, ESC_END>>
      BY <2>1, <2>8, <1>3
    <3> QED BY <2>7, <2>8, <3>1
  <2>9. CASE p[j + 1] = ESC
    <3>1. e[j + 1] = <<ESC, ESC_ESC>>
      BY <2>1, <2>9, <1>3
    <3> QED BY <2>7, <2>9, <3>1
  <2> QED BY <2>6, <2>8, <2>9
<1>9. Good(n)
  <2>1. n \in S
    <3> HIDE DEF S
    <3> QED BY <1>1, <1>7, <1>8, NatSetInduction
  <2> HIDE DEF Good
  <2> QED BY <2>1, <1>1
<1>10. SubSeq(p, 1, n) = p
  BY DEF n
<1>11. G[n] \in Seq(Byte)
  BY <1>1, <1>6
<1> QED BY <1>1, <1>2, <1>5, <1>9, <1>10, <1>11

\* A packet leads from one gap between packets to the next.
LEMMA LeadsPacket ==
  ASSUME NEW P, NEW w, NEW k \in Nat, Leads(w, P, At(k, FALSE, <<>>, FALSE)),
         k + 1 <= Len(P), Len(P) \in Nat, P[k + 1] \in Seq(Byte)
  PROVE  /\ (<<END>> \o Escaped(P[k + 1])) \o <<END>> \in Seq(Byte)
         /\ Leads(w \o ((<<END>> \o Escaped(P[k + 1])) \o <<END>>), P, At(k + 1, FALSE, <<>>, FALSE))
<1> DEFINE p == P[k + 1]
           x == Escaped(p)
           v == Append(w, END)
           a == At(k, FALSE, <<>>, FALSE)
           b == At(k, TRUE, <<>>, FALSE)
           d == At(k, TRUE, p, FALSE)
<1>1. END \in Byte /\ <<>> \in Seq(Byte) /\ w \in Seq(Byte)
  BY SlipBytes DEF Leads
<1>2. /\ a.done = k /\ a.inside = FALSE
      /\ d.done = k /\ d.inside = TRUE /\ d.data = p /\ d.esc = FALSE
  BY DEF At
<1> HIDE DEF a, d
<1>3. Legal(P, a, END) /\ After(a, END) = b
  <2>1. ~ a.inside /\ ~(a.inside = TRUE)
    BY <1>2
  <2> QED BY <1>1, <1>2, <2>1 DEF Legal, After
<1>4. Legal(P, d, END) /\ After(d, END) = At(k + 1, FALSE, <<>>, FALSE)
  <2>1. d.inside /\ ~ d.esc /\ ~(d.inside = FALSE) /\ ~(d.esc = TRUE)
    BY <1>2
  <2>2. d.done < Len(P) /\ d.data = P[d.done + 1]
    BY <1>2
  <2>3. Legal(P, d, END)
    BY <1>1, <2>1, <2>2, Zenon DEF Legal
  <2>4. After(d, END) = At(d.done + 1, FALSE, <<>>, FALSE)
    BY <2>1, Zenon DEF After
  <2> QED BY <2>3, <2>4, <1>2
<1>5. Leads(v, P, b)
  BY <1>3, LeadsMore DEF a
<1>6. Leads(v \o x, P, d) /\ x \in Seq(Byte)
  <2>1. p \in Seq(Byte)
    OBVIOUS
  <2> QED BY <1>5, <2>1, LeadsPayload DEF d
<1>7. Leads(Append(v \o x, END), P, At(k + 1, FALSE, <<>>, FALSE))
  BY <1>4, <1>6, LeadsMore
<1> HIDE DEF x, b
<1>8. /\ (<<END>> \o x) \o <<END>> \in Seq(Byte) /\ v \in Seq(Byte)
      /\ Append(v \o x, END) = w \o ((<<END>> \o x) \o <<END>>)
  <2>1. <<END>> \in Seq(Byte) /\ <<END>> \o x \in Seq(Byte) /\ (<<END>> \o x) \o <<END>> \in Seq(Byte)
    BY <1>1, <1>6
  <2>2. v = w \o <<END>> /\ v \in Seq(Byte)
    BY <1>1
  <2>3. v \o x = w \o (<<END>> \o x) /\ v \o x \in Seq(Byte)
    <3>1. (w \o <<END>>) \o x = w \o (<<END>> \o x)
      <4>1. Joins(Byte, w, <<END>>, x) /\ w \in Seq(Byte) /\ x \in Seq(Byte)
        BY <1>1, <1>6, JoinsAlways
      <4> QED BY <2>1, <4>1, Zenon DEF Joins
    <3>2. v \o x \in Seq(Byte)
      BY <2>2, <1>6
    <3> QED BY <2>2, <3>1, <3>2
  <2>4. Append(v \o x, END) = (v \o x) \o <<END>>
    BY <2>3, <1>1
  <2>5. (w \o (<<END>> \o x)) \o <<END>> = w \o ((<<END>> \o x) \o <<END>>)
    <3>1. PICK y : y = <<END>> \o x
      OBVIOUS
    <3>2. y \in Seq(Byte)
      BY <2>1, <3>1
    <3>3. (w \o y) \o <<END>> = w \o (y \o <<END>>)
      <4>1. Joins(Byte, w, y, <<END>>) /\ w \in Seq(Byte)
        BY <1>1, JoinsAlways
      <4> QED BY <2>1, <3>2, <4>1, Zenon DEF Joins
    <3> QED BY <3>1, <3>3
  <2> QED BY <2>1, <2>2, <2>3, <2>4, <2>5
<1> QED BY <1>7, <1>8 DEF x

\* The stream of a client consists of bytes, and of a client that sends
\* nothing between packets it has marks.
LEMMA StreamMarked ==
  ASSUME NEW c \in Conns
  PROVE  /\ Stream[c] \in Seq(Byte)
         /\ c \notin Junk => \E m : Marks(m, Stream[c], Payloads[c])
<1> DEFINE P == Payloads[c]
           n == Len(P)
           pre == IF c \in Junk THEN <<"junk">> ELSE <<>>
           seg == [i \in 1 .. n |-> pre \o <<END>> \o Escaped(P[i]) \o <<END>>]
<1>1. n \in Nat /\ DOMAIN P = 1 .. n /\ \A i \in 1 .. n : P[i] \in Seq(Byte)
  BY PayloadsTyped
<1>2. Stream[c] = FlattenSeq(seg)
  BY <1>1 DEF Stream
<1>3. \A i \in 1 .. n : Escaped(P[i]) \in Seq(Byte)
  <2> SUFFICES ASSUME NEW i \in 1 .. n PROVE Escaped(P[i]) \in Seq(Byte)
    OBVIOUS
  <2>1. Leads(Append(<<>>, END), <<>>, At(0, TRUE, <<>>, FALSE))
    <3>1. <<>> \in Seq(Byte) /\ 0 \in Nat /\ END \in Byte
      BY SlipBytes
    <3>2. Start0.inside = FALSE /\ Start0.done = 0
      BY <3>1, MarkFields DEF Start0
    <3>3. Legal(<<>>, Start0, END) /\ After(Start0, END) = At(0, TRUE, <<>>, FALSE)
      BY <3>1, <3>2 DEF Legal, After
    <3> QED BY <3>3, LeadsNone, LeadsMore
  <2> QED BY <2>1, <1>1, LeadsPayload
<1>4. pre \in Seq(Byte) /\ (c \notin Junk => pre = <<>>) /\ <<END>> \in Seq(Byte)
  <2>1. "junk" \in Byte /\ END \in Byte
    BY SlipBytes
  <2> QED BY <2>1
<1>5. seg \in Seq(Seq(Byte)) /\ Len(seg) = n
      /\ \A i \in 1 .. n : seg[i] = pre \o <<END>> \o Escaped(P[i]) \o <<END>>
  <2>1. /\ seg = [i \in 1 .. n |-> seg[i]]
        /\ \A i \in 1 .. n : seg[i] = pre \o <<END>> \o Escaped(P[i]) \o <<END>>
    OBVIOUS
  <2> HIDE DEF seg, pre
  <2>2. ASSUME NEW i \in 1 .. n PROVE seg[i] \in Seq(Byte)
    <3>1. PICK x : x = Escaped(P[i])
      OBVIOUS
    <3>2. x \in Seq(Byte)
      BY <1>3, <3>1
    <3>3. pre \o <<END>> \o x \o <<END>> \in Seq(Byte)
      BY <3>2, <1>4
    <3> QED BY <2>1, <3>1, <3>3
  <2>3. seg \in Seq(Seq(Byte)) /\ Len(seg) = n
    <3> HIDE DEF n
    <3>1. seg \in [1 .. n -> Seq(Byte)]
      BY <2>1, <2>2
    <3> QED BY <3>1, <1>1
  <2> QED BY <2>1, <2>3
<1> HIDE DEF seg, pre
<1>6. PICK F : Partial(F, seg, Byte) /\ FlattenSeq(seg) = F[n]
  BY <1>5, FlattenPartial
<1>7. F \in [0 .. n -> Seq(Byte)] /\ F[0] = <<>> /\ \A i \in 1 .. n : F[i] = F[i - 1] \o seg[i]
  BY <1>5, <1>6 DEF Partial
<1>8. ASSUME c \notin Junk PROVE \E m : Marks(m, Stream[c], P)
  <2> DEFINE Good(k) == Leads(F[k], P, At(k, FALSE, <<>>, FALSE))
             S == {k \in Nat : k <= n => Good(k)}
  <2>1. 0 \in S
    BY <1>7, LeadsNone DEF Start0
  <2>2. ASSUME NEW k \in Nat, k \in S PROVE k + 1 \in S
    <3> SUFFICES ASSUME k + 1 <= n PROVE Leads(F[k + 1], P, At(k + 1, FALSE, <<>>, FALSE))
      <4>1. (k + 1 <= n => Good(k + 1)) => k + 1 \in S
        <5> HIDE DEF Good, n
        <5> QED OBVIOUS
      <4> QED BY <4>1
    <3>1. k <= n /\ k + 1 \in 1 .. n /\ (k + 1) - 1 = k
      BY <1>1
    <3>2. Leads(F[k], P, At(k, FALSE, <<>>, FALSE)) /\ P[k + 1] \in Seq(Byte)
      <4>1. Good(k)
        <5> HIDE DEF Good
        <5> QED BY <2>2, <3>1
      <4> QED BY <4>1, <3>1, <1>1
    <3>3. seg[k + 1] = (<<END>> \o Escaped(P[k + 1])) \o <<END>>
      <4>1. <<>> \o <<END>> = <<END>>
        BY <1>4
      <4> QED BY <4>1, <3>1, <1>4, <1>5, <1>8
    <3>4. F[k + 1] = F[k] \o seg[k + 1]
      BY <3>1, <1>7
    <3> HIDE DEF P, n
    <3>5. Leads(F[k] \o ((<<END>> \o Escaped(P[k + 1])) \o <<END>>), P, At(k + 1, FALSE, <<>>, FALSE))
      BY <3>1, <3>2, <1>1, LeadsPacket DEF n
    <3> QED BY <3>3, <3>4, <3>5
  <2>3. n \in S
    <3> HIDE DEF S
    <3> QED BY <1>1, <2>1, <2>2, NatSetInduction
  <2>4. Leads(F[n], P, At(n, FALSE, <<>>, FALSE))
    <3>1. Good(n)
      <4> HIDE DEF Good, n
      <4> QED BY <2>3, <1>1
    <3> QED BY <3>1
  <2> QED BY <2>4, <1>2, <1>6 DEF Leads
<1>9. Stream[c] \in Seq(Byte)
  BY <1>1, <1>2, <1>6, <1>7
<1> QED BY <1>8, <1>9

\* The marks of a client's stream.
Marking(c) == CHOOSE m : Marks(m, Stream[c], Payloads[c])

\* The stream of a client without junk has marks, and these are they.
LEMMA MarkingMarks ==
  ASSUME NEW c \in Conns \ Junk
  PROVE  Marks(Marking(c), Stream[c], Payloads[c])
BY StreamMarked DEF Marking

\* What neighbouring marks say of each other and of the byte between them.
Stepped(m, w, P, y, x) ==
    /\ y \in 0 .. Len(w) /\ x \in 0 .. Len(w) /\ m[y] \in Mark /\ m[x] \in Mark
    /\ Legal(P, m[y], w[x]) /\ m[x] = After(m[y], w[x])
    /\ m[y].inside = FALSE =>
         /\ w[x] = END
         /\ m[x].done = m[y].done /\ m[x].inside = TRUE
         /\ m[x].data = <<>> /\ m[x].esc = FALSE
    /\ m[y].inside = TRUE /\ w[x] = END =>
         /\ m[y].esc = FALSE /\ m[y].done < Len(P) /\ m[y].data = P[m[y].done + 1]
         /\ m[x].done = m[y].done + 1 /\ m[x].inside = FALSE
    /\ m[y].inside = TRUE /\ w[x] # END => m[x].done = m[y].done /\ m[x].inside = TRUE

\* Neighbouring marks are a step of the reader apart.
LEMMA MarkStep ==
  ASSUME NEW m, NEW w \in Seq(Byte), NEW P, Marks(m, w, P), NEW y \in Nat, NEW x \in 1 .. Len(w), x = y + 1
  PROVE  Stepped(m, w, P, y, x)
<1>1. y \in 0 .. Len(w) /\ x \in 0 .. Len(w) /\ x - 1 = y
  OBVIOUS
<1>2. m[y] \in Mark /\ m[x] \in Mark
      /\ Legal(P, m[y], w[x]) /\ m[x] = After(m[y], w[x])
  BY <1>1 DEF Marks
<1>3. PICK s, b : s = m[y] /\ b = w[x]
  OBVIOUS
<1>4. Legal(P, s, b) /\ m[x] = After(s, b) /\ s.inside \in BOOLEAN /\ s.esc \in BOOLEAN
  BY <1>2, <1>3, MarkFields
<1>5. ~ s.inside => /\ b = END
                    /\ m[x].done = s.done /\ m[x].inside = TRUE
                    /\ m[x].data = <<>> /\ m[x].esc = FALSE
  <2> SUFFICES ASSUME ~ s.inside
               PROVE  /\ b = END
                      /\ m[x].done = s.done /\ m[x].inside = TRUE
                      /\ m[x].data = <<>> /\ m[x].esc = FALSE
    OBVIOUS
  <2>1. b = END /\ m[x] = At(s.done, TRUE, <<>>, FALSE)
    BY <1>4 DEF Legal, After
  <2> QED BY <2>1 DEF At
<1>6. s.inside /\ s.esc => b # END
  BY <1>4, SlipBytes DEF Legal
<1>7. s.inside /\ b = END => /\ s.esc = FALSE /\ s.done < Len(P) /\ s.data = P[s.done + 1]
                             /\ m[x].done = s.done + 1 /\ m[x].inside = FALSE
  <2> SUFFICES ASSUME s.inside, b = END
               PROVE  /\ s.esc = FALSE /\ s.done < Len(P) /\ s.data = P[s.done + 1]
                      /\ m[x].done = s.done + 1 /\ m[x].inside = FALSE
    OBVIOUS
  <2>1. s.esc = FALSE /\ ~ s.esc
    BY <1>4, <1>6
  <2>2. m[x] = At(s.done + 1, FALSE, <<>>, FALSE)
    BY <2>1, <1>4 DEF After
  <2>3. s.done < Len(P) /\ s.data = P[s.done + 1]
    BY <2>1, <1>4 DEF Legal
  <2> QED BY <2>1, <2>2, <2>3 DEF At
<1>8. s.inside /\ b # END => m[x].done = s.done /\ m[x].inside = TRUE
  BY <1>4 DEF After, At
<1> QED BY <1>1, <1>2, <1>3, <1>4, <1>5, <1>7, <1>8 DEF Stepped

\* A reader never goes back to an earlier packet.
LEMMA MarksGrow ==
  ASSUME NEW m, NEW w \in Seq(Byte), NEW P, Marks(m, w, P), NEW x \in 0 .. Len(w),
         NEW n \in Nat, x + n <= Len(w)
  PROVE  m[x].done <= m[x + n].done
<1> DEFINE S == {k \in Nat : x + k <= Len(w) => m[x].done <= m[x + k].done}
<1>1. Len(w) \in Nat /\ x \in Nat
  OBVIOUS
<1>2. \A y \in 0 .. Len(w) : m[y].done \in Nat
  BY MarkFields DEF Marks
<1>3. 0 \in S
  <2>1. x + 0 = x
    BY <1>1
  <2> QED BY <2>1, <1>2
<1>4. ASSUME NEW k \in Nat, k \in S PROVE k + 1 \in S
  <2> SUFFICES ASSUME x + (k + 1) <= Len(w) PROVE m[x].done <= m[x + (k + 1)].done
    OBVIOUS
  <2>1. x + k <= Len(w) /\ x + (k + 1) \in 1 .. Len(w) /\ (x + (k + 1)) - 1 = x + k
        /\ x + k \in 0 .. Len(w) /\ x + (k + 1) \in 0 .. Len(w)
    BY <1>1
  <2>2. m[x].done <= m[x + k].done
    BY <1>4, <2>1
  <2>3. m[x + k].inside \in BOOLEAN
    BY <2>1, MarkFields DEF Marks
  <2>4. m[x + (k + 1)].done = m[x + k].done \/ m[x + (k + 1)].done = m[x + k].done + 1
    <3>1. PICK y, z : y = x + k /\ z = x + (k + 1)
      OBVIOUS
    <3>2. y \in Nat /\ z \in 1 .. Len(w) /\ z = y + 1 /\ m[y].inside \in BOOLEAN
      BY <2>1, <2>3, <3>1, <1>1
    <3>3. m[z].done = m[y].done \/ m[z].done = m[y].done + 1
      <4>1. Stepped(m, w, P, y, z)
        BY <3>2, MarkStep
      <4> QED BY <3>2, <4>1 DEF Stepped
    <3> QED BY <3>1, <3>3
  <2> QED BY <2>1, <2>2, <2>4, <1>2
<1>5. n \in S
  <2> HIDE DEF S
  <2> QED BY <1>3, <1>4, NatSetInduction
<1> QED BY <1>5

\* How many ENDs come before a place: two for each packet, and one more inside
\* a packet.
LEMMA EndsCounted ==
  ASSUME NEW m, NEW w \in Seq(Byte), NEW P, Marks(m, w, P), NEW x \in 0 .. Len(w), Len(P) \in Nat
  PROVE  /\ m[x].done <= Len(P)
         /\ Cardinality({i \in 1 .. x : w[i] = END}) = 2 * m[x].done + (IF m[x].inside THEN 1 ELSE 0)
<1> DEFINE E(y) == {i \in 1 .. y : w[i] = END}
           Good(y) == /\ m[y].done <= Len(P) /\ IsFiniteSet(E(y))
                      /\ Cardinality(E(y)) = 2 * m[y].done + (IF m[y].inside THEN 1 ELSE 0)
           S == {y \in Nat : y <= Len(w) => Good(y)}
<1>1. Len(w) \in Nat
  OBVIOUS
<1>2. \A y \in 0 .. Len(w) : m[y].done \in Nat /\ m[y].inside \in BOOLEAN
  BY MarkFields DEF Marks
<1>3. Good(0)
  <2>1. m[0].done = 0 /\ m[0].inside = FALSE
    BY DEF Marks, Start0, At
  <2>2. E(0) = {} /\ IsFiniteSet({}) /\ Cardinality({}) = 0
    BY FS_EmptySet
  <2> QED BY <2>1, <2>2
<1>4. ASSUME NEW y \in Nat, y \in S PROVE y + 1 \in S
  <2> SUFFICES ASSUME y + 1 <= Len(w) PROVE Good(y + 1)
    <3> HIDE DEF Good
    <3> QED OBVIOUS
  <2>1. y <= Len(w) /\ y + 1 \in 1 .. Len(w) /\ (y + 1) - 1 = y /\ y \in 0 .. Len(w) /\ y + 1 \in Nat
    BY <1>1
  <2>5. /\ w[y + 1] = END /\ m[y].inside =>
             m[y].done < Len(P) /\ m[y + 1].done = m[y].done + 1 /\ m[y + 1].inside = FALSE
        /\ ~ m[y].inside =>
             w[y + 1] = END /\ m[y + 1].done = m[y].done /\ m[y + 1].inside = TRUE
        /\ w[y + 1] # END => m[y + 1].done = m[y].done /\ m[y + 1].inside = TRUE
    <3>1. PICK z : z = y + 1
      OBVIOUS
    <3>2. z \in 1 .. Len(w)
      BY <2>1, <3>1
    <3>3. /\ w[z] = END /\ m[y].inside =>
               m[y].done < Len(P) /\ m[z].done = m[y].done + 1 /\ m[z].inside = FALSE
          /\ ~ m[y].inside =>
               w[z] = END /\ m[z].done = m[y].done /\ m[z].inside = TRUE
          /\ m[y].inside /\ w[z] # END => m[z].done = m[y].done /\ m[z].inside = TRUE
      <4>1. Stepped(m, w, P, y, z)
        BY <3>1, <3>2, MarkStep
      <4>2. m[y].inside \in BOOLEAN
        BY <2>1, <1>2
      <4> QED BY <4>1, <4>2 DEF Stepped
    <3> QED BY <3>1, <3>3
  <2>2. Good(y)
    <3> HIDE DEF Good
    <3> QED BY <1>4, <2>1
  <2>3. CASE w[y + 1] = END
    <3>1. E(y + 1) = E(y) \cup {y + 1} /\ y + 1 \notin E(y)
      BY <2>1, <2>3
    <3>2. IsFiniteSet(E(y + 1)) /\ Cardinality(E(y + 1)) = Cardinality(E(y)) + 1
      <4>1. IsFiniteSet(E(y))
        BY <2>2
      <4> HIDE DEF E
      <4> QED BY <3>1, <4>1, FS_AddElement
    <3> HIDE DEF E
    <3>3. CASE m[y].inside
      <4>1. m[y].done < Len(P) /\ m[y + 1].done = m[y].done + 1 /\ m[y + 1].inside = FALSE
        BY <2>3, <3>3, <2>5
      <4>2. m[y].inside = TRUE /\ m[y].done \in Nat
        BY <2>1, <3>3, <1>2
      <4>3. Cardinality(E(y)) = 2 * m[y].done + 1 /\ m[y].done + 1 <= Len(P)
        BY <2>2, <4>1, <4>2
      <4>4. Cardinality(E(y + 1)) = 2 * (m[y].done + 1) + 0
        BY <3>2, <4>2, <4>3
      <4> QED BY <3>2, <4>1, <4>3, <4>4
    <3>4. CASE ~ m[y].inside
      <4>1. m[y + 1].done = m[y].done /\ m[y + 1].inside = TRUE
        BY <3>4, <2>5
      <4> QED BY <2>1, <2>2, <3>2, <3>4, <4>1, <1>2
    <3> QED BY <3>3, <3>4
  <2>4. CASE w[y + 1] # END
    <3>1. E(y + 1) = E(y)
      BY <2>1, <2>4
    <3>2. m[y].inside
      BY <2>4, <2>5
    <3>3. m[y + 1].done = m[y].done /\ m[y + 1].inside = TRUE
      BY <2>4, <2>5
    <3> HIDE DEF E
    <3> QED BY <2>1, <2>2, <3>1, <3>2, <3>3
  <2> QED BY <2>3, <2>4
<1>5. x \in S
  <2>1. 0 \in S
    BY <1>3
  <2> HIDE DEF S
  <2> QED BY <1>4, <2>1, NatSetInduction
<1>6. Good(x)
  <2> HIDE DEF Good
  <2> QED BY <1>5
<1> QED BY <1>6

----------------------------------------------------------------------------
(* A block of a stream. *)

\* A set of numbers has a least one.
LEMMA LeastExists ==
  ASSUME NEW T, T \subseteq Nat, T # {}
  PROVE  \E x \in T : \A y \in T : x <= y
<1> DEFINE R == {ss \in Nat \X Nat : ss[1] < ss[2]}
<1>1. IsWellFoundedOn(R, Nat)
  BY NatLessThanWellFounded DEF OpToRel
<1>2. PICK x \in T : \A y \in T : ~ (<<y, x>> \in R)
  <2> HIDE DEF R
  <2> QED BY <1>1, WFMin
<1>3. \A y \in T : x <= y
  <2> SUFFICES ASSUME NEW y \in T PROVE x <= y
    OBVIOUS
  <2>1. x \in Nat /\ y \in Nat
    OBVIOUS
  <2>2. ~(y < x)
    BY <1>2, <2>1
  <2> QED BY <2>1, <2>2
<1> QED BY <1>3

\* What Unescaped has of one byte.
Piece(f, block, from, i) ==
    CASE block[i] = ESC -> <<>>
      [] block[i] = ESC_END /\ Escaping(f, block, from, i) -> <<END>>
      [] block[i] = ESC_ESC /\ Escaping(f, block, from, i) -> <<ESC>>
      [] OTHER -> <<block[i]>>

\* The pieces, by what the bytes are.
LEMMA PieceIs ==
  ASSUME NEW f, NEW block \in Seq(Byte), NEW from, NEW i \in 1 .. Len(block)
  PROVE  /\ Piece(f, block, from, i) \in Seq(Byte)
         /\ block[i] = ESC => Piece(f, block, from, i) = <<>>
         /\ block[i] = ESC_END /\ Escaping(f, block, from, i) => Piece(f, block, from, i) = <<END>>
         /\ block[i] = ESC_ESC /\ Escaping(f, block, from, i) => Piece(f, block, from, i) = <<ESC>>
         /\ block[i] # ESC /\ ~ Escaping(f, block, from, i) => Piece(f, block, from, i) = <<block[i]>>
<1>1. PICK b, e : b = block[i] /\ e = Escaping(f, block, from, i)
  OBVIOUS
<1>2. b \in Byte
  BY <1>1
<1>3. <<>> \in Seq(Byte) /\ <<END>> \in Seq(Byte) /\ <<ESC>> \in Seq(Byte) /\ <<b>> \in Seq(Byte)
  <2>1. END \in Byte /\ ESC \in Byte
    BY SlipBytes
  <2> QED BY <1>2, <2>1
<1>4. Piece(f, block, from, i) = CASE b = ESC -> <<>>
                                   [] b = ESC_END /\ e -> <<END>>
                                   [] b = ESC_ESC /\ e -> <<ESC>>
                                   [] OTHER -> <<b>>
  BY <1>1 DEF Piece
<1> HIDE <1>1
<1>5. PICK p : p = Piece(f, block, from, i)
  OBVIOUS
<1>6. /\ p \in Seq(Byte) 
      /\ b = ESC => p = <<>>
      /\ b = ESC_END /\ e => p = <<END>>
      /\ b = ESC_ESC /\ e => p = <<ESC>>
      /\ b # ESC /\ ~ e => p = <<b>>
  BY <1>3, <1>4, <1>5, SlipBytes
<1> QED BY <1>1, <1>5, <1>6

\* Nothing is unescaped.
LEMMA UnescapedNone ==
  ASSUME NEW f, NEW block, NEW from \in Nat
  PROVE  Unescaped(f, block, from, from) = <<>>
<1> DEFINE s == [k \in 1 .. from - from |-> Piece(f, block, from, from + k - 1)]
<1>1. Unescaped(f, block, from, from) = FlattenSeq(s)
  BY DEF Unescaped, Piece
<1>2. s = <<>> /\ <<>> \in Seq(Seq({})) /\ Len(<<>>) = 0
  OBVIOUS
<1> HIDE DEF s
<1>3. PICK F : Partial(F, <<>>, {}) /\ FlattenSeq(<<>>) = F[Len(<<>>)]
  BY <1>2, FlattenPartial
<1> QED BY <1>1, <1>2, <1>3 DEF Partial

\* One more byte.
LEMMA UnescapedStep ==
  ASSUME NEW f, NEW block \in Seq(Byte), NEW from \in Nat \ {0}, NEW i \in from .. Len(block)
  PROVE  /\ Unescaped(f, block, from, i) \in Seq(Byte)
         /\ Unescaped(f, block, from, i + 1) \in Seq(Byte)
         /\ Unescaped(f, block, from, i + 1) = Unescaped(f, block, from, i) \o Piece(f, block, from, i)
<1> DEFINE s == [k \in 1 .. i - from |-> Piece(f, block, from, from + k - 1)]
           t == [k \in 1 .. (i + 1) - from |-> Piece(f, block, from, from + k - 1)]
<1>1. Unescaped(f, block, from, i) = FlattenSeq(s) /\ Unescaped(f, block, from, i + 1) = FlattenSeq(t)
  BY DEF Unescaped, Piece
<1>2. Len(block) \in Nat /\ i \in Nat /\ i - from \in Nat /\ (i + 1) - from = (i - from) + 1
  OBVIOUS
<1>3. \A k \in 1 .. (i - from) + 1 : Piece(f, block, from, from + k - 1) \in Seq(Byte)
  <2> SUFFICES ASSUME NEW k \in 1 .. (i - from) + 1
               PROVE  Piece(f, block, from, from + k - 1) \in Seq(Byte)
    OBVIOUS
  <2>1. from + k - 1 \in 1 .. Len(block)
    BY <1>2
  <2> QED BY <2>1, PieceIs
<1>4. s \in Seq(Seq(Byte)) /\ Len(s) = i - from
  <2>1. \A k \in 1 .. i - from : Piece(f, block, from, from + k - 1) \in Seq(Byte)
    <3>1. \A k \in 1 .. i - from : k \in 1 .. (i - from) + 1
      BY <1>2
    <3> QED BY <3>1, <1>3
  <2> QED BY <2>1, <1>2
<1>5. t \in Seq(Seq(Byte)) /\ Len(t) = (i - from) + 1 /\ t[(i - from) + 1] = Piece(f, block, from, i)
  <2>1. from + ((i - from) + 1) - 1 = i /\ (i - from) + 1 \in 1 .. (i + 1) - from
    BY <1>2
  <2> QED BY <2>1, <1>2, <1>3
<1>6. \A k \in 1 .. Len(s) : t[k] = s[k]
  BY <1>2, <1>4
<1>7. Piece(f, block, from, i) \in Seq(Byte)
  BY <1>2, PieceIs
<1>8. Len(t) = Len(s) + 1 /\ t[Len(s) + 1] = Piece(f, block, from, i)
  BY <1>4, <1>5
<1> HIDE DEF s, t
<1>9. OneMore(t, s)
  BY <1>6, <1>8 DEF OneMore
<1>10. FlattenSeq(s) \in Seq(Byte) /\ FlattenSeq(t) \in Seq(Byte) /\ FlattenSeq(t) = FlattenSeq(s) \o t[Len(s) + 1]
  BY <1>4, <1>5, <1>9, FlattenAppend
<1> QED BY <1>1, <1>8, <1>10

\* What ends a packet, or what is no escape.
Ends(f, block, from, i) ==
    \/ block[i] = END
    \/ /\ Escaping(f, block, from, i)
       /\ block[i] \notin {ESC, ESC_END, ESC_ESC}

\* The parser stops at the first byte of that kind, or behind the block.
LEMMA ParseEndIs ==
  ASSUME NEW f, NEW block \in Seq(Byte), NEW from \in 1 .. Len(block) + 1
  PROVE  /\ ParseEnd(f, block, from) \in from .. Len(block) + 1
         /\ \A i \in from .. Len(block) : i < ParseEnd(f, block, from) => ~ Ends(f, block, from, i)
         /\ ParseEnd(f, block, from) <= Len(block) => Ends(f, block, from, ParseEnd(f, block, from))
<1> DEFINE I == {i \in from .. Len(block) : Ends(f, block, from, i)}
           e == ParseEnd(f, block, from)
           n == Len(block)
<1>1. e = IF I = {} THEN n + 1 ELSE CHOOSE i \in I : \A j \in I : i <= j
  BY DEF ParseEnd, Ends
<1>2. n \in Nat /\ from \in Nat
  OBVIOUS
<1>3. I \subseteq from .. n /\ \A i \in from .. n : Ends(f, block, from, i) => i \in I
  OBVIOUS
<1>4. \A i \in I : Ends(f, block, from, i)
  OBVIOUS
<1> HIDE DEF I, e, n
<1>5. CASE I = {}
  BY <1>1, <1>2, <1>3, <1>5 DEF e, n
<1>6. CASE I # {}
  <2>1. \E x \in I : \A y \in I : x <= y
    <3>1. I \subseteq Nat
      BY <1>2, <1>3
    <3> QED BY <1>6, <3>1, LeastExists
  <2>2. e \in I /\ \A j \in I : e <= j
    BY <1>1, <1>6, <2>1
  <2>3. \A i \in from .. n : i < e => ~ Ends(f, block, from, i)
    <3> SUFFICES ASSUME NEW i \in from .. n, i < e, Ends(f, block, from, i) PROVE FALSE
      OBVIOUS
    <3>1. e <= i
      BY <1>3, <2>2
    <3> QED BY <3>1, <1>2, <1>3, <2>2
  <2>4. e \in from .. n /\ e \in from .. n + 1 /\ Ends(f, block, from, e)
    BY <1>2, <1>3, <1>4, <2>2
  <2> QED BY <2>3, <2>4 DEF e, n
<1> QED BY <1>5, <1>6

\* The search for the start of a packet finds the first END.
LEMMA StartIs ==
  ASSUME NEW f, NEW block \in Seq(Byte), inPacket[f] = FALSE
  PROVE  \/ /\ Start(f, block) = 0
            /\ \A i \in 1 .. Len(block) : block[i] # END
         \/ /\ Start(f, block) \in 2 .. Len(block) + 1
            /\ block[Start(f, block) - 1] = END
            /\ \A i \in 1 .. Len(block) : i < Start(f, block) - 1 => block[i] # END
<1> DEFINE I == {i \in 1 .. Len(block) : block[i] = END}
           e == SelectInSeq(block, LAMBDA b : b = END)
<1>1. e = IF I # {} THEN CHOOSE z \in I : \A y \in I : z <= y ELSE 0
  BY DEF SelectInSeq, Min
<1>2. Start(f, block) = IF e = 0 THEN 0 ELSE e + 1
  BY DEF Start
<1>3. Len(block) \in Nat /\ I \subseteq Nat
  OBVIOUS
<1>4. \A i \in 1 .. Len(block) : block[i] = END <=> i \in I
  OBVIOUS
<1>5. \A i \in I : i \in 1 .. Len(block)
  OBVIOUS
<1> HIDE DEF e, I
<1>6. CASE I = {}
  BY <1>1, <1>2, <1>4, <1>6
<1>7. CASE I # {}
  <2>1. \E x \in I : \A y \in I : x <= y
    BY <1>3, <1>7, LeastExists
  <2>2. e \in I /\ \A y \in I : e <= y
    BY <1>1, <1>7, <2>1
  <2>3. e \in 1 .. Len(block) /\ block[e] = END
    BY <2>2, <1>4, <1>5
  <2>4. Start(f, block) = e + 1 /\ Start(f, block) - 1 = e /\ Start(f, block) \in 2 .. Len(block) + 1
    BY <1>2, <1>3, <2>3
  <2>5. ASSUME NEW i \in 1 .. Len(block), i < e PROVE block[i] # END
    <3>1. ~(e <= i)
      BY <2>3, <2>5
    <3> QED BY <3>1, <2>2, <1>4
  <2> QED BY <2>3, <2>4, <2>5
<1> QED BY <1>6, <1>7

\* What is unescaped of a block are bytes.
LEMMA UnescapedTyped ==
  ASSUME NEW f, NEW block \in Seq(Byte), NEW from \in Nat \ {0}, NEW to \in from .. Len(block) + 1
  PROVE  Unescaped(f, block, from, to) \in Seq(Byte)
<1>1. CASE to = from
  <2>1. Unescaped(f, block, from, from) = <<>> /\ <<>> \in Seq(Byte)
    BY UnescapedNone
  <2> QED BY <1>1, <2>1
<1>2. CASE to # from
  <2>1. PICK i : i = to - 1
    OBVIOUS
  <2>2. i \in from .. Len(block) /\ i + 1 = to
    BY <1>2, <2>1
  <2>3. Unescaped(f, block, from, i + 1) \in Seq(Byte)
    <3> HIDE <2>1
    <3> QED BY <2>2, UnescapedStep
  <2> QED BY <2>2, <2>3
<1> QED BY <1>1, <1>2

\* What the thread knows of a client: between packets there is nothing.
Local(d, b, e) ==
    d \in Seq(Byte) /\ b \in BOOLEAN /\ e \in BOOLEAN /\ (b = FALSE => d = <<>> /\ e = FALSE)

\* Where the parser begins: 0 only between packets.
LEMMA StartTyped ==
  ASSUME NEW f, NEW block \in Seq(Byte), inPacket[f] \in BOOLEAN
  PROVE  /\ Start(f, block) \in 0 .. Len(block) + 1
         /\ inPacket[f] = TRUE => Start(f, block) = 1
         /\ Start(f, block) = 0 => inPacket[f] = FALSE
<1>1. CASE inPacket[f] = TRUE
  <2>1. Start(f, block) = 1
    BY <1>1 DEF Start
  <2> QED BY <1>1, <2>1
<1>2. CASE inPacket[f] = FALSE
  <2>1. Start(f, block) = 0 \/ Start(f, block) \in 2 .. Len(block) + 1
    BY <1>2, StartIs
  <2> QED BY <1>2, <2>1
<1> QED BY <1>1, <1>2

\* What a block does to what the thread knows.
LEMMA ParsedTyped ==
  ASSUME NEW f, NEW block \in Seq(Byte), block # <<>>, Local(data[f], inPacket[f], escape[f])
  PROVE  LET p == Parsed(f, block)
         IN  /\ Local(p.data, p.inPacket, p.escape) /\ p.packet \in Seq(Byte)
             /\ p.rest \in Nat /\ p.junk \in BOOLEAN
<1> DEFINE from == Start(f, block)
           stop == ParseEnd(f, block, from)
           more == data[f] \o Unescaped(f, block, from, stop)
           p == Parsed(f, block)
           n == Len(block)
<1>1. from \in 0 .. n + 1 /\ (from = 0 => inPacket[f] = FALSE) /\ n \in Nat
  <2>1. inPacket[f] \in BOOLEAN
    BY DEF Local
  <2>2. Start(f, block) \in 0 .. Len(block) + 1 /\ (Start(f, block) = 0 => inPacket[f] = FALSE)
    BY <2>1, StartTyped, Zenon
  <2> QED BY <2>2
<1>2. CASE from = 0
  <2>1. p = [data |-> data[f], inPacket |-> FALSE, escape |-> escape[f], packet |-> <<>>,
             rest |-> 0, junk |-> TRUE]
    BY <1>2 DEF Parsed
  <2>2. data[f] = <<>> /\ escape[f] = FALSE
    BY <1>1, <1>2 DEF Local
  <2> HIDE DEF p, from
  <2>3. p.data = <<>> /\ p.inPacket = FALSE /\ p.escape = FALSE /\ p.packet = <<>> /\ p.rest = 0 /\ p.junk = TRUE
    BY <2>1, <2>2
  <2>4. Local(p.data, p.inPacket, p.escape) /\ p.packet \in Seq(Byte) /\ p.rest \in Nat /\ p.junk \in BOOLEAN
    <3>1. <<>> \in Seq(Byte) /\ 0 \in Nat
      OBVIOUS
    <3> QED BY <2>3, <3>1, Zenon DEF Local
  <2> QED BY <2>4 DEF p
<1>3. CASE from # 0
  <2>1. stop \in from .. n + 1 /\ from \in Nat \ {0} /\ from \in 1 .. n + 1
    BY <1>1, <1>3, ParseEndIs
  <2>2. more \in Seq(Byte)
    <3>1. Unescaped(f, block, from, stop) \in Seq(Byte)
      <4> HIDE DEF from, stop
      <4> QED BY <2>1, UnescapedTyped
    <3> QED BY <3>1 DEF Local
  <2>3. CASE stop > n
    <3>1. p = [data |-> more, inPacket |-> TRUE, packet |-> <<>>, rest |-> 0, junk |-> FALSE,
               escape |-> IF from > n THEN escape[f] ELSE block[n] = ESC]
      BY <1>3, <2>3 DEF Parsed
    <3>2. (IF from > n THEN escape[f] ELSE block[n] = ESC) \in BOOLEAN
      BY DEF Local
    <3> HIDE DEF p, from, stop, more, n
    <3>3. p.data = more /\ p.inPacket = TRUE /\ p.escape \in BOOLEAN /\ p.packet = <<>> /\ p.rest = 0 /\ p.junk = FALSE
      BY <3>1, <3>2
    <3>4. Local(p.data, p.inPacket, p.escape) /\ p.packet \in Seq(Byte) /\ p.rest \in Nat /\ p.junk \in BOOLEAN
      <4>1. <<>> \in Seq(Byte) /\ 0 \in Nat
        OBVIOUS
      <4> QED BY <3>3, <4>1, <2>2, Zenon DEF Local
    <3> QED BY <3>4 DEF p
  <2>4. CASE ~(stop > n)
    <3>1. p = [data |-> <<>>, inPacket |-> FALSE, escape |-> FALSE, junk |-> FALSE,
               packet |-> IF block[stop] = END THEN more ELSE <<>>,
               rest |-> n - stop]
      BY <1>3, <2>4 DEF Parsed
    <3>2. n - stop \in Nat
      BY <1>1, <2>1, <2>4
    <3> HIDE DEF p, from, stop, more, n
    <3>3. p.data = <<>> /\ p.inPacket = FALSE /\ p.escape = FALSE /\ p.packet \in Seq(Byte)
          /\ p.rest \in Nat /\ p.junk = FALSE
      BY <3>1, <3>2, <2>2
    <3>4. Local(p.data, p.inPacket, p.escape) /\ p.packet \in Seq(Byte) /\ p.rest \in Nat /\ p.junk \in BOOLEAN
      <4>1. <<>> \in Seq(Byte)
        OBVIOUS
      <4> QED BY <3>3, <4>1, Zenon DEF Local
    <3> QED BY <3>4 DEF p
  <2> QED BY <2>3, <2>4
<1> QED BY <1>2, <1>3

\* Inside a packet the thread has of it what the reader has, before it parses
\* the byte at i.
InsideAt(f, block, from, k, s, i) ==
    /\ s \in Mark /\ s.done = k /\ s.inside = TRUE
    /\ s.data = data[f] \o Unescaped(f, block, from, i)
    /\ s.esc = Escaping(f, block, from, i)

\* Inside a packet the parser does with a byte what the reader does.
LEMMA InsideMore ==
  ASSUME NEW f, NEW block \in Seq(Byte), NEW from \in Nat \ {0}, NEW i \in from .. Len(block),
         data[f] \in Seq(Byte), NEW k, NEW s, InsideAt(f, block, from, k, s, i),
         NEW P, Legal(P, s, block[i]), ~ Ends(f, block, from, i)
  PROVE  InsideAt(f, block, from, k, After(s, block[i]), i + 1)
<1> DEFINE b == block[i]
           e == Escaping(f, block, from, i)
           r == After(s, b)
<1>1. i \in 1 .. Len(block) /\ i \in Nat /\ i + 1 # from /\ (i + 1) - 1 = i
  OBVIOUS
<1>2. Escaping(f, block, from, i + 1) = (b = ESC)
  BY <1>1 DEF Escaping
<1>3. s \in Mark /\ s.done = k /\ s.inside = TRUE /\ s.esc = e /\ s.data \in Seq(Byte) /\ e \in BOOLEAN
      /\ s.done \in Nat
  BY MarkFields DEF InsideAt
<1>4. b # END /\ b \in Byte /\ (e = TRUE => b \in {ESC_END, ESC_ESC})
  <2>1. s.inside /\ (e = TRUE => s.esc)
    BY <1>3
  <2> HIDE DEF e
  <2>2. e = TRUE => b \in {ESC_END, ESC_ESC}
    BY <2>1 DEF Legal
  <2>3. b # END /\ b \in Byte
    BY DEF Ends, Legal
  <2> QED BY <2>2, <2>3
<1>5. PICK q : q = Piece(f, block, from, i)
  OBVIOUS
<1>6. /\ q \in Seq(Byte)
      /\ b = ESC => q = <<>>
      /\ b = ESC_END /\ e => q = <<END>>
      /\ b = ESC_ESC /\ e => q = <<ESC>>
      /\ b # ESC /\ ~ e => q = <<b>>
  BY <1>1, <1>5, PieceIs
<1>7. data[f] \o Unescaped(f, block, from, i + 1) = s.data \o q
  <2>1. PICK u, v : u = Unescaped(f, block, from, i) /\ v = Unescaped(f, block, from, i + 1)
    OBVIOUS
  <2>2. u \in Seq(Byte) /\ v = u \o q
    BY <2>1, <1>5, UnescapedStep
  <2>3. PICK d : d = data[f]
    OBVIOUS
  <2>4. s.data = d \o u /\ d \in Seq(Byte)
    BY <2>1, <2>3 DEF InsideAt
  <2>5. d \o (u \o q) = (d \o u) \o q
    <3>1. d \in Seq(Byte) /\ u \in Seq(Byte) /\ q \in Seq(Byte)
      BY <2>2, <2>4, <1>6
    <3>2. Joins(Byte, d, u, q)
      BY JoinsAlways
    <3> QED BY <3>1, <3>2, Zenon DEF Joins
  <2> QED BY <2>1, <2>2, <2>3, <2>4, <2>5
<1>8. r \in Mark
  BY <1>3, <1>4, AfterTyped
<1> HIDE DEF e, b
<1>9. CASE e = TRUE
  <2>1. r = At(k, TRUE, Append(s.data, IF b = ESC_END THEN END ELSE ESC), FALSE)
    <3>1. s.inside /\ s.esc
      BY <1>3, <1>9
    <3> QED BY <3>1, <1>3, Zenon DEF After
  <2>2. r.done = k /\ r.inside = TRUE /\ r.data = Append(s.data, IF b = ESC_END THEN END ELSE ESC) /\ r.esc = FALSE
    BY <2>1 DEF At
  <2>3. s.data \o q = Append(s.data, IF b = ESC_END THEN END ELSE ESC)
    <3>1. q = <<IF b = ESC_END THEN END ELSE ESC>>
      BY <1>4, <1>6, <1>9
    <3> QED BY <3>1, <1>3, SlipBytes
  <2>4. (b = ESC) = FALSE
    BY <1>4, <1>9, SlipBytes
  <2> HIDE DEF r
  <2>5. InsideAt(f, block, from, k, r, i + 1)
    BY <1>2, <1>7, <1>8, <2>2, <2>3, <2>4 DEF InsideAt
  <2> QED BY <2>5 DEF r, b
<1>10. CASE e = FALSE
  <2>0. s.inside /\ ~ s.esc
    BY <1>3, <1>10
  <2>1. CASE b = ESC
    <3>1. r = At(k, TRUE, s.data, TRUE)
      BY <2>0, <2>1, <1>3, <1>4, Zenon DEF After
    <3>2. r.done = k /\ r.inside = TRUE /\ r.data = s.data /\ r.esc = TRUE
      BY <3>1 DEF At
    <3>3. s.data \o q = s.data
      BY <2>1, <1>3, <1>6
    <3> HIDE DEF r
    <3>5. InsideAt(f, block, from, k, r, i + 1)
      BY <1>2, <1>7, <1>8, <2>1, <3>2, <3>3 DEF InsideAt
    <3> QED BY <3>5 DEF r, b
  <2>2. CASE b # ESC
    <3>1. r = At(k, TRUE, Append(s.data, b), FALSE)
      BY <2>0, <2>2, <1>3, <1>4, Zenon DEF After
    <3>2. r.done = k /\ r.inside = TRUE /\ r.data = Append(s.data, b) /\ r.esc = FALSE
      BY <3>1 DEF At
    <3>3. s.data \o q = Append(s.data, b)
      <4>1. q = <<b>>
        BY <2>2, <1>6, <1>10
      <4> QED BY <4>1, <1>3, <1>4
    <3>4. (b = ESC) = FALSE
      BY <2>2
    <3> HIDE DEF r
    <3>5. InsideAt(f, block, from, k, r, i + 1)
      BY <1>2, <1>7, <1>8, <3>2, <3>3, <3>4 DEF InsideAt
    <3> QED BY <3>5 DEF r, b
  <2> QED BY <2>1, <2>2
<1> QED BY <1>3, <1>9, <1>10

\* The block is what the stream w has after x0 bytes.
Covers(block, w, x0) ==
    /\ x0 \in Nat /\ w \in Seq(Byte) /\ block \in Seq(Byte) /\ x0 + Len(block) <= Len(w)
    /\ \A i \in 1 .. Len(block) : block[i] = w[x0 + i]

\* A byte of the block, as a step of the reader.
LEMMA BlockStep ==
  ASSUME NEW w, NEW block, NEW x0, Covers(block, w, x0), NEW m, NEW P, Marks(m, w, P),
         NEW i \in 1 .. Len(block), NEW y, y = x0 + i - 1, NEW x, x = x0 + i
  PROVE  Stepped(m, w, P, y, x) /\ w[x] = block[i]
<1>1. w \in Seq(Byte) /\ block \in Seq(Byte) /\ x0 \in Nat /\ Len(w) \in Nat /\ Len(block) \in Nat
      /\ x0 + Len(block) <= Len(w) /\ w[x] = block[i]
  BY DEF Covers
<1>2. y \in Nat /\ x \in 1 .. Len(w) /\ x = y + 1
  BY <1>1
<1> QED BY <1>1, <1>2, MarkStep

\* Inside a packet the parser does with a block what the reader does.
LEMMA ParseInside ==
  ASSUME NEW f, NEW w, NEW block, NEW x0, Covers(block, w, x0), NEW m, NEW P, Marks(m, w, P),
         NEW from \in 1 .. Len(block) + 1, data[f] \in Seq(Byte),
         NEW k, InsideAt(f, block, from, k, m[x0 + from - 1], from),
         NEW i \in from .. ParseEnd(f, block, from)
  PROVE  InsideAt(f, block, from, k, m[x0 + i - 1], i)
<1> DEFINE stop == ParseEnd(f, block, from)
           n == Len(block)
           Good(z) == InsideAt(f, block, from, k, m[x0 + z - 1], z)
           S == {j \in Nat : from + j <= stop => Good(from + j)}
<1>1. block \in Seq(Byte) /\ x0 \in Nat /\ n \in Nat /\ from \in Nat \ {0}
  BY DEF Covers
<1>2. /\ stop \in from .. n + 1
      /\ \A z \in from .. n : z < stop => ~ Ends(f, block, from, z)
  BY <1>1, ParseEndIs
<1> HIDE DEF stop, n
<1>3. 0 \in S
  <2>1. from + 0 = from
    BY <1>1
  <2>2. Good(from)
    OBVIOUS
  <2> HIDE DEF Good
  <2> QED BY <2>1, <2>2
<1>4. ASSUME NEW j \in Nat, j \in S PROVE j + 1 \in S
  <2> SUFFICES ASSUME from + (j + 1) <= stop PROVE Good(from + (j + 1))
    <3> HIDE DEF Good
    <3> QED OBVIOUS
  <2>1. PICK z, y, x : z = from + j /\ y = x0 + z - 1 /\ x = x0 + z
    OBVIOUS
  <2>2. /\ z \in from .. n /\ z < stop /\ z \in 1 .. n /\ z + 1 = from + (j + 1)
        /\ x0 + (z + 1) - 1 = x /\ z <= stop
    BY <1>1, <1>2, <2>1
  <2>3. Good(z)
    <3> HIDE DEF Good
    <3> QED BY <1>4, <2>1, <2>2
  <2>4. Stepped(m, w, P, y, x) /\ w[x] = block[z]
    BY <2>1, <2>2, BlockStep DEF n
  <2>5. Legal(P, m[y], block[z]) /\ m[x] = After(m[y], block[z])
    BY <2>4 DEF Stepped
  <2>6. InsideAt(f, block, from, k, m[y], z)
    BY <2>1, <2>3
  <2>7. ~ Ends(f, block, from, z)
    BY <1>2, <2>2
  <2>8. InsideAt(f, block, from, k, After(m[y], block[z]), z + 1)
    <3>1. z \in from .. Len(block) /\ block \in Seq(Byte) /\ from \in Nat \ {0}
      BY <1>1, <2>2 DEF n
    <3> HIDE <2>1
    <3> QED BY <3>1, <2>5, <2>6, <2>7, InsideMore
  <2>9. InsideAt(f, block, from, k, m[x], z + 1)
    BY <2>5, <2>8
  <2> QED BY <2>2, <2>9
<1>5. ASSUME NEW j \in Nat PROVE j \in S
  <2> HIDE DEF S
  <2> QED BY <1>3, <1>4, NatSetInduction
<1>6. i \in from .. stop
  BY DEF stop
<1>7. i - from \in Nat /\ from + (i - from) = i /\ i <= stop
  BY <1>1, <1>2, <1>6
<1>8. Good(i)
  <2>1. i - from \in S
    <3> HIDE DEF S
    <3> QED BY <1>5, <1>7
  <2> HIDE DEF Good
  <2> QED BY <1>7, <2>1
<1> QED BY <1>8

\* The parser stops at the end of the packet, with the packet, or it is still
\* inside it at the end of the block.
Stopped(f, block, x0, m, P, from, k, stop) ==
    /\ stop > Len(block) => InsideAt(f, block, from, k, m[x0 + Len(block)], Len(block) + 1)
    /\ stop <= Len(block) =>
         /\ block[stop] = END /\ data[f] \o Unescaped(f, block, from, stop) = P[k + 1]
         /\ k < Len(P) /\ m[x0 + stop].done = k + 1 /\ m[x0 + stop].inside = FALSE

\* From inside a packet of the reader, the parser stops as said.
LEMMA InsideBlock ==
  ASSUME NEW f, NEW w, NEW block, NEW x0, Covers(block, w, x0), NEW m, NEW P, Marks(m, w, P),
         NEW from \in 1 .. Len(block) + 1, data[f] \in Seq(Byte),
         NEW k, InsideAt(f, block, from, k, m[x0 + from - 1], from),
         NEW stop, stop = ParseEnd(f, block, from)
  PROVE  Stopped(f, block, x0, m, P, from, k, stop)
<1> DEFINE n == Len(block)
<1>1. block \in Seq(Byte) /\ x0 \in Nat /\ n \in Nat /\ from \in Nat
  BY DEF Covers
<1>2. stop \in from .. n + 1 /\ (stop <= n => Ends(f, block, from, stop))
  BY <1>1, ParseEndIs
<1>3. InsideAt(f, block, from, k, m[x0 + stop - 1], stop)
  <2>1. stop \in from .. ParseEnd(f, block, from)
    BY <1>1, <1>2
  <2> QED BY <2>1, ParseInside
<1> HIDE DEF n
<1>4. CASE stop > n
  <2>1. stop = n + 1 /\ x0 + stop - 1 = x0 + n
    BY <1>1, <1>2, <1>4
  <2>2. InsideAt(f, block, from, k, m[x0 + n], n + 1)
    BY <1>3, <2>1
  <2>3. ~(stop <= n)
    BY <1>1, <2>1
  <2> QED BY <1>4, <2>2, <2>3 DEF n, Stopped
<1>5. CASE stop <= n
  <2>1. PICK y, x : y = x0 + stop - 1 /\ x = x0 + stop
    OBVIOUS
  <2>2. stop \in 1 .. n
    BY <1>1, <1>2, <1>5
  <2>3. Stepped(m, w, P, y, x) /\ w[x] = block[stop]
    BY <2>1, <2>2, BlockStep DEF n
  <2>4. InsideAt(f, block, from, k, m[y], stop)
    BY <1>3, <2>1
  <2>5. block[stop] = END
    <3> SUFFICES ASSUME block[stop] # END PROVE FALSE
      OBVIOUS
    <3>1. Escaping(f, block, from, stop) /\ block[stop] \notin {ESC, ESC_END, ESC_ESC}
      BY <1>2, <1>5 DEF Ends
    <3>2. m[y].inside /\ m[y].esc
      BY <3>1, <2>4 DEF InsideAt
    <3>3. block[stop] \in {ESC_END, ESC_ESC}
      BY <3>2, <2>3 DEF Stepped, Legal
    <3> QED BY <3>1, <3>3
  <2>6. m[y].inside = TRUE /\ m[y].done = k /\ m[y].data = data[f] \o Unescaped(f, block, from, stop)
    BY <2>4 DEF InsideAt
  <2>7. m[y].done < Len(P) /\ m[y].data = P[m[y].done + 1]
        /\ m[x].done = m[y].done + 1 /\ m[x].inside = FALSE
    BY <2>3, <2>5, <2>6 DEF Stepped
  <2>8. ~(stop > n)
    BY <1>1, <1>5, <2>2
  <2> QED BY <2>1, <2>5, <2>6, <2>7, <2>8 DEF n, Stopped
<1>6. stop > n \/ stop <= n
  BY <1>1, <1>2
<1> QED BY <1>4, <1>5, <1>6

\* Inside a packet of the reader the thread has what the reader has, if it is
\* inside a packet too; the reader is between packets and the thread inside
\* one only when it has nothing of that packet.
Phase(s, b, d, e) ==
    /\ b = TRUE /\ s.inside = TRUE => s.data = d /\ s.esc = e
    /\ b = TRUE /\ s.inside = FALSE => d = <<>>

\* The result p of parsing a block that leads the reader from s to r, when the
\* thread was inside a packet or not (b).
Follows(P, s, b, r, p) ==
    /\ Phase(r, p.inPacket, p.data, p.escape)
    /\ s.done <= r.done
    /\ p.packet # <<>> => \E k \in Nat : s.done <= k /\ k < r.done /\ k < Len(P) /\ p.packet = P[k + 1]
    /\ s.inside = b => /\ p.junk = FALSE
                       /\ p.rest = 0 => /\ r.inside = p.inPacket
                                        /\ r.done = s.done + (IF p.packet = <<>> THEN 0 ELSE 1)

\* Where the parser begins, the thread has what the reader has, or nothing.
LEMMA BlockStart ==
  ASSUME NEW f, NEW w, NEW block, NEW x0, Covers(block, w, x0), NEW m, NEW P, Marks(m, w, P),
         Local(data[f], inPacket[f], escape[f]), Phase(m[x0], inPacket[f], data[f], escape[f]),
         NEW from, from = Start(f, block), from # 0, NEW y, y = x0 + from - 1
  PROVE  /\ y \in x0 .. x0 + Len(block) /\ from \in 1 .. Len(block) + 1
         /\ m[x0].done <= m[y].done
         /\ m[y].inside = TRUE => InsideAt(f, block, from, m[y].done, m[y], from)
         /\ m[y].inside = FALSE => data[f] = <<>> /\ m[x0].inside # inPacket[f]
         /\ m[x0].inside = inPacket[f] => m[y].done = m[x0].done
<1> DEFINE n == Len(block)
<1>1. block \in Seq(Byte) /\ w \in Seq(Byte) /\ x0 \in Nat /\ n \in Nat /\ x0 + n <= Len(w) /\ Len(w) \in Nat
  BY DEF Covers
<1>2. inPacket[f] \in BOOLEAN /\ escape[f] \in BOOLEAN /\ data[f] \in Seq(Byte)
      /\ (inPacket[f] = FALSE => data[f] = <<>> /\ escape[f] = FALSE)
  BY DEF Local
<1>3. from \in 1 .. n + 1
  <2>1. Start(f, block) \in 0 .. Len(block) + 1
    BY <1>1, <1>2, StartTyped, Zenon
  <2> QED BY <2>1, <1>1
<1>4. y \in x0 .. x0 + n /\ y \in 0 .. Len(w) /\ x0 \in 0 .. Len(w)
  BY <1>1, <1>3
<1>5. m[y] \in Mark /\ m[y].inside \in BOOLEAN /\ m[y].done \in Nat /\ m[x0].done \in Nat
      /\ m[x0].inside \in BOOLEAN
  <2>1. m[y] \in Mark /\ m[x0] \in Mark
    BY <1>4 DEF Marks
  <2> QED BY <2>1, MarkFields
<1>6. Escaping(f, block, from, from) = escape[f] /\ Unescaped(f, block, from, from) = <<>>
  <2>1. from \in Nat
    BY <1>1, <1>3
  <2> QED BY <2>1, UnescapedNone DEF Escaping
<1>7. ASSUME m[y].inside = TRUE, m[y].data = data[f], m[y].esc = escape[f]
      PROVE  InsideAt(f, block, from, m[y].done, m[y], from)
  <2>1. data[f] \o <<>> = data[f]
    BY <1>2
  <2> QED BY <2>1, <1>5, <1>6, <1>7 DEF InsideAt
<1> HIDE DEF n
<1>8. CASE inPacket[f] = TRUE
  <2>1. from = 1 /\ y = x0
    <3>1. from = 1
      BY <1>8 DEF Start
    <3> QED BY <3>1, <1>1
  <2>2. m[x0].done <= m[y].done
    BY <1>5, <2>1
  <2>3. m[y].inside = TRUE => m[y].data = data[f] /\ m[y].esc = escape[f]
    BY <1>8, <2>1 DEF Phase
  <2>4. m[y].inside = FALSE => data[f] = <<>> /\ m[x0].inside # inPacket[f]
    BY <1>8, <2>1 DEF Phase
  <2>5. m[y].done = m[x0].done
    BY <2>1
  <2> QED BY <1>3, <1>4, <1>7, <2>2, <2>3, <2>4, <2>5 DEF n
<1>9. CASE inPacket[f] = FALSE
  <2>1. /\ from \in 2 .. n + 1 /\ block[from - 1] = END
        /\ \A i \in 1 .. n : i < from - 1 => block[i] # END
    BY <1>1, <1>9, StartIs DEF n
  <2>2. PICK i, v : i = from - 1 /\ v = x0 + i - 1
    OBVIOUS
  <2>3. i \in 1 .. n /\ y = x0 + i /\ v \in x0 .. y /\ v \in 0 .. Len(w) /\ block[i] = END
        /\ from = i + 1 /\ \A j \in 1 .. n : j < i => block[j] # END
    <3>1. block[i] = END /\ \A j \in 1 .. n : j < i => block[j] # END
      BY <2>1, <2>2
    <3>0. from \in 2 .. n + 1 /\ i = from - 1 /\ v = x0 + i - 1
      BY <2>1, <2>2
    <3>2. i \in 1 .. n /\ from = i + 1
      BY <1>1, <3>0
    <3>3. i \in Nat /\ x0 + (i + 1) - 1 = x0 + i /\ x0 + i \in Nat
      BY <1>1, <3>2
    <3>4. y = x0 + i
      BY <3>2, <3>3
    <3>5. v \in x0 .. y /\ v \in 0 .. Len(w)
      <4>1. x0 \in Nat /\ n \in Nat /\ i \in Nat /\ 1 <= i /\ i <= n
        BY <1>1, <3>2
      <4>2. v = x0 + i - 1 /\ y = x0 + i
        BY <3>0, <3>4
      <4>3. v \in Nat /\ v >= x0 /\ v <= y /\ v <= x0 + n
        BY <4>1, <4>2
      <4>4. x0 + n \in Nat /\ Len(w) \in Nat /\ x0 + n <= Len(w) /\ y \in Nat
        BY <1>1, <4>1, <4>2
      <4>5. v <= Len(w)
        BY <4>3, <4>4
      <4> QED BY <4>1, <4>3, <4>4, <4>5
    <3> QED BY <3>1, <3>2, <3>4, <3>5
  <2>4. Stepped(m, w, P, v, y) /\ w[y] = END
    <3>1. Stepped(m, w, P, v, y) /\ w[y] = block[i]
      BY <2>2, <2>3, BlockStep DEF n
    <3> QED BY <2>3, <3>1
  <2>5. m[v].inside \in BOOLEAN /\ m[v].done \in Nat
    <3>1. m[v] \in Mark
      BY <2>4 DEF Stepped
    <3> QED BY <3>1, MarkFields
  <2>6. /\ m[v].inside = FALSE => /\ m[y].done = m[v].done /\ m[y].inside = TRUE
                                  /\ m[y].data = <<>> /\ m[y].esc = FALSE
        /\ m[v].inside = TRUE => m[y].done = m[v].done + 1 /\ m[y].inside = FALSE
    BY <2>4 DEF Stepped
  <2>7. m[y].inside = TRUE => m[y].data = data[f] /\ m[y].esc = escape[f]
    BY <1>2, <1>9, <2>5, <2>6
  <2>8. m[x0].inside = FALSE => v = x0
    <3> SUFFICES ASSUME m[x0].inside = FALSE, v # x0 PROVE FALSE
      OBVIOUS
    <3>1. 1 \in 1 .. n /\ 1 < i
      <4>1. n \in Nat /\ i \in Nat /\ 1 <= i /\ i <= n /\ x0 \in Nat /\ v = x0 + i - 1 /\ v # x0
        BY <1>1, <2>2, <2>3
      <4>2. i # 1
        BY <4>1
      <4> QED BY <4>1, <4>2
    <3>2. PICK x : x = x0 + 1
      OBVIOUS
    <3>3. Stepped(m, w, P, x0, x) /\ w[x] = block[1]
      <4>1. x0 = x0 + 1 - 1
        BY <1>1
      <4> QED BY <4>1, <3>1, <3>2, BlockStep DEF n
    <3>4. block[1] = END
      BY <3>3 DEF Stepped
    <3> QED BY <3>1, <3>4, <2>3
  <2>9. m[x0].done <= m[y].done
    <3>1. y - x0 \in Nat /\ x0 + (y - x0) = y
      BY <1>1, <1>4
    <3> QED BY <3>1, <1>1, <1>4, MarksGrow
  <2>10. m[x0].inside = FALSE => m[y].inside = TRUE /\ m[y].done = m[x0].done
    BY <2>6, <2>8
  <2>11. m[y].inside = FALSE => data[f] = <<>> /\ m[x0].inside # inPacket[f]
    BY <1>2, <1>9, <1>5, <2>10
  <2>12. m[x0].inside = inPacket[f] => m[y].done = m[x0].done
    BY <1>9, <2>10
  <2> QED BY <1>3, <1>4, <1>7, <2>7, <2>9, <2>11, <2>12 DEF n
<1> QED BY <1>2, <1>8, <1>9

\* A block does to the thread what it does to the reader.
LEMMA ParsedBlock ==
  ASSUME NEW f, NEW w, NEW block, NEW x0, Covers(block, w, x0), block # <<>>,
         NEW m, NEW P, Marks(m, w, P), \A i \in 1 .. Len(P) : P[i] # <<>>, Len(P) \in Nat,
         Local(data[f], inPacket[f], escape[f]), Phase(m[x0], inPacket[f], data[f], escape[f])
  PROVE  Follows(P, m[x0], inPacket[f], m[x0 + Len(block)], Parsed(f, block))
<1> DEFINE from == Start(f, block)
           stop == ParseEnd(f, block, from)
           more == data[f] \o Unescaped(f, block, from, stop)
           p == Parsed(f, block)
           n == Len(block)
           y == x0 + from - 1
           r == m[x0 + n]
<1>1. block \in Seq(Byte) /\ w \in Seq(Byte) /\ x0 \in Nat /\ n \in Nat /\ n # 0
      /\ x0 + n <= Len(w) /\ Len(w) \in Nat
  <2>1. block \in Seq(Byte) /\ w \in Seq(Byte) /\ x0 \in Nat /\ x0 + n <= Len(w)
    BY DEF Covers
  <2> QED BY <2>1
<1>2. inPacket[f] \in BOOLEAN /\ escape[f] \in BOOLEAN /\ data[f] \in Seq(Byte)
  BY DEF Local
<1>3. \A z \in 0 .. Len(w) : m[z].done \in Nat /\ m[z].inside \in BOOLEAN
  BY MarkFields DEF Marks
<1>4. x0 \in 0 .. Len(w) /\ x0 + n \in 0 .. Len(w)
  BY <1>1
<1>5. m[x0].done <= r.done
  BY <1>1, <1>4, MarksGrow
<1>6. from \in 0 .. n + 1
  BY <1>1, <1>2, StartTyped, Zenon
<1>7. CASE from = 0
  <2>1. p = [data |-> data[f], inPacket |-> FALSE, escape |-> escape[f], packet |-> <<>>,
             rest |-> 0, junk |-> TRUE]
    BY <1>7 DEF Parsed
  <2>2. p.inPacket = FALSE /\ p.packet = <<>>
    BY <2>1
  <2>3. m[x0].inside # inPacket[f]
    <3> SUFFICES ASSUME m[x0].inside = inPacket[f] PROVE FALSE
      OBVIOUS
    <3>1. inPacket[f] = FALSE /\ m[x0].inside = FALSE
      BY <1>1, <1>2, <1>7, StartTyped, Zenon
    <3>2. \A i \in 1 .. n : block[i] # END
      <4>1. from \notin 2 .. n + 1
        BY <1>1, <1>7
      <4> QED BY <1>1, <3>1, <4>1, StartIs, Zenon
    <3>3. PICK x : x = x0 + 1
      OBVIOUS
    <3>4. 1 \in 1 .. n /\ x0 = x0 + 1 - 1
      BY <1>1
    <3>5. Stepped(m, w, P, x0, x) /\ w[x] = block[1]
      BY <3>3, <3>4, BlockStep
    <3>6. block[1] = END
      BY <3>1, <3>5 DEF Stepped
    <3> QED BY <3>2, <3>4, <3>6
  <2> HIDE DEF p, r, n
  <2>4. Follows(P, m[x0], inPacket[f], r, p)
    BY <1>5, <2>2, <2>3 DEF Follows, Phase
  <2> QED BY <2>4 DEF p, r, n
<1>8. CASE from # 0
  <2>1. /\ y \in x0 .. x0 + n /\ from \in 1 .. n + 1
        /\ m[x0].done <= m[y].done
        /\ m[y].inside = TRUE => InsideAt(f, block, from, m[y].done, m[y], from)
        /\ m[y].inside = FALSE => data[f] = <<>> /\ m[x0].inside # inPacket[f]
        /\ m[x0].inside = inPacket[f] => m[y].done = m[x0].done
    BY <1>8, BlockStart
  <2>2. y \in 0 .. Len(w) /\ y \in Nat
    BY <1>1, <2>1
  <2>3. stop \in from .. n + 1
        /\ \A i \in from .. n : i < stop => ~ Ends(f, block, from, i)
    BY <1>1, <2>1, ParseEndIs
  <2>4. stop > n => p = [data |-> more, inPacket |-> TRUE, packet |-> <<>>, rest |-> 0, junk |-> FALSE,
                         escape |-> IF from > n THEN escape[f] ELSE block[n] = ESC]
    BY <1>8 DEF Parsed
  <2>5. ~(stop > n) => p = [data |-> <<>>, inPacket |-> FALSE, escape |-> FALSE, junk |-> FALSE,
                            packet |-> IF block[stop] = END THEN more ELSE <<>>,
                            rest |-> n - stop]
    BY <1>8 DEF Parsed
  <2> HIDE DEF p
  <2>6. stop > n => /\ p.data = more /\ p.inPacket = TRUE /\ p.packet = <<>> /\ p.rest = 0 /\ p.junk = FALSE
                    /\ p.escape = IF from > n THEN escape[f] ELSE block[n] = ESC
    <3> HIDE DEF more, stop, from, n
    <3> QED BY <2>4
  <2>7. ~(stop > n) => /\ p.data = <<>> /\ p.inPacket = FALSE /\ p.escape = FALSE /\ p.junk = FALSE
                       /\ p.packet = IF block[stop] = END THEN more ELSE <<>>
                       /\ p.rest = n - stop
    <3> HIDE DEF more, stop, from, n
    <3> QED BY <2>5
  <2>8. CASE m[y].inside = FALSE
    <3>1. data[f] = <<>> /\ m[x0].inside # inPacket[f]
      BY <2>1, <2>8
    <3>2. CASE from = n + 1
      <4>1. stop = n + 1 /\ stop = from /\ stop > n
        BY <1>1, <2>3, <3>2
      <4>2. more = <<>>
        <5>1. Unescaped(f, block, from, from) = <<>>
          <6>1. from \in Nat
            BY <1>1, <3>2
          <6> QED BY <6>1, UnescapedNone
        <5> QED BY <3>1, <4>1, <5>1
      <4>3. p.data = <<>> /\ p.packet = <<>>
        BY <2>6, <4>1, <4>2
      <4>4. r.inside = FALSE
        <5>1. y = x0 + n
          BY <1>1, <3>2
        <5> QED BY <5>1, <2>8
      <4> HIDE DEF r, y, n, from, stop, more
      <4>5. Follows(P, m[x0], inPacket[f], r, p)
        BY <1>5, <3>1, <4>3, <4>4 DEF Follows, Phase
      <4> QED BY <4>5 DEF p, r, n
    <3>3. CASE from # n + 1
      <4>1. from \in 1 .. n
        BY <1>1, <2>1, <3>3
      <4>2. block[from] = END
        <5>1. PICK x : x = x0 + from
          OBVIOUS
        <5>2. Stepped(m, w, P, y, x) /\ w[x] = block[from]
          BY <4>1, <5>1, BlockStep
        <5> QED BY <2>8, <5>2 DEF Stepped
      <4>3. stop = from /\ ~(stop > n)
        <5>1. Ends(f, block, from, from)
          BY <4>2 DEF Ends
        <5>2. ~(from < stop)
          <6>1. from \in from .. n
            BY <1>1, <4>1
          <6> HIDE DEF stop, from, n
          <6> QED BY <2>3, <5>1, <6>1
        <5> HIDE DEF stop, from, n
        <5> QED BY <1>1, <2>3, <4>1, <5>2
      <4>4. more = <<>>
        <5>1. Unescaped(f, block, from, from) = <<>>
          <6>1. from \in Nat
            BY <1>1, <4>1
          <6> QED BY <6>1, UnescapedNone
        <5> QED BY <3>1, <4>3, <5>1
      <4> HIDE DEF r, y, n, from, stop, more
      <4>5. p.packet = <<>> /\ p.inPacket = FALSE
        BY <2>7, <4>3, <4>4
      <4>6. Follows(P, m[x0], inPacket[f], r, p)
        BY <1>5, <3>1, <4>5 DEF Follows, Phase
      <4> QED BY <4>6 DEF p, r, n
    <3> QED BY <3>2, <3>3
  <2>9. CASE m[y].inside = TRUE
    <3>1. PICK k : k = m[y].done
      OBVIOUS
    <3>2. /\ stop > n => InsideAt(f, block, from, k, r, n + 1)
          /\ stop <= n =>
               /\ block[stop] = END /\ more = P[k + 1]
               /\ k < Len(P) /\ m[x0 + stop].done = k + 1 /\ m[x0 + stop].inside = FALSE
      <4>1. InsideAt(f, block, from, k, m[x0 + from - 1], from)
        BY <2>1, <2>9, <3>1
      <4>2. from \in 1 .. Len(block) + 1
        BY <2>1
      <4>3. PICK st : st = stop
        OBVIOUS
      <4>4. /\ st > n => InsideAt(f, block, from, k, m[x0 + n], n + 1)
            /\ st <= n =>
               /\ block[st] = END /\ data[f] \o Unescaped(f, block, from, st) = P[k + 1]
               /\ k < Len(P) /\ m[x0 + st].done = k + 1 /\ m[x0 + st].inside = FALSE
        <5>1. st = ParseEnd(f, block, from)
          BY <4>3
        <5>2. Stopped(f, block, x0, m, P, from, k, st)
          <6> HIDE DEF from, stop
          <6> QED BY <4>1, <4>2, <5>1, <1>2, InsideBlock
        <5> QED BY <5>2 DEF Stopped
      <4> QED BY <4>3, <4>4
    <3>3. k \in Nat /\ m[x0].done <= k /\ (m[x0].inside = inPacket[f] => k = m[x0].done) /\ m[x0].done \in Nat
          /\ r.done \in Nat
      BY <1>3, <1>4, <2>1, <2>2, <3>1
    <3>4. CASE stop > n
      <4>1. Escaping(f, block, from, n + 1) = IF from > n THEN escape[f] ELSE block[n] = ESC
        <5>1. from > n <=> n + 1 = from
          BY <1>1, <2>1
        <5>2. (n + 1) - 1 = n
          BY <1>1
        <5> QED BY <5>1, <5>2 DEF Escaping
      <4>2. r.inside = TRUE /\ r.data = more /\ r.esc = Escaping(f, block, from, n + 1) /\ r.done = k
        <5>1. stop = n + 1
          BY <1>1, <2>3, <3>4
        <5> QED BY <3>2, <3>4, <5>1 DEF InsideAt
      <4>3. p.data = more /\ p.inPacket = TRUE /\ p.packet = <<>> /\ p.junk = FALSE
            /\ p.escape = Escaping(f, block, from, n + 1)
        <5> HIDE DEF r, y, n, from, stop, more
        <5> QED BY <2>6, <3>4, <4>1
      <4> HIDE DEF r, y, n, from, stop, more
      <4>4. Phase(r, p.inPacket, p.data, p.escape)
        BY <4>2, <4>3 DEF Phase
      <4>5. m[x0].inside = inPacket[f] => r.inside = p.inPacket /\ r.done = m[x0].done + 0
        <5> SUFFICES ASSUME m[x0].inside = inPacket[f]
                     PROVE  r.inside = p.inPacket /\ r.done = m[x0].done + 0
          OBVIOUS
        <5>1. r.inside = p.inPacket
          BY <4>2, <4>3
        <5>2. r.done = m[x0].done + 0
          BY <3>3, <4>2
        <5> QED BY <5>1, <5>2
      <4>6. Follows(P, m[x0], inPacket[f], r, p)
        BY <1>5, <4>3, <4>4, <4>5 DEF Follows
      <4> QED BY <4>6 DEF p, r, n
    <3>5. CASE ~(stop > n)
      <4>1. stop \in Nat /\ stop <= n /\ stop \in 1 .. n
        <5> HIDE DEF stop, from, n
        <5> QED BY <1>1, <2>1, <2>3, <3>5
      <4>2. /\ block[stop] = END /\ more = P[k + 1]
            /\ k < Len(P) /\ m[x0 + stop].done = k + 1 /\ m[x0 + stop].inside = FALSE
        BY <3>2, <4>1
      <4>3. k + 1 <= r.done
        <5>1. x0 + stop \in 0 .. Len(w) /\ n - stop \in Nat /\ (x0 + stop) + (n - stop) = x0 + n
          <6> HIDE DEF stop, n
          <6> QED BY <1>1, <4>1
        <5>2. m[x0 + stop].done <= m[(x0 + stop) + (n - stop)].done
          <6>1. PICK a, b : a = x0 + stop /\ b = n - stop
            OBVIOUS
          <6>2. a \in 0 .. Len(w) /\ b \in Nat /\ a + b <= Len(w)
            BY <5>1, <6>1, <1>1
          <6>3. m[a].done <= m[a + b].done
            <7> HIDE <6>1
            <7> QED BY <1>1, <6>2, MarksGrow
          <6> QED BY <6>1, <6>3
        <5> QED BY <4>2, <5>1, <5>2
      <4>4. p.data = <<>> /\ p.inPacket = FALSE /\ p.junk = FALSE /\ p.packet = P[k + 1] /\ p.rest = n - stop
        <5> HIDE DEF r, y, n, from, stop, more
        <5> QED BY <2>7, <3>5, <4>2
      <4>5. p.packet # <<>>
        <5>1. k + 1 \in 1 .. Len(P)
          BY <3>3, <4>2
        <5> QED BY <4>4, <5>1
      <4>6. p.rest = 0 => r.inside = FALSE /\ r.done = k + 1
        <5> SUFFICES ASSUME p.rest = 0 PROVE r.inside = FALSE /\ r.done = k + 1
          OBVIOUS
        <5>1. stop = n
          BY <1>1, <4>1, <4>4
        <5> QED BY <4>2, <5>1
      <4> HIDE DEF r, y, n, from, stop, more
      <4>7. Phase(r, p.inPacket, p.data, p.escape)
        BY <4>4 DEF Phase
      <4>8. k < r.done /\ k < Len(P)
        BY <3>3, <4>2, <4>3
      <4>9. \E j \in Nat : m[x0].done <= j /\ j < r.done /\ j < Len(P) /\ p.packet = P[j + 1]
        BY <3>3, <4>4, <4>8
      <4>10. m[x0].inside = inPacket[f] /\ p.rest = 0 => r.inside = p.inPacket /\ r.done = m[x0].done + 1
        BY <3>3, <4>4, <4>6
      <4>11. Follows(P, m[x0], inPacket[f], r, p)
        BY <1>5, <4>4, <4>5, <4>7, <4>9, <4>10 DEF Follows
      <4> QED BY <4>11 DEF p, r, n
    <3> QED BY <3>4, <3>5
  <2> QED BY <1>3, <2>2, <2>8, <2>9
<1> QED BY <1>7, <1>8

----------------------------------------------------------------------------
(* What process_osc_data got of a client. *)

\* A call, with its connection.
CallRecord == [conn : Conns, payload : Seq(Byte)]

\* HandledOf, of any sequence of calls.
OfConn(h, c) ==
    FlattenSeq([i \in DOMAIN h |-> IF h[i].conn = c THEN <<h[i].payload>> ELSE <<>>])

\* One more call.
LEMMA OfConnMore ==
  ASSUME NEW h \in Seq(CallRecord), NEW e \in CallRecord, NEW c
  PROVE  /\ OfConn(h, c) \in Seq(Seq(Byte))
         /\ e.conn = c => OfConn(Append(h, e), c) = Append(OfConn(h, c), e.payload)
         /\ e.conn # c => OfConn(Append(h, e), c) = OfConn(h, c)
<1> DEFINE g == Append(h, e)
           s == [i \in DOMAIN h |-> IF h[i].conn = c THEN <<h[i].payload>> ELSE <<>>]
           t == [i \in DOMAIN g |-> IF g[i].conn = c THEN <<g[i].payload>> ELSE <<>>]
           n == Len(h)
           X == Seq(Byte)
<1>1. /\ n \in Nat /\ DOMAIN h = 1 .. n /\ DOMAIN g = 1 .. n + 1
      /\ g[n + 1] = e /\ \A i \in 1 .. n : g[i] = h[i]
  OBVIOUS
<1>2. \A r \in CallRecord : r.payload \in X
  BY DEF CallRecord
<1>3. \A i \in 1 .. n : h[i] \in CallRecord
  OBVIOUS
<1> HIDE DEF g, X
<1>4. s \in Seq(Seq(X)) /\ Len(s) = n
  <2>1. ASSUME NEW i \in 1 .. n PROVE s[i] \in Seq(X)
    <3>1. h[i].payload \in X
      BY <1>2, <1>3
    <3>2. <<h[i].payload>> \in Seq(X) /\ <<>> \in Seq(X)
      BY <3>1
    <3>3. s[i] = IF h[i].conn = c THEN <<h[i].payload>> ELSE <<>>
      BY <1>1
    <3> QED BY <3>2, <3>3
  <2>2. s = [i \in 1 .. n |-> s[i]]
    BY <1>1
  <2> HIDE DEF s, n
  <2> QED BY <1>1, <2>1, <2>2
<1>5. t \in Seq(Seq(X)) /\ Len(t) = n + 1 /\ t[n + 1] = IF e.conn = c THEN <<e.payload>> ELSE <<>>
  <2>1. ASSUME NEW i \in 1 .. n + 1 PROVE t[i] \in Seq(X)
    <3>1. g[i] \in CallRecord
      BY <1>1, <1>3
    <3>2. g[i].payload \in X
      BY <1>2, <3>1
    <3>3. <<g[i].payload>> \in Seq(X) /\ <<>> \in Seq(X)
      BY <3>2
    <3>4. t[i] = IF g[i].conn = c THEN <<g[i].payload>> ELSE <<>>
      BY <1>1
    <3> QED BY <3>3, <3>4
  <2>2. t = [i \in 1 .. n + 1 |-> t[i]]
    BY <1>1
  <2>3. t[n + 1] = IF e.conn = c THEN <<e.payload>> ELSE <<>>
    BY <1>1
  <2> HIDE DEF t, n
  <2>4. n + 1 \in Nat /\ t \in [1 .. n + 1 -> Seq(X)]
    BY <1>1, <2>1, <2>2
  <2>5. t \in Seq(Seq(X)) /\ Len(t) = n + 1
    BY <2>4
  <2> QED BY <2>3, <2>5
<1>6. OneMore(t, s)
  <2>1. \A i \in 1 .. n : t[i] = s[i]
    BY <1>1
  <2> HIDE DEF s, t
  <2> QED BY <1>4, <1>5, <2>1 DEF OneMore
<1>7. OfConn(h, c) = FlattenSeq(s) /\ OfConn(g, c) = FlattenSeq(t)
  BY DEF OfConn
<1> HIDE DEF s, t
<1>8. FlattenSeq(s) \in Seq(X) /\ FlattenSeq(t) = FlattenSeq(s) \o t[n + 1]
  <2>1. FlattenSeq(s) \in Seq(X) /\ FlattenSeq(t) = FlattenSeq(s) \o t[Len(s) + 1]
    BY <1>4, <1>5, <1>6, FlattenAppend
  <2> QED BY <2>1, <1>4
<1>9. e.payload \in X
  BY <1>2
<1>10. CASE e.conn = c
  <2>1. FlattenSeq(s) \o <<e.payload>> = Append(FlattenSeq(s), e.payload)
    BY <1>8, <1>9
  <2> QED BY <1>5, <1>7, <1>8, <1>10, <2>1 DEF g, X
<1>11. CASE e.conn # c
  <2>1. FlattenSeq(s) \o <<>> = FlattenSeq(s)
    BY <1>8
  <2> QED BY <1>5, <1>7, <1>8, <1>11, <2>1 DEF g, X
<1> QED BY <1>10, <1>11

\* No call was made.
LEMMA OfConnNone ==
  ASSUME NEW c
  PROVE  OfConn(<<>>, c) = <<>>
<1> DEFINE s == [i \in DOMAIN <<>> |-> IF <<>>[i].conn = c THEN <<<<>>[i].payload>> ELSE <<>>]
<1>1. OfConn(<<>>, c) = FlattenSeq(s)
  BY DEF OfConn
<1>2. s = <<>> /\ <<>> \in Seq(Seq({})) /\ Len(<<>>) = 0
  OBVIOUS
<1> HIDE DEF s
<1>3. PICK F : Partial(F, <<>>, {}) /\ FlattenSeq(<<>>) = F[Len(<<>>)]
  BY <1>2, FlattenPartial
<1> QED BY <1>1, <1>2, <1>3 DEF Partial

\* The packets q are packets of P in their order, up to the one at n.
Placed(q, P, n) ==
    /\ q \in Seq(Seq(Byte))
    /\ \E place \in [1 .. Len(q) -> 1 .. Len(P)] :
         /\ \A i \in 1 .. Len(q) : q[i] = P[place[i]] /\ place[i] <= n
         /\ \A i, j \in 1 .. Len(q) : i < j => place[i] < place[j]

\* There are places up to a later one.
LEMMA PlacedLater ==
  ASSUME NEW q, NEW P, NEW n \in Nat, Placed(q, P, n), NEW l \in Nat, n <= l
  PROVE  Placed(q, P, l)
<1>1. PICK place \in [1 .. Len(q) -> 1 .. Len(P)] :
        /\ \A i \in 1 .. Len(q) : q[i] = P[place[i]] /\ place[i] <= n
        /\ \A i, j \in 1 .. Len(q) : i < j => place[i] < place[j]
  BY DEF Placed
<1>2. \A i \in 1 .. Len(q) : place[i] <= l
  <2> SUFFICES ASSUME NEW i \in 1 .. Len(q) PROVE place[i] <= l
    OBVIOUS
  <2>1. place[i] \in 1 .. Len(P) /\ place[i] <= n
    BY <1>1
  <2>2. place[i] \in Int
    BY <2>1
  <2> QED BY <2>1, <2>2
<1> QED BY <1>1, <1>2 DEF Placed

\* One more packet, that comes later.
LEMMA PlacedMore ==
  ASSUME NEW q, NEW P, NEW n \in Nat, Placed(q, P, n), NEW k \in Nat, n <= k, Len(P) \in Nat, k < Len(P),
         P[k + 1] \in Seq(Byte), NEW l \in Nat, k < l
  PROVE  Placed(Append(q, P[k + 1]), P, l)
<1>1. PICK place \in [1 .. Len(q) -> 1 .. Len(P)] :
        /\ \A i \in 1 .. Len(q) : q[i] = P[place[i]] /\ place[i] <= n
        /\ \A i, j \in 1 .. Len(q) : i < j => place[i] < place[j]
  BY DEF Placed
<1> DEFINE m == Len(q)
           r == Append(q, P[k + 1])
           f == [i \in 1 .. m + 1 |-> IF i = m + 1 THEN k + 1 ELSE place[i]]
<1>2. q \in Seq(Seq(Byte)) /\ m \in Nat
  BY DEF Placed
<1>3. r \in Seq(Seq(Byte)) /\ Len(r) = m + 1 /\ r[m + 1] = P[k + 1] /\ \A i \in 1 .. m : r[i] = q[i]
  BY <1>2
<1>4. k + 1 \in 1 .. Len(P) /\ m + 1 \in 1 .. m + 1 /\ \A i \in 1 .. m : i \in 1 .. m + 1 /\ i # m + 1
  BY <1>2
<1>5. \A i \in 1 .. m : place[i] \in 1 .. Len(P) /\ place[i] \in Nat /\ place[i] <= n
  BY <1>1
<1>6. \A i \in 1 .. m + 1 : i # m + 1 => i \in 1 .. m
  <2>1. m \in Nat
    BY <1>2
  <2> HIDE DEF m
  <2> QED BY <2>1
<1> HIDE DEF r, m
<1>7. f \in [1 .. m + 1 -> 1 .. Len(P)] /\ f[m + 1] = k + 1 /\ \A i \in 1 .. m : f[i] = place[i]
  BY <1>4, <1>5, <1>6
<1> HIDE DEF f
<1>8. ASSUME NEW i \in 1 .. m + 1 PROVE r[i] = P[f[i]] /\ f[i] <= l
  <2>1. CASE i = m + 1
    BY <2>1, <1>3, <1>7
  <2>2. CASE i # m + 1
    <3>1. i \in 1 .. m
      BY <2>2, <1>6
    <3>2. r[i] = q[i] /\ q[i] = P[place[i]] /\ f[i] = place[i] /\ place[i] <= n /\ place[i] \in Nat
      BY <3>1, <1>1, <1>3, <1>5, <1>7 DEF m
    <3> QED BY <3>2
  <2> QED BY <2>1, <2>2
<1>9. ASSUME NEW i \in 1 .. m + 1, NEW j \in 1 .. m + 1, i < j PROVE f[i] < f[j]
  <2>1. i \in 1 .. m
    BY <1>2, <1>9
  <2>2. f[i] = place[i] /\ place[i] <= n /\ place[i] \in Nat
    BY <2>1, <1>5, <1>7
  <2>3. CASE j = m + 1
    <3>1. f[j] = k + 1
      BY <2>3, <1>7
    <3> QED BY <2>2, <3>1
  <2>4. CASE j # m + 1
    <3>1. j \in 1 .. m
      BY <2>4, <1>6
    <3> QED BY <2>1, <2>2, <3>1, <1>1, <1>7, <1>9 DEF m
  <2> QED BY <2>3, <2>4
<1>10. \E pl \in [1 .. Len(r) -> 1 .. Len(P)] :
         /\ \A i \in 1 .. Len(r) : r[i] = P[pl[i]] /\ pl[i] <= l
         /\ \A i, j \in 1 .. Len(r) : i < j => pl[i] < pl[j]
  BY <1>3, <1>7, <1>8, <1>9
<1> QED BY <1>3, <1>10 DEF Placed, r

\* Nothing was handled.
LEMMA PlacedNone ==
  ASSUME NEW P, NEW n
  PROVE  Placed(<<>>, P, n)
<1>1. <<>> \in Seq(Seq(Byte)) /\ Len(<<>>) = 0 /\ 1 .. 0 = {}
  OBVIOUS
<1>2. [i \in 1 .. 0 |-> 1] \in [1 .. 0 -> 1 .. Len(P)]
  BY <1>1
<1> QED BY <1>1, <1>2 DEF Placed

----------------------------------------------------------------------------
(* A connection and its stream. *)

ConnRecord ==
    [state : {"none", "waiting", "open", "shut", "broken", "gone"},
     tosend : Seq(Byte), wire : Seq(Byte)]

\* How much of the stream of c was read, when its connection is r.
Position(c, r) == Len(Stream[c]) - (Len(r.wire) + Len(r.tosend))

\* Where a reader is that has read as much.
Reader(c, r) == Marking(c)[Position(c, r)]

\* What was not read is the rest of the stream.
Live(c, r) ==
    /\ Position(c, r) \in Nat
    /\ \A i \in 1 .. Len(r.wire) : r.wire[i] = Stream[c][Position(c, r) + i]
    /\ \A i \in 1 .. Len(r.tosend) : r.tosend[i] = Stream[c][Position(c, r) + Len(r.wire) + i]

\* The packets q of a connection r, which is paced (p) or not: those that a
\* reader has read to their end, or some of them; when the connection broke or
\* was closed, nothing more can be read.
Whole(c, r, q, p) ==
    \/ /\ Live(c, r)
       /\ r.state \in {"none", "waiting"} => Position(c, r) = 0
       /\ Placed(q, Payloads[c], Reader(c, r).done)
       /\ p = TRUE => Len(q) = Reader(c, r).done
    \/ /\ r.wire = <<>> /\ r.state \in {"shut", "broken", "gone"}
       /\ p = TRUE => r.state = "gone"
       /\ Placed(q, Payloads[c], Len(Payloads[c]))

\* What the thread knows of a connection it can still read from: what a reader
\* knows, if the connection is paced.
Known(c, r, p, b, d, e) ==
    r.state = "open" \/ r.wire # <<>> =>
        /\ Phase(Reader(c, r), b, d, e)
        /\ p = TRUE => Reader(c, r).inside = b

\* A live connection has a reader.
LEMMA ReaderTyped ==
  ASSUME NEW c \in Conns \ Junk, NEW r \in ConnRecord, Live(c, r)
  PROVE  /\ Position(c, r) \in 0 .. Len(Stream[c]) /\ Reader(c, r) \in Mark
         /\ Reader(c, r).done \in Nat /\ Reader(c, r).done <= Len(Payloads[c])
<1>1. r.wire \in Seq(Byte) /\ r.tosend \in Seq(Byte) /\ Stream[c] \in Seq(Byte)
  BY StreamMarked DEF ConnRecord
<1>2. Position(c, r) \in 0 .. Len(Stream[c])
  <2>1. Position(c, r) \in Nat
    BY DEF Live
  <2>2. Len(r.wire) \in Nat /\ Len(r.tosend) \in Nat /\ Len(Stream[c]) \in Nat
    BY <1>1
  <2>3. PICK a, b, l, k : a = Len(r.wire) /\ b = Len(r.tosend) /\ l = Len(Stream[c]) /\ k = Position(c, r)
    OBVIOUS
  <2>4. k = l - (a + b)
    BY <2>3 DEF Position
  <2>5. a \in Nat /\ b \in Nat /\ l \in Nat /\ k \in Nat
    BY <2>1, <2>2, <2>3
  <2>6. k \in 0 .. l
    <3> HIDE <2>3
    <3> QED BY <2>4, <2>5
  <2> QED BY <2>3, <2>6
<1>3. Marks(Marking(c), Stream[c], Payloads[c]) /\ Len(Payloads[c]) \in Nat
  BY MarkingMarks, PayloadsTyped
<1>4. Reader(c, r) \in Mark
  BY <1>2, <1>3 DEF Marks, Reader
<1>5. Reader(c, r).done \in Nat
  BY <1>4, MarkFields
<1>6. Reader(c, r).done <= Len(Payloads[c])
  BY <1>1, <1>2, <1>3, EndsCounted DEF Reader
<1> QED BY <1>2, <1>4, <1>5, <1>6

\* What is said of a paced connection need not be said of another.
LEMMA WholeUnpaced ==
  ASSUME NEW c, NEW r, NEW q, NEW p, Whole(c, r, q, p), NEW o, o = TRUE => p = TRUE
  PROVE  Whole(c, r, q, o)
BY DEF Whole

\* A connection that breaks or is closed has read packets and no others.
LEMMA WholeClosed ==
  ASSUME NEW c \in Conns \ Junk, NEW r \in ConnRecord, NEW q, NEW p, Whole(c, r, q, p),
         NEW t, t.wire = <<>>, NEW o,
         \/ t.state = "gone"
         \/ t.state \in {"shut", "broken"} /\ o = FALSE
  PROVE  Whole(c, t, q, o)
<1>1. Len(Payloads[c]) \in Nat
  BY PayloadsTyped
<1>2. Placed(q, Payloads[c], Len(Payloads[c]))
  <2>1. CASE Live(c, r) /\ Placed(q, Payloads[c], Reader(c, r).done)
    BY <2>1, <1>1, ReaderTyped, PlacedLater
  <2> QED BY <2>1 DEF Whole
<1> QED BY <1>2 DEF Whole

\* The state does not matter to a connection that is neither new nor waiting.
LEMMA WholeState ==
  ASSUME NEW c, NEW r, NEW q, NEW p, Whole(c, r, q, p), NEW t, t.wire = r.wire, t.tosend = r.tosend,
         \/ r.state = "none" /\ t.state = "waiting"
         \/ r.state = "waiting" /\ t.state = "open"
         \/ r.state = "open" /\ t.state = "shut"
         \/ r.state = "shut" /\ t.state = "gone"
         \/ r.state = "broken" /\ t.state = "shut"
  PROVE  Whole(c, t, q, p)
<1>1. Position(c, t) = Position(c, r) /\ Reader(c, t) = Reader(c, r)
  BY DEF Position, Reader
<1>2. Live(c, r) => Live(c, t)
  BY <1>1 DEF Live
<1>3. CASE /\ Live(c, r)
           /\ r.state \in {"none", "waiting"} => Position(c, r) = 0
           /\ Placed(q, Payloads[c], Reader(c, r).done)
           /\ p = TRUE => Len(q) = Reader(c, r).done
  <2>1. t.state \in {"none", "waiting"} => r.state \in {"none", "waiting"}
    OBVIOUS
  <2> QED BY <1>1, <1>2, <1>3, <2>1 DEF Whole
<1>4. CASE /\ r.wire = <<>> /\ r.state \in {"shut", "broken", "gone"}
           /\ p = TRUE => r.state = "gone"
           /\ Placed(q, Payloads[c], Len(Payloads[c]))
  <2>1. r.state # "gone" /\ p # TRUE
    BY <1>4
  <2>2. t.state \in {"shut", "gone"}
    BY <1>4
  <2> QED BY <1>4, <2>1, <2>2 DEF Whole
<1> QED BY <1>3, <1>4 DEF Whole

\* Sending a byte moves it.
LEMMA WholeSend ==
  ASSUME NEW c \in Conns \ Junk, NEW r \in ConnRecord, NEW q, NEW p, Whole(c, r, q, p),
         r.state \in {"waiting", "open"}, r.tosend # <<>>,
         NEW t \in ConnRecord, t.state = r.state, t.wire = Append(r.wire, Head(r.tosend)), t.tosend = Tail(r.tosend)
  PROVE  Whole(c, t, q, p) /\ Position(c, t) = Position(c, r) /\ Reader(c, t) = Reader(c, r)
<1> DEFINE w == r.wire
           s == r.tosend
           n == Len(w)
           l == Len(s)
           k == Position(c, r)
           L == Len(Stream[c])
<1>1. w \in Seq(Byte) /\ s \in Seq(Byte) /\ Stream[c] \in Seq(Byte) /\ n \in Nat /\ l \in Nat /\ L \in Nat
  BY StreamMarked DEF ConnRecord
<1>2. k = L - (n + l) /\ l # 0
  BY <1>1 DEF Position
<1>3. /\ Len(t.wire) = n + 1 /\ t.wire[n + 1] = s[1] /\ \A i \in 1 .. n : t.wire[i] = w[i]
      /\ Len(t.tosend) = l - 1 /\ \A i \in 1 .. l - 1 : t.tosend[i] = s[i + 1]
  BY <1>1, <1>2
<1>4. /\ Live(c, r) /\ (r.state \in {"none", "waiting"} => k = 0)
      /\ Placed(q, Payloads[c], Reader(c, r).done)
      /\ p = TRUE => Len(q) = Reader(c, r).done
  BY DEF Whole
<1>5. /\ k \in Nat
      /\ \A i \in 1 .. n : w[i] = Stream[c][k + i]
      /\ \A i \in 1 .. l : s[i] = Stream[c][k + n + i]
  BY <1>4 DEF Live
<1>6. Position(c, t) = k
  <2>1. Position(c, t) = L - ((n + 1) + (l - 1))
    BY <1>3 DEF Position
  <2> HIDE DEF k, n, l, L
  <2> QED BY <2>1, <1>1, <1>2
<1>7. Reader(c, t) = Reader(c, r)
  BY <1>6 DEF Reader
<1> HIDE DEF w, s, n, l, k, L
<1>8. ASSUME NEW i \in 1 .. n + 1 PROVE t.wire[i] = Stream[c][k + i]
  <2>1. CASE i = n + 1
    <3>0. l \in Nat /\ n \in Nat /\ k \in Nat /\ l # 0
      BY <1>1, <1>2, <1>5
    <3>1. 1 \in 1 .. l /\ k + n + 1 = k + (n + 1)
      BY <3>0
    <3> QED BY <2>1, <3>1, <1>3, <1>5
  <2>2. CASE i # n + 1
    <3>1. i \in 1 .. n
      BY <2>2, <1>1
    <3> QED BY <3>1, <1>3, <1>5
  <2> QED BY <2>1, <2>2
<1>9. ASSUME NEW i \in 1 .. l - 1 PROVE t.tosend[i] = Stream[c][k + (n + 1) + i]
  <2>1. i + 1 \in 1 .. l /\ k + n + (i + 1) = k + (n + 1) + i
    BY <1>1, <1>5
  <2> QED BY <2>1, <1>3, <1>5
<1>10. Live(c, t)
  BY <1>3, <1>5, <1>6, <1>8, <1>9 DEF Live
<1> QED BY <1>4, <1>6, <1>7, <1>10 DEF Whole, k

\* The thread takes a block of n bytes from the connection r of c with
\* descriptor f, parses it to v and then has the connection t, the packets u
\* instead of q, and o instead of p for whether it is paced.
Taking(c, f, r, q, p, n, block, v, t, u, o) ==
    /\ c \in Conns \ Junk /\ r \in ConnRecord /\ Whole(c, r, q, p)
    /\ r.state \notin {"none", "waiting"} /\ r.wire # <<>> /\ p \in BOOLEAN
    /\ Local(data[f], inPacket[f], escape[f])
    /\ Known(c, r, p, inPacket[f], data[f], escape[f])
    /\ n \in 1 .. Len(r.wire) /\ block = SubSeq(r.wire, 1, n)
    /\ t \in ConnRecord /\ t.state = r.state /\ t.tosend = r.tosend
    /\ t.wire = SubSeq(r.wire, n + 1, Len(r.wire))
    /\ v = Parsed(f, block) /\ q \in Seq(Seq(Byte))
    /\ u = IF v.packet = <<>> THEN q ELSE Append(q, v.packet)
    /\ o \in BOOLEAN /\ (o = TRUE => p = TRUE /\ v.rest = 0)

Taken(c, p, v, t, u, o) ==
    /\ Whole(c, t, u, o)
    /\ Known(c, t, o, v.inPacket, v.data, v.escape)
    /\ p = TRUE => v.junk = FALSE

\* Taking a block from a connection.
LEMMA WholeBlock ==
  ASSUME NEW c, NEW f, NEW r, NEW q, NEW p, NEW n, NEW block, NEW v, NEW t, NEW u, NEW o,
         Taking(c, f, r, q, p, n, block, v, t, u, o)
  PROVE  Taken(c, p, v, t, u, o)
<1>0. /\ c \in Conns \ Junk /\ r \in ConnRecord /\ Whole(c, r, q, p)
      /\ r.state \notin {"none", "waiting"} /\ r.wire # <<>> /\ p \in BOOLEAN
      /\ Local(data[f], inPacket[f], escape[f])
      /\ Known(c, r, p, inPacket[f], data[f], escape[f])
      /\ n \in 1 .. Len(r.wire) /\ block = SubSeq(r.wire, 1, n)
      /\ t \in ConnRecord /\ t.state = r.state /\ t.tosend = r.tosend
      /\ t.wire = SubSeq(r.wire, n + 1, Len(r.wire))
      /\ v = Parsed(f, block) /\ q \in Seq(Seq(Byte))
      /\ u = IF v.packet = <<>> THEN q ELSE Append(q, v.packet)
      /\ o \in BOOLEAN /\ (o = TRUE => p = TRUE /\ v.rest = 0)
  BY DEF Taking
<1> USE <1>0
<1> DEFINE w == r.wire
           s == r.tosend
           m == Len(w)
           l == Len(s)
           k == Position(c, r)
           L == Len(Stream[c])
           P == Payloads[c]
           M == Marking(c)
<1>1. w \in Seq(Byte) /\ s \in Seq(Byte) /\ Stream[c] \in Seq(Byte) /\ m \in Nat /\ l \in Nat /\ L \in Nat
  BY StreamMarked DEF ConnRecord
<1>2. n \in Nat /\ n # 0 /\ n <= m
  BY <1>1
<1>3. /\ block \in Seq(Byte) /\ Len(block) = n /\ \A i \in 1 .. n : block[i] = w[i]
      /\ Len(t.wire) = m - n /\ \A i \in 1 .. m - n : t.wire[i] = w[n + i]
  <2> HIDE DEF m
  <2>1. block \in Seq(Byte) /\ Len(block) = n /\ \A i \in 1 .. n : block[i] = w[i]
    BY <1>1, <1>2 DEF m
  <2>2. Len(t.wire) = m - n /\ \A i \in 1 .. m - n : t.wire[i] = w[n + i]
    BY <1>1, <1>2 DEF m
  <2> QED BY <2>1, <2>2
<1>4. /\ Live(c, r) /\ Placed(q, P, Reader(c, r).done)
      /\ p = TRUE => Len(q) = Reader(c, r).done
  BY DEF Whole
<1>5. /\ k \in Nat /\ k \in 0 .. L
      /\ \A i \in 1 .. m : w[i] = Stream[c][k + i]
      /\ \A i \in 1 .. l : s[i] = Stream[c][k + m + i]
      /\ Reader(c, r).done \in Nat
  BY <1>4, ReaderTyped DEF Live
<1>6. k = L - (m + l)
  BY DEF Position
<1>7. Position(c, t) = k + n /\ k + n + (m - n) = k + m /\ k + n <= L /\ k + n \in Nat
  <2>1. Position(c, t) = L - ((m - n) + l)
    BY <1>3 DEF Position
  <2>2. PICK a, b, d, e : a = k /\ b = m /\ d = l /\ e = L
    OBVIOUS
  <2>3. a \in Nat /\ b \in Nat /\ d \in Nat /\ e \in Nat /\ a = e - (b + d) /\ n \in Nat /\ n <= b
    BY <1>1, <1>2, <1>5, <1>6, <2>2
  <2>4. e - ((b - n) + d) = a + n /\ a + n + (b - n) = a + b /\ a + n <= e /\ a + n \in Nat
    <3> HIDE <2>2
    <3> QED BY <2>3
  <2> QED BY <2>1, <2>2, <2>4
<1> HIDE DEF w, s, m, l, k, L
<1>8. Live(c, t)
  <2>1. ASSUME NEW i \in 1 .. m - n PROVE t.wire[i] = Stream[c][(k + n) + i]
    <3>0. n \in Nat /\ m \in Nat /\ k \in Nat /\ i \in Nat /\ 1 <= i /\ i <= m - n
      BY <1>1, <1>2, <1>5
    <3>1. n + i \in 1 .. m /\ k + (n + i) = (k + n) + i
      BY <3>0
    <3> QED BY <3>1, <1>3, <1>5
  <2>2. \A i \in 1 .. l : t.tosend[i] = Stream[c][(k + n) + (m - n) + i]
    BY <1>5, <1>7 DEF s
  <2> QED BY <1>3, <1>7, <2>1, <2>2 DEF Live, l, s
<1>9. Covers(block, Stream[c], k)
  <2>1. \A i \in 1 .. n : block[i] = Stream[c][k + i]
    <3> SUFFICES ASSUME NEW i \in 1 .. n PROVE block[i] = Stream[c][k + i]
      OBVIOUS
    <3>1. i \in 1 .. m
      BY <1>1, <1>2
    <3> QED BY <3>1, <1>3, <1>5
  <2> QED BY <1>1, <1>3, <1>5, <1>7, <2>1 DEF Covers, L
<1>10. block # <<>>
  BY <1>2, <1>3
<1>11. Marks(M, Stream[c], P)
  BY MarkingMarks
<1>12. Len(P) \in Nat /\ \A i \in 1 .. Len(P) : P[i] # <<>> /\ P[i] \in Seq(Byte)
  BY PayloadsTyped
<1>13. Reader(c, r) = M[k] /\ Reader(c, t) = M[k + Len(block)]
  BY <1>3, <1>7 DEF Reader, k
<1>14. /\ Phase(Reader(c, r), inPacket[f], data[f], escape[f])
       /\ p = TRUE => Reader(c, r).inside = inPacket[f]
  BY DEF Known
<1> HIDE DEF M, P
<1>15. Follows(P, Reader(c, r), inPacket[f], Reader(c, t), v)
  <2>1. Phase(M[k], inPacket[f], data[f], escape[f])
    BY <1>13, <1>14
  <2>2. \A i \in 1 .. Len(P) : P[i] # <<>>
    BY <1>12
  <2>3. Len(P) \in Nat
    BY <1>12
  <2>4. Follows(P, M[k], inPacket[f], M[k + Len(block)], Parsed(f, block))
    BY <1>9, <1>10, <1>11, <2>1, <2>2, <2>3, ParsedBlock
  <2> QED BY <1>13, <2>4
<1>16. PICK a, b : a = Reader(c, r) /\ b = Reader(c, t)
  OBVIOUS
<1>17. a.done \in Nat /\ b.done \in Nat /\ b.done <= Len(P)
  BY <1>5, <1>8, <1>16, ReaderTyped DEF P
<1>18. /\ Phase(b, v.inPacket, v.data, v.escape) /\ a.done <= b.done
       /\ v.packet # <<>> => \E j \in Nat : a.done <= j /\ j < b.done /\ j < Len(P) /\ v.packet = P[j + 1]
       /\ a.inside = inPacket[f] =>
            /\ v.junk = FALSE
            /\ v.rest = 0 => /\ b.inside = v.inPacket
                             /\ b.done = a.done + (IF v.packet = <<>> THEN 0 ELSE 1)
  BY <1>15, <1>16 DEF Follows
<1>19. Placed(q, P, a.done) /\ (p = TRUE => Len(q) = a.done /\ a.inside = inPacket[f])
  BY <1>4, <1>14, <1>16
<1>20. Placed(u, P, b.done)
  <2>1. CASE v.packet = <<>>
    <3>1. u = q
      BY <2>1
    <3> QED BY <3>1, <1>17, <1>18, <1>19, PlacedLater
  <2>2. CASE v.packet # <<>>
    <3>1. PICK j \in Nat : a.done <= j /\ j < b.done /\ j < Len(P) /\ v.packet = P[j + 1]
      BY <2>2, <1>18
    <3>2. u = Append(q, P[j + 1])
      BY <2>2, <3>1
    <3>3. P[j + 1] \in Seq(Byte)
      <4>1. j + 1 \in 1 .. Len(P)
        BY <3>1, <1>12
      <4> QED BY <4>1, <1>12
    <3>4. Placed(Append(q, P[j + 1]), P, b.done)
      BY <3>1, <3>3, <1>12, <1>17, <1>19, PlacedMore
    <3> QED BY <3>2, <3>4
  <2> QED BY <2>1, <2>2
<1>21. o = TRUE => Len(u) = b.done /\ b.inside = v.inPacket
  <2> SUFFICES ASSUME o = TRUE PROVE Len(u) = b.done /\ b.inside = v.inPacket
    OBVIOUS
  <2>1. p = TRUE /\ v.rest = 0
    OBVIOUS
  <2>2. Len(q) = a.done /\ b.inside = v.inPacket /\ b.done = a.done + (IF v.packet = <<>> THEN 0 ELSE 1)
    BY <2>1, <1>18, <1>19
  <2>3. CASE v.packet = <<>>
    BY <2>2, <2>3, <1>17
  <2>4. CASE v.packet # <<>>
    <3>1. Len(u) = Len(q) + 1
      BY <2>4
    <3> QED BY <2>2, <2>4, <3>1
  <2> QED BY <2>2, <2>3, <2>4
<1>22. p = TRUE => v.junk = FALSE
  BY <1>18, <1>19
<1>23. Whole(c, t, u, o)
  <2>1. t.state \notin {"none", "waiting"}
    OBVIOUS
  <2> QED BY <1>8, <1>16, <1>20, <1>21, <2>1 DEF Whole, P
<1>24. Known(c, t, o, v.inPacket, v.data, v.escape)
  BY <1>16, <1>18, <1>21 DEF Known
<1> QED BY <1>22, <1>23, <1>24 DEF Taken

----------------------------------------------------------------------------
(* The sockets of the thread. *)

\* The length of a concatenation.
LEMMA ConcatLength ==
  ASSUME NEW S, NEW a \in Seq(S), NEW b \in Seq(S)
  PROVE  a \o b \in Seq(S) /\ Len(a \o b) = Len(a) + Len(b)
OBVIOUS

\* The elements of a sequence without the one at k.
LEMMA RemoveAtElements ==
  ASSUME NEW S, NEW s \in Seq(S), NEW k \in 1..Len(s)
  PROVE  /\ RemoveAt(s, k) \in Seq(S)
         /\ DOMAIN RemoveAt(s, k) = 1..(Len(s) - 1)
         /\ \A i \in 1..(k - 1) : RemoveAt(s, k)[i] = s[i]
         /\ \A i \in k..(Len(s) - 1) : RemoveAt(s, k)[i] = s[i + 1]
<1> DEFINE a == SubSeq(s, 1, k - 1)
           b == SubSeq(s, k + 1, Len(s))
<1>1. /\ a \in Seq(S) /\ Len(a) = k - 1
      /\ \A i \in 1..(k - 1) : a[i] = s[i]
      OBVIOUS
<1>2. /\ b \in Seq(S) /\ Len(b) = Len(s) - k
      /\ \A i \in 1..(Len(s) - k) : b[i] = s[i + k]
      OBVIOUS
<1>3. RemoveAt(s, k) = a \o b
      BY DEF RemoveAt
<1> HIDE DEF a, b
<1>4. Len(a \o b) = Len(s) - 1 /\ a \o b \in Seq(S)
      <2>1. a \o b \in Seq(S) /\ Len(a \o b) = Len(a) + Len(b)
            BY <1>1, <1>2, ConcatLength
      <2> QED BY <1>1, <1>2, <2>1
<1>5. \A i \in 1..(k - 1) : (a \o b)[i] = s[i]
      BY <1>1, <1>2
<1>6. ASSUME NEW i \in k..(Len(s) - 1) PROVE (a \o b)[i] = s[i + 1]
      <2>1. Len(s) \in Nat /\ k \in Nat /\ 1 <= k /\ i \in Nat /\ k <= i /\ i <= Len(s) - 1
        OBVIOUS
      <2>2. i - (k - 1) \in 1..(Len(s) - k) /\ (i - (k - 1)) + k = i + 1
        BY <2>1
      <2>3. (a \o b)[i] = b[i - (k - 1)]
        BY <1>1, <1>2, <2>1
      <2> QED BY <1>2, <2>2, <2>3
<1> QED BY <1>3, <1>4, <1>5, <1>6

\* A sequence without one of its elements, when none occurs twice.
LEMMA RemoveAtInjective ==
  ASSUME NEW S, NEW s \in Seq(S), NEW k \in 1..Len(s), IsInjective(s)
  PROVE  /\ IsInjective(RemoveAt(s, k))
         /\ ToSet(RemoveAt(s, k)) = ToSet(s) \ {s[k]}
<1> DEFINE r == RemoveAt(s, k)
           from(i) == IF i < k THEN i ELSE i + 1
<1>1. /\ r \in Seq(S) /\ DOMAIN r = 1..(Len(s) - 1)
      /\ \A i \in DOMAIN r : /\ from(i) \in DOMAIN s /\ from(i) # k
                             /\ r[i] = s[from(i)]
      <2>1. /\ r \in Seq(S) /\ DOMAIN r = 1..(Len(s) - 1) /\ Len(s) \in Nat
            /\ \A i \in 1..(k - 1) : r[i] = s[i]
            /\ \A i \in k..(Len(s) - 1) : r[i] = s[i + 1]
            BY RemoveAtElements
      <2> HIDE DEF r
      <2> QED BY <2>1
<1>2. \A i, j \in DOMAIN r : from(i) = from(j) => i = j
      BY <1>1
<1>3. IsInjective(r)
      BY <1>1, <1>2 DEF IsInjective
<1>4. \A x \in ToSet(r) : x \in ToSet(s) /\ x # s[k]
      BY <1>1 DEF ToSet, IsInjective
<1>5. ASSUME NEW x \in ToSet(s), x # s[k] PROVE x \in ToSet(r)
      <2>1. PICK j \in DOMAIN s : x = s[j]
            BY <1>5 DEF ToSet
      <2>2. j # k
            BY <1>5, <2>1
      <2> DEFINE i == IF j < k THEN j ELSE j - 1
      <2>3. i \in DOMAIN r /\ from(i) = j
            BY <1>1, <2>1, <2>2
      <2> HIDE DEF i, r
      <2>4. r[i] = x
            BY <1>1, <2>1, <2>3
      <2> QED BY <2>3, <2>4 DEF ToSet
<1> QED BY <1>3, <1>4, <1>5

ThreadRecord ==
    [at : {"select", "read", "exited"}, ready : SUBSET Fds, pos : Nat, full : BOOLEAN]

StreamType ==
    /\ conn \in [Conns -> ConnRecord]
    /\ sockets \in Seq(Fds)
    /\ owner \in [Fds -> Conns \cup {Nobody}]
    /\ data \in [Fds -> Seq(Byte)] /\ inPacket \in [Fds -> BOOLEAN] /\ escape \in [Fds -> BOOLEAN]
    /\ \A f \in Fds : Local(data[f], inPacket[f], escape[f])
    /\ thread \in ThreadRecord
    /\ handled \in Seq(CallRecord)
    /\ paced \subseteq Conns

\* client_sockets has the descriptors that have an owner, once each, and a
\* connection has at most one.
SocketsOwned ==
    /\ IsInjective(sockets)
    /\ \A f \in Fds : f \in ToSet(sockets) <=> owner[f] # Nobody
    /\ \A f \in Fds : owner[f] \in Conns => conn[owner[f]].state \in {"open", "shut", "broken"}
    /\ \A f, g \in Fds : owner[f] = owner[g] /\ owner[f] \in Conns => f = g
    /\ thread.at = "read" => thread.pos \in 1 .. Len(sockets)

\* What was handled of each connection are packets of its client.
InStep ==
    \A c \in Conns \ Junk : Whole(c, conn[c], OfConn(handled, c), c \in paced)

\* What is kept by descriptor is right for its owner.
Knowing ==
    \A f \in Fds : owner[f] \in Conns \ Junk =>
        Known(owner[f], conn[owner[f]], owner[f] \in paced, inPacket[f], data[f], escape[f])

CanRead(r) == r.wire # <<>> \/ r.state \in {"shut", "broken"}

\* The descriptors that the loop still comes to can be read, and so can the one
\* it is at, unless it filled a block or its client is to blame.
Served ==
    thread.at = "read" =>
        /\ \A k \in 1 .. Len(sockets) :
             k > thread.pos /\ sockets[k] \in thread.ready => CanRead(conn[owner[sockets[k]]])
        /\ \/ CanRead(conn[owner[sockets[thread.pos]]])
           \/ thread.full = TRUE
           \/ owner[sockets[thread.pos]] \notin paced \ Junk

StreamInv == StreamType /\ SocketsOwned /\ InStep /\ Knowing /\ Served

\* Where the loop goes on.
WentOn(a, socks, ready, i) ==
    /\ a \in ThreadRecord /\ a.at \in {"select", "read"} /\ a.full = FALSE
    /\ a.at = "read" => a.pos \in i .. Len(socks) /\ socks[a.pos] \in ready /\ a.ready = ready

\* Advance names the next descriptor that select named, or goes back to select.
LEMMA AdvanceIs ==
  ASSUME NEW socks \in Seq(Fds), NEW ready \in SUBSET Fds, NEW i \in Nat \ {0},
         NEW a, a = Advance(socks, ready, i)
  PROVE  WentOn(a, socks, ready, i)
<1> DEFINE next == {k \in i .. Len(socks) : socks[k] \in ready}
<1>1. a = IF next = {} THEN [at |-> "select", ready |-> {}, pos |-> 1, full |-> FALSE]
          ELSE [at |-> "read", ready |-> ready, full |-> FALSE,
                pos |-> CHOOSE k \in next : \A m \in next : k <= m]
  BY DEF Advance
<1>2. next \subseteq Nat /\ \A k \in next : k \in i .. Len(socks) /\ socks[k] \in ready
  OBVIOUS
<1> HIDE DEF next
<1>3. CASE next = {}
  BY <1>1, <1>3 DEF ThreadRecord, WentOn
<1>4. CASE next # {}
  <2>1. \E x \in next : \A y \in next : x <= y
    BY <1>2, <1>4, LeastExists
  <2>2. PICK k : k = CHOOSE x \in next : \A y \in next : x <= y
    OBVIOUS
  <2>3. k \in next
    BY <2>1, <2>2
  <2>4. a = [at |-> "read", ready |-> ready, full |-> FALSE, pos |-> k]
    BY <1>1, <1>4, <2>2
  <2>5. k \in Nat /\ k \in i .. Len(socks) /\ socks[k] \in ready
    BY <1>2, <2>3
  <2>6. a \in ThreadRecord /\ a.at = "read" /\ a.full = FALSE /\ a.pos = k /\ a.ready = ready
    BY <2>4, <2>5 DEF ThreadRecord
  <2> QED BY <2>5, <2>6 DEF WentOn
<1> QED BY <1>3, <1>4

\* Nothing was sent, read or handled.
LEMMA StreamInitHolds ==
  ASSUME StreamInit
  PROVE  StreamInv
<1> USE DEF StreamInit
<1>1. ASSUME NEW c \in Conns
      PROVE  conn[c] \in ConnRecord /\ conn[c].state = "none" /\ conn[c].wire = <<>> /\ conn[c].tosend = Stream[c]
  <2>1. Stream[c] \in Seq(Byte) /\ <<>> \in Seq(Byte)
    BY StreamMarked
  <2> QED BY <2>1 DEF ConnRecord
<1>2. conn \in [Conns -> ConnRecord]
  BY <1>1
<1>3. ToSet(<<>>) = {} /\ IsInjective(<<>>)
  BY DEF ToSet, IsInjective
<1>4. thread \in ThreadRecord /\ thread.at = "select"
  BY DEF ThreadRecord
<1>5. StreamType
  <2>1. <<>> \in Seq(Byte) /\ <<>> \in Seq(Fds) /\ <<>> \in Seq(CallRecord)
    OBVIOUS
  <2>2. Local(<<>>, FALSE, FALSE)
    BY <2>1 DEF Local
  <2>3. \A f \in Fds : Local(data[f], inPacket[f], escape[f])
    BY <2>2
  <2> QED BY <1>2, <1>4, <2>1, <2>3 DEF StreamType
<1>6. SocketsOwned
  BY <1>3, <1>4, StreamAssumption DEF SocketsOwned
<1>7. Knowing
  BY StreamAssumption DEF Knowing
<1>8. Served
  BY <1>4 DEF Served
<1>9. InStep
  <2> SUFFICES ASSUME NEW c \in Conns \ Junk PROVE Whole(c, conn[c], OfConn(handled, c), c \in paced)
    BY DEF InStep
  <2>1. OfConn(handled, c) = <<>>
    BY OfConnNone
  <2>2. PICK r : r = conn[c]
    OBVIOUS
  <2>3. r \in ConnRecord /\ r.state = "none" /\ r.wire = <<>> /\ r.tosend = Stream[c]
    BY <1>1, <2>2
  <2>4. Stream[c] \in Seq(Byte) /\ Len(Stream[c]) \in Nat /\ Len(<<>>) = 0
    BY StreamMarked
  <2>5. Position(c, r) = 0
    BY <2>3, <2>4 DEF Position
  <2>6. Live(c, r)
    <3>1. \A i \in 1 .. Len(Stream[c]) : 0 + 0 + i = i
      BY <2>4
    <3> QED BY <2>3, <2>4, <2>5, <3>1 DEF Live
  <2>7. Reader(c, r).done = 0
    <3>1. Marking(c)[0] = Start0
      BY MarkingMarks DEF Marks
    <3> QED BY <2>5, <3>1 DEF Reader, Start0, At
  <2>8. Whole(c, r, <<>>, c \in paced)
    BY <2>4, <2>5, <2>6, <2>7, PlacedNone DEF Whole
  <2> QED BY <2>1, <2>2, <2>8
<1> QED BY <1>5, <1>6, <1>7, <1>8, <1>9 DEF StreamInv

\* A step that changes one connection leaves what is known of the others.
LEMMA ConnStep ==
  ASSUME StreamType, InStep, Knowing, NEW c \in Conns, NEW t, conn' = [conn EXCEPT ![c] = t],
         \A f \in Fds : owner'[f] \in Conns /\ owner'[f] # c => owner'[f] = owner[f],
         paced' \subseteq paced,
         \A o \in Conns \ Junk : o # c => OfConn(handled', o) = OfConn(handled, o),
         \A f \in Fds : owner'[f] \in Conns /\ owner'[f] # c =>
             data'[f] = data[f] /\ inPacket'[f] = inPacket[f] /\ escape'[f] = escape[f],
         c \notin Junk => Whole(c, t, OfConn(handled', c), c \in paced'),
         c \notin Junk => \A f \in Fds : owner'[f] = c =>
             Known(c, t, c \in paced', inPacket'[f], data'[f], escape'[f])
  PROVE  InStep' /\ Knowing'
<1>1. conn'[c] = t /\ \A o \in Conns : o # c => conn'[o] = conn[o]
  BY DEF StreamType
<1>2. InStep'
  <2> SUFFICES ASSUME NEW o \in Conns \ Junk PROVE Whole(o, conn'[o], OfConn(handled', o), o \in paced')
    BY DEF InStep
  <2>1. CASE o = c
    BY <1>1, <2>1
  <2>2. CASE o # c
    <3>1. Whole(o, conn[o], OfConn(handled, o), o \in paced)
      BY DEF InStep
    <3>2. Whole(o, conn[o], OfConn(handled, o), o \in paced')
      BY <3>1, WholeUnpaced
    <3> QED BY <1>1, <2>2, <3>2
  <2> QED BY <2>1, <2>2
<1>3. Knowing'
  <2> SUFFICES ASSUME NEW f \in Fds, owner'[f] \in Conns \ Junk
               PROVE  Known(owner'[f], conn'[owner'[f]], owner'[f] \in paced', inPacket'[f], data'[f], escape'[f])
    BY DEF Knowing
  <2>1. CASE owner'[f] = c
    BY <1>1, <2>1
  <2>2. CASE owner'[f] # c
    <3>1. owner'[f] = owner[f]
      BY <2>2
    <3>2. Known(owner[f], conn[owner[f]], owner[f] \in paced, inPacket[f], data[f], escape[f])
      BY <3>1 DEF Knowing
    <3>3. data'[f] = data[f] /\ inPacket'[f] = inPacket[f] /\ escape'[f] = escape[f] /\ conn'[owner[f]] = conn[owner[f]]
      BY <1>1, <2>2, <3>1
    <3> QED BY <3>1, <3>2, <3>3 DEF Known
  <2> QED BY <2>1, <2>2
<1> QED BY <1>2, <1>3

----------------------------------------------------------------------------
(* The clients. *)

\* A client changes its connection.
LEMMA ClientStep ==
  ASSUME StreamInv, NEW c \in Conns, NEW t \in ConnRecord, conn' = [conn EXCEPT ![c] = t],
         paced' \subseteq paced,
         UNCHANGED <<sockets, owner, data, inPacket, escape, thread, handled>>,
         conn[c].state \in {"open", "shut", "broken"} => t.state \in {"open", "shut", "broken"},
         CanRead(conn[c]) => CanRead(t),
         c \notin Junk => Whole(c, t, OfConn(handled, c), c \in paced'),
         c \notin Junk /\ conn[c].state \in {"open", "shut", "broken"} =>
             \A f \in Fds : Known(c, conn[c], c \in paced, inPacket[f], data[f], escape[f])
                              => Known(c, t, c \in paced', inPacket[f], data[f], escape[f])
  PROVE  StreamInv'
<1>1. StreamType /\ SocketsOwned /\ InStep /\ Knowing /\ Served
  BY DEF StreamInv
<1>2. conn'[c] = t /\ \A o \in Conns : o # c => conn'[o] = conn[o]
  BY <1>1 DEF StreamType
<1>3. StreamType'
  BY <1>1 DEF StreamType
<1>4. SocketsOwned'
  <2>1. ASSUME NEW f \in Fds, owner[f] \in Conns PROVE conn'[owner[f]].state \in {"open", "shut", "broken"}
    <3>1. conn[owner[f]].state \in {"open", "shut", "broken"}
      BY <1>1, <2>1 DEF SocketsOwned
    <3> QED BY <3>1, <2>1, <1>2
  <2> QED BY <2>1, <1>1 DEF SocketsOwned
<1>5. InStep' /\ Knowing'
  <2>1. ASSUME c \notin Junk, NEW f \in Fds, owner'[f] = c
        PROVE  Known(c, t, c \in paced', inPacket'[f], data'[f], escape'[f])
    <3>1. owner[f] = c
      BY <2>1
    <3>2. conn[c].state \in {"open", "shut", "broken"}
      BY <3>1, <1>1 DEF SocketsOwned
    <3>3. Known(c, conn[c], c \in paced, inPacket[f], data[f], escape[f])
      BY <2>1, <3>1, <1>1 DEF Knowing
    <3>4. Known(c, t, c \in paced', inPacket[f], data[f], escape[f])
      BY <2>1, <3>2, <3>3
    <3> QED BY <3>4
  <2> QED BY <1>1, <2>1, ConnStep
<1>6. Served'
  <2> SUFFICES ASSUME thread.at = "read"
               PROVE  /\ \A k \in 1 .. Len(sockets) :
                           k > thread.pos /\ sockets[k] \in thread.ready => CanRead(conn'[owner[sockets[k]]])
                      /\ \/ CanRead(conn'[owner[sockets[thread.pos]]])
                         \/ thread.full = TRUE
                         \/ owner[sockets[thread.pos]] \notin paced' \ Junk
    BY DEF Served
  <2>1. \A k \in 1 .. Len(sockets) : owner[sockets[k]] \in Conns
    <3>1. \A k \in 1 .. Len(sockets) : sockets[k] \in Fds /\ sockets[k] \in ToSet(sockets)
      BY <1>1 DEF StreamType, ToSet
    <3>2. \A f \in Fds : f \in ToSet(sockets) => owner[f] \in Conns
      BY <1>1 DEF StreamType, SocketsOwned
    <3> QED BY <3>1, <3>2
  <2>2. \A o \in Conns : CanRead(conn[o]) => CanRead(conn'[o])
    BY <1>2
  <2>3. thread.pos \in 1 .. Len(sockets)
    BY <1>1 DEF SocketsOwned
  <2>4. /\ \A k \in 1 .. Len(sockets) :
             k > thread.pos /\ sockets[k] \in thread.ready => CanRead(conn[owner[sockets[k]]])
        /\ \/ CanRead(conn[owner[sockets[thread.pos]]])
           \/ thread.full = TRUE
           \/ owner[sockets[thread.pos]] \notin paced \ Junk
    BY <1>1 DEF Served
  <2>5. \A k \in 1 .. Len(sockets) :
             k > thread.pos /\ sockets[k] \in thread.ready => CanRead(conn'[owner[sockets[k]]])
    BY <2>1, <2>2, <2>4
  <2>6. CanRead(conn[owner[sockets[thread.pos]]]) => CanRead(conn'[owner[sockets[thread.pos]]])
    BY <2>1, <2>2, <2>3
  <2> QED BY <2>4, <2>5, <2>6
<1> QED BY <1>3, <1>4, <1>5, <1>6 DEF StreamInv

\* The fields of a connection, and the invariant about it.
LEMMA ConnFacts ==
  ASSUME StreamInv, NEW c \in Conns, NEW r, r = conn[c]
  PROVE  /\ r \in ConnRecord /\ r.tosend \in Seq(Byte) /\ r.wire \in Seq(Byte)
         /\ r.state \in {"none", "waiting", "open", "shut", "broken", "gone"}
         /\ c \notin Junk => Whole(c, r, OfConn(handled, c), c \in paced)
<1>1. r \in ConnRecord
  BY DEF StreamInv, StreamType
<1> QED BY <1>1 DEF ConnRecord, StreamInv, InStep

\* A client connects.
LEMMA ConnectStep ==
  ASSUME StreamInv, NEW c \in Conns, Connect(c)
  PROVE  StreamInv'
<1>1. PICK r : r = conn[c]
  OBVIOUS
<1>2. r \in ConnRecord /\ r.state = "none" /\ (c \notin Junk => Whole(c, r, OfConn(handled, c), c \in paced))
  BY <1>1, ConnFacts DEF Connect
<1>3. PICK t : t = [r EXCEPT !.state = "waiting"]
  OBVIOUS
<1>4. t \in ConnRecord /\ t.state = "waiting" /\ t.wire = r.wire /\ t.tosend = r.tosend
  BY <1>2, <1>3 DEF ConnRecord
<1>5. conn' = [conn EXCEPT ![c] = t]
  BY <1>1, <1>3 DEF Connect
<1>6. UNCHANGED <<sockets, owner, data, inPacket, escape, thread, handled, paced>>
  BY DEF Connect, ClientVars
<1>7. c \notin Junk => Whole(c, t, OfConn(handled, c), c \in paced)
  BY <1>2, <1>4, WholeState
<1>8. CanRead(r) => CanRead(t)
  BY <1>2, <1>4 DEF CanRead
<1> HIDE <1>3
<1> QED BY <1>1, <1>2, <1>4, <1>5, <1>6, <1>7, <1>8, ClientStep

\* A client sends a byte.
LEMMA SendByteStep ==
  ASSUME StreamInv, NEW c \in Conns, SendByte(c)
  PROVE  StreamInv'
<1>1. PICK r : r = conn[c]
  OBVIOUS
<1>2. /\ r \in ConnRecord /\ r.state \in {"waiting", "open"} /\ r.tosend # <<>>
      /\ r.tosend \in Seq(Byte) /\ r.wire \in Seq(Byte)
      /\ (c \notin Junk => Whole(c, r, OfConn(handled, c), c \in paced))
  BY <1>1, ConnFacts DEF SendByte
<1>3. PICK t : t = [r EXCEPT !.wire = Append(@, Head(r.tosend)), !.tosend = Tail(@)]
  OBVIOUS
<1>4. /\ t.state = r.state /\ t.wire = Append(r.wire, Head(r.tosend)) /\ t.tosend = Tail(r.tosend)
      /\ t \in ConnRecord
  <2>1. Append(r.wire, Head(r.tosend)) \in Seq(Byte) /\ Tail(r.tosend) \in Seq(Byte)
    BY <1>2
  <2> QED BY <1>2, <1>3, <2>1 DEF ConnRecord
<1>5. conn' = [conn EXCEPT ![c] = t]
  BY <1>1, <1>3 DEF SendByte
<1>6. UNCHANGED <<sockets, owner, data, inPacket, escape, thread, handled, paced>>
  BY DEF SendByte, ClientVars
<1>7. c \notin Junk => Whole(c, t, OfConn(handled, c), c \in paced) /\ Reader(c, t) = Reader(c, r)
  BY <1>2, <1>4, WholeSend
<1>8. CanRead(r) => CanRead(t)
  <2>1. Append(r.wire, Head(r.tosend)) # <<>>
    <3>1. PICK b : b = Head(r.tosend)
      OBVIOUS
    <3> QED BY <1>2, <3>1
  <2> QED BY <1>4, <2>1 DEF CanRead
<1>9. c \notin Junk /\ conn[c].state \in {"open", "shut", "broken"} =>
             \A f \in Fds : Known(c, conn[c], c \in paced, inPacket[f], data[f], escape[f])
                              => Known(c, t, c \in paced', inPacket[f], data[f], escape[f])
  <2>1. conn[c].state \in {"open", "shut", "broken"} => r.state = "open"
    BY <1>1, <1>2
  <2> QED BY <1>1, <1>6, <1>7, <2>1 DEF Known
<1> HIDE <1>3
<1> QED BY <1>1, <1>2, <1>4, <1>5, <1>6, <1>7, <1>8, <1>9, ClientStep

\* A client closes its connection.
LEMMA ShutStep ==
  ASSUME StreamInv, NEW c \in Conns, Shut(c)
  PROVE  StreamInv'
<1>1. PICK r : r = conn[c]
  OBVIOUS
<1>2. r \in ConnRecord /\ r.state = "open" /\ (c \notin Junk => Whole(c, r, OfConn(handled, c), c \in paced))
  BY <1>1, ConnFacts DEF Shut
<1>3. PICK t : t = [r EXCEPT !.state = "shut"]
  OBVIOUS
<1>4. t \in ConnRecord /\ t.state = "shut" /\ t.wire = r.wire /\ t.tosend = r.tosend
  BY <1>2, <1>3 DEF ConnRecord
<1>5. conn' = [conn EXCEPT ![c] = t]
  BY <1>1, <1>3 DEF Shut
<1>6. UNCHANGED <<sockets, owner, data, inPacket, escape, thread, handled, paced>>
  BY DEF Shut, ClientVars
<1>7. c \notin Junk => Whole(c, t, OfConn(handled, c), c \in paced)
  BY <1>2, <1>4, WholeState
<1>8. CanRead(t)
  BY <1>4 DEF CanRead
<1>9. \A f \in Fds : Known(c, conn[c], c \in paced, inPacket[f], data[f], escape[f])
                       => Known(c, t, c \in paced', inPacket[f], data[f], escape[f])
  <2>1. Reader(c, t) = Reader(c, r)
    BY <1>4 DEF Reader, Position
  <2> QED BY <1>1, <1>2, <1>4, <1>6, <2>1 DEF Known
<1> HIDE <1>3
<1> QED BY <1>1, <1>2, <1>4, <1>5, <1>6, <1>7, <1>8, <1>9, ClientStep

\* A connection breaks.
LEMMA BreakStep ==
  ASSUME StreamInv, NEW c \in Conns, Break(c)
  PROVE  StreamInv'
<1>1. PICK r : r = conn[c]
  OBVIOUS
<1>2. r \in ConnRecord /\ r.state = "open" /\ (c \notin Junk => Whole(c, r, OfConn(handled, c), c \in paced))
  BY <1>1, ConnFacts DEF Break
<1>3. PICK t : t = [r EXCEPT !.state = "broken", !.wire = <<>>]
  OBVIOUS
<1>4. t \in ConnRecord /\ t.state = "broken" /\ t.wire = <<>>
  <2>1. <<>> \in Seq(Byte)
    OBVIOUS
  <2> QED BY <1>2, <1>3, <2>1 DEF ConnRecord
<1>5. conn' = [conn EXCEPT ![c] = t]
  BY <1>1, <1>3 DEF Break
<1>6. UNCHANGED <<sockets, owner, data, inPacket, escape, thread, handled>> /\ paced' \subseteq paced
      /\ (c \in paced') = FALSE
  BY DEF Break
<1>7. c \notin Junk => Whole(c, t, OfConn(handled, c), c \in paced')
  BY <1>2, <1>4, <1>6, WholeClosed
<1>8. CanRead(t)
  BY <1>4 DEF CanRead
<1>9. \A f \in Fds : Known(c, t, c \in paced', inPacket[f], data[f], escape[f])
  BY <1>4 DEF Known
<1> HIDE <1>3
<1> QED BY <1>1, <1>2, <1>4, <1>5, <1>6, <1>7, <1>8, <1>9, ClientStep

----------------------------------------------------------------------------
(* The thread. *)

\* The descriptors of client_sockets and their owners.
LEMMA SocketFacts ==
  ASSUME StreamInv, NEW k \in 1 .. Len(sockets)
  PROVE  /\ sockets[k] \in Fds /\ sockets[k] \in ToSet(sockets) /\ owner[sockets[k]] \in Conns
         /\ conn[owner[sockets[k]]].state \in {"open", "shut", "broken"}
         /\ \A l \in 1 .. Len(sockets) : l # k => sockets[l] # sockets[k] /\ owner[sockets[l]] # owner[sockets[k]]
<1>1. StreamType /\ SocketsOwned
  BY DEF StreamInv
<1>2. \A l \in 1 .. Len(sockets) : sockets[l] \in Fds /\ sockets[l] \in ToSet(sockets)
  BY <1>1 DEF StreamType, ToSet
<1>3. \A l \in 1 .. Len(sockets) : owner[sockets[l]] \in Conns
  BY <1>1, <1>2 DEF StreamType, SocketsOwned
<1>4. \A l \in 1 .. Len(sockets) : sockets[l] = sockets[k] => l = k
  BY <1>1 DEF StreamType, SocketsOwned, IsInjective
<1>5. \A l \in 1 .. Len(sockets) : owner[sockets[l]] = owner[sockets[k]] => sockets[l] = sockets[k]
  BY <1>1, <1>2, <1>3 DEF SocketsOwned
<1>6. conn[owner[sockets[k]]].state \in {"open", "shut", "broken"}
  BY <1>1, <1>2, <1>3 DEF SocketsOwned
<1> QED BY <1>2, <1>3, <1>4, <1>5, <1>6

\* The loop goes on to a descriptor that can be read.
LEMMA GoOn ==
  ASSUME sockets' \in Seq(Fds), NEW ready \in SUBSET Fds, NEW i \in Nat \ {0},
         thread' = Advance(sockets', ready, i),
         \A k \in 1 .. Len(sockets') : k >= i /\ sockets'[k] \in ready => CanRead(conn'[owner'[sockets'[k]]])
  PROVE  /\ Served' /\ thread' \in ThreadRecord
         /\ thread'.at = "read" => thread'.pos \in 1 .. Len(sockets')
<1>1. /\ thread' \in ThreadRecord /\ thread'.at \in {"select", "read"} /\ thread'.full = FALSE
      /\ thread'.at = "read" => thread'.pos \in i .. Len(sockets') /\ sockets'[thread'.pos] \in ready
                                /\ thread'.ready = ready
  <2>1. PICK s, a : s = sockets' /\ a = thread'
    OBVIOUS
  <2>2. s \in Seq(Fds) /\ a = Advance(s, ready, i)
    BY <2>1
  <2>3. /\ a \in ThreadRecord /\ a.at \in {"select", "read"} /\ a.full = FALSE
        /\ a.at = "read" => a.pos \in i .. Len(s) /\ s[a.pos] \in ready /\ a.ready = ready
    <3>1. WentOn(a, s, ready, i)
      <4> HIDE <2>1
      <4> QED BY <2>2, AdvanceIs
    <3> QED BY <3>1 DEF WentOn
  <2> QED BY <2>1, <2>3
<1>2. Len(sockets') \in Nat
  OBVIOUS
<1>3. thread'.at = "read" => thread'.pos \in 1 .. Len(sockets') /\ thread'.pos >= i /\ thread'.pos \in Nat
  BY <1>1, <1>2
<1>4. Served'
  <2> SUFFICES ASSUME thread'.at = "read"
               PROVE  /\ \A k \in 1 .. Len(sockets') :
                           k > thread'.pos /\ sockets'[k] \in thread'.ready => CanRead(conn'[owner'[sockets'[k]]])
                      /\ CanRead(conn'[owner'[sockets'[thread'.pos]]])
    BY DEF Served
  <2>1. CanRead(conn'[owner'[sockets'[thread'.pos]]])
    BY <1>1, <1>3
  <2>2. ASSUME NEW k \in 1 .. Len(sockets'), k > thread'.pos, sockets'[k] \in thread'.ready
        PROVE  CanRead(conn'[owner'[sockets'[k]]])
    <3>1. k >= i
      BY <1>3, <2>2
    <3> QED BY <1>1, <2>2, <3>1
  <2> QED BY <2>1, <2>2
<1> QED BY <1>1, <1>3, <1>4

\* A new connection gets the lowest free descriptor.
LEMMA FreeDescriptor ==
  ASSUME StreamInv, NEW c \in Conns, conn[c].state = "waiting",
         NEW f, f = CHOOSE g \in Fds : owner[g] = Nobody /\ \A h \in Fds : owner[h] = Nobody => g <= h
  PROVE  f \in Fds /\ owner[f] = Nobody
<1> DEFINE Unowned == {g \in Fds : owner[g] = Nobody}
           N == Cardinality(Conns)
<1>1. StreamType /\ SocketsOwned
  BY DEF StreamInv
<1>2. IsFiniteSet(Conns) /\ Nobody \notin Conns
  BY StreamAssumption
<1>3. N \in Nat /\ IsFiniteSet(Conns \ {c}) /\ Cardinality(Conns \ {c}) = N - 1
  BY <1>2, FS_CardinalityType, FS_RemoveElement
<1>4. N # 0
  BY <1>2, FS_EmptySet
<1>5. IsFiniteSet(Fds) /\ Cardinality(Fds) = N /\ Fds \subseteq Nat
  <2>1. 1 \in Int /\ N \in Int
    BY <1>3
  <2>2. IsFiniteSet(1 .. N) /\ Cardinality(1 .. N) = IF 1 > N THEN 0 ELSE N - 1 + 1
    <3> HIDE DEF N
    <3> QED BY <2>1, FS_Interval
  <2>3. IsFiniteSet(1 .. N) /\ Cardinality(1 .. N) = N
    <3> HIDE DEF N
    <3> QED BY <2>2, <1>3, <1>4
  <2> QED BY <2>3, <1>3 DEF Fds
<1>6. Unowned # {}
  <2> SUFFICES ASSUME Unowned = {} PROVE FALSE
    OBVIOUS
  <2>1. owner \in [Fds -> Conns \ {c}]
    <3>1. \A g \in Fds : owner[g] \in Conns
      BY <1>1 DEF StreamType
    <3>2. \A g \in Fds : owner[g] # c
      BY <1>1, <3>1 DEF SocketsOwned
    <3> QED BY <3>1, <3>2, <1>1 DEF StreamType
  <2>2. Cardinality(Conns \ {c}) < Cardinality(Fds)
    BY <1>3, <1>5
  <2>3. PICK x, y \in Fds : x # y /\ owner[x] = owner[y]
    <3>1. PICK S, T, g : S = Fds /\ T = Conns \ {c} /\ g = owner
      OBVIOUS
    <3>2. IsFiniteSet(S) /\ IsFiniteSet(T) /\ Cardinality(T) < Cardinality(S) /\ g \in [S -> T]
      BY <3>1, <1>3, <1>5, <2>1, <2>2
    <3>3. \E x, y \in S : x # y /\ g[x] = g[y]
      <4> HIDE <3>1
      <4> QED BY <3>2, FS_PigeonHole
    <3> QED BY <3>1, <3>3
  <2> QED BY <2>1, <2>3, <1>1 DEF SocketsOwned
<1>7. \E x \in Unowned : \A y \in Unowned : x <= y
  <2>1. Unowned \subseteq Nat
    BY <1>5
  <2> HIDE DEF Unowned
  <2> QED BY <1>6, <2>1, LeastExists
<1>8. \E g \in Fds : owner[g] = Nobody /\ \A h \in Fds : owner[h] = Nobody => g <= h
  BY <1>7
<1> QED BY <1>8

\* A connection is accepted.
LEMMA AcceptStep ==
  ASSUME StreamInv, NEW c \in Conns, Accept(c)
  PROVE  StreamInv'
<1>1. StreamType /\ SocketsOwned /\ InStep /\ Knowing
  BY DEF StreamInv
<1>2. PICK f : f = CHOOSE g \in Fds : owner[g] = Nobody /\ \A h \in Fds : owner[h] = Nobody => g <= h
  OBVIOUS
<1>3. /\ thread.at = "select" /\ conn[c].state = "waiting"
      /\ conn' = [conn EXCEPT ![c].state = "open"]
      /\ sockets' = Append(sockets, f)
      /\ owner' = [owner EXCEPT ![f] = c]
      /\ data' = [data EXCEPT ![f] = <<>>]
      /\ paced' = IF inPacket[f] THEN paced \ {c} ELSE paced
      /\ UNCHANGED <<inPacket, escape, thread, running, handled>>
  BY <1>2 DEF Accept, Waiting
<1>4. f \in Fds /\ owner[f] = Nobody
  BY <1>2, <1>3, FreeDescriptor
<1> HIDE <1>2
<1>5. PICK r : r = conn[c]
  OBVIOUS
<1>6. r \in ConnRecord /\ r.state = "waiting" /\ (c \notin Junk => Whole(c, r, OfConn(handled, c), c \in paced))
  BY <1>3, <1>5, ConnFacts
<1>7. PICK t : t = [r EXCEPT !.state = "open"]
  OBVIOUS
<1>8. t \in ConnRecord /\ t.state = "open" /\ t.wire = r.wire /\ t.tosend = r.tosend
  BY <1>6, <1>7 DEF ConnRecord
<1>9. conn' = [conn EXCEPT ![c] = t]
  BY <1>3, <1>5, <1>7
<1> HIDE <1>7
<1>10. /\ owner'[f] = c /\ data'[f] = <<>> /\ inPacket' = inPacket /\ escape' = escape
       /\ \A g \in Fds : g # f => owner'[g] = owner[g] /\ data'[g] = data[g]
       /\ \A g \in Fds : owner[g] # c
       /\ conn'[c] = t /\ \A o \in Conns : o # c => conn'[o] = conn[o]
  <2>1. \A g \in Fds : owner[g] # c
    BY <1>1, <1>3 DEF SocketsOwned
  <2>2. owner'[f] = c /\ data'[f] = <<>> /\ \A g \in Fds : g # f => owner'[g] = owner[g] /\ data'[g] = data[g]
    BY <1>1, <1>3, <1>4 DEF StreamType
  <2>3. conn'[c] = t /\ \A o \in Conns : o # c => conn'[o] = conn[o]
    BY <1>1, <1>9 DEF StreamType
  <2> QED BY <1>3, <2>1, <2>2, <2>3
<1>11. paced' \subseteq paced /\ (c \in paced' => inPacket[f] = FALSE)
  <2>1. inPacket[f] \in BOOLEAN
    BY <1>1, <1>4 DEF StreamType
  <2> QED BY <1>3, <2>1
<1>12. StreamType'
  <2>1. <<>> \in Seq(Byte)
    OBVIOUS
  <2>2. conn' \in [Conns -> ConnRecord]
    BY <1>1, <1>8, <1>9 DEF StreamType
  <2>3. sockets' \in Seq(Fds)
    BY <1>1, <1>3, <1>4 DEF StreamType
  <2>4. owner' \in [Fds -> Conns \cup {Nobody}] /\ data' \in [Fds -> Seq(Byte)]
    BY <1>1, <1>3, <1>4, <2>1 DEF StreamType
  <2>5. \A g \in Fds : Local(data'[g], inPacket[g], escape[g])
    <3>1. \A g \in Fds : Local(data[g], inPacket[g], escape[g])
      BY <1>1 DEF StreamType
    <3>2. Local(<<>>, inPacket[f], escape[f])
      BY <3>1, <1>4, <2>1, Zenon DEF Local
    <3> QED BY <3>1, <3>2, <1>4, <1>10
  <2>6. paced' \subseteq Conns
    BY <1>1, <1>11 DEF StreamType
  <2> QED BY <1>1, <1>3, <2>2, <2>3, <2>4, <2>5, <2>6 DEF StreamType
<1>13. SocketsOwned'
  <2>1. f \notin ToSet(sockets)
    BY <1>1, <1>4 DEF SocketsOwned
  <2>2. sockets \in Seq(Fds)
    BY <1>1 DEF StreamType
  <2>3. ToSet(sockets') = ToSet(sockets) \cup {f}
    <3>1. PICK n, socks : n = Len(sockets) /\ socks = sockets'
      OBVIOUS
    <3>2. /\ n \in Nat /\ DOMAIN sockets = 1 .. n /\ DOMAIN socks = 1 .. n + 1
          /\ socks[n + 1] = f /\ \A k \in 1 .. n : socks[k] = sockets[k]
      BY <1>3, <1>4, <2>2, <3>1
    <3>3. ToSet(socks) = {socks[k] : k \in 1 .. n + 1} /\ ToSet(sockets) = {sockets[k] : k \in 1 .. n}
      BY <3>2 DEF ToSet
    <3>4. 1 .. n + 1 = (1 .. n) \cup {n + 1}
      BY <3>2
    <3>5. ToSet(socks) = ToSet(sockets) \cup {f}
      <4>1. ASSUME NEW k \in 1 .. n + 1 PROVE socks[k] \in ToSet(sockets) \cup {f}
        <5>1. CASE k = n + 1
          BY <3>2, <5>1
        <5>2. CASE k # n + 1
          BY <3>2, <3>3, <3>4, <5>2
        <5> QED BY <5>1, <5>2
      <4>2. f \in ToSet(socks)
        BY <3>2, <3>3, <3>4
      <4>3. ASSUME NEW k \in 1 .. n PROVE sockets[k] \in ToSet(socks)
        BY <3>2, <3>3, <3>4
      <4> HIDE <3>1
      <4> QED BY <3>3, <4>1, <4>2, <4>3, Zenon
    <3> QED BY <3>1, <3>5
  <2>4. IsInjective(sockets')
    <3>1. \A i \in 1 .. Len(sockets) : sockets[i] # f /\ \A j \in 1 .. Len(sockets) : sockets[i] = sockets[j] => i = j
      BY <1>1, <2>1, <2>2 DEF SocketsOwned, IsInjective, ToSet
    <3> QED BY <1>3, <1>4, <2>2, <3>1 DEF IsInjective
  <2>5. c # Nobody
    BY StreamAssumption
  <2>6. \A g \in Fds : g \in ToSet(sockets') <=> owner'[g] # Nobody
    BY <1>1, <1>10, <2>3, <2>5 DEF SocketsOwned
  <2>7. ASSUME NEW g \in Fds, owner'[g] \in Conns PROVE conn'[owner'[g]].state \in {"open", "shut", "broken"}
    <3>1. CASE g = f
      BY <3>1, <1>8, <1>10
    <3>2. CASE g # f
      <4>1. owner'[g] = owner[g] /\ owner[g] # c /\ owner[g] \in Conns
        BY <1>10, <2>7, <3>2
      <4>2. conn[owner[g]].state \in {"open", "shut", "broken"}
        BY <4>1, <1>1 DEF SocketsOwned
      <4> QED BY <4>1, <4>2, <1>10
    <3> QED BY <3>1, <3>2
  <2>8. \A g, h \in Fds : owner'[g] = owner'[h] /\ owner'[g] \in Conns => g = h
    <3> SUFFICES ASSUME NEW g \in Fds, NEW h \in Fds, owner'[g] = owner'[h], owner'[g] \in Conns PROVE g = h
      OBVIOUS
    <3>1. CASE g = f
      BY <3>1, <1>10
    <3>2. CASE h = f
      BY <3>2, <1>10
    <3>3. CASE g # f /\ h # f
      BY <3>3, <1>1, <1>10 DEF SocketsOwned
    <3> QED BY <3>1, <3>2, <3>3
  <2>9. thread'.at # "read"
    BY <1>3
  <2> QED BY <2>4, <2>6, <2>7, <2>8, <2>9 DEF SocketsOwned
<1>14. InStep' /\ Knowing'
  <2>1. c \notin Junk => Whole(c, t, OfConn(handled', c), c \in paced')
    <3>1. c \notin Junk => Whole(c, t, OfConn(handled, c), c \in paced)
      BY <1>6, <1>8, WholeState
    <3>2. c \notin Junk => Whole(c, t, OfConn(handled, c), c \in paced')
      BY <3>1, <1>11, WholeUnpaced
    <3> QED BY <3>2, <1>3
  <2>2. ASSUME c \notin Junk, NEW g \in Fds, owner'[g] = c
        PROVE  Known(c, t, c \in paced', inPacket'[g], data'[g], escape'[g])
    <3>1. g = f
      BY <2>2, <1>10
    <3>2. Position(c, r) = 0
      <4>1. Whole(c, r, OfConn(handled, c), c \in paced)
        BY <2>2, <1>6
      <4> QED BY <4>1, <1>6 DEF Whole
    <3>3. Reader(c, t) = Marking(c)[0]
      BY <3>2, <1>8 DEF Reader, Position
    <3>4. Marking(c)[0] = Start0
      BY <2>2, MarkingMarks DEF Marks
    <3>5. Reader(c, t).inside = FALSE
      BY <3>3, <3>4 DEF Start0, At
    <3>6. Phase(Reader(c, t), inPacket[f], <<>>, escape[f])
      BY <3>5 DEF Phase
    <3>7. (c \in paced') = TRUE => Reader(c, t).inside = inPacket[f]
      BY <3>5, <1>11
    <3>8. Known(c, t, c \in paced', inPacket[f], <<>>, escape[f])
      BY <3>6, <3>7 DEF Known
    <3> QED BY <3>1, <3>8, <1>10
  <2>3. \A g \in Fds : owner'[g] \in Conns /\ owner'[g] # c =>
             owner'[g] = owner[g] /\ data'[g] = data[g] /\ inPacket'[g] = inPacket[g] /\ escape'[g] = escape[g]
    BY <1>10
  <2>4. \A g \in Fds : owner'[g] \in Conns /\ owner'[g] # c => owner'[g] = owner[g]
    BY <2>3
  <2>5. \A o \in Conns \ Junk : o # c => OfConn(handled', o) = OfConn(handled, o)
    BY <1>3
  <2>6. \A g \in Fds : owner'[g] \in Conns /\ owner'[g] # c =>
             data'[g] = data[g] /\ inPacket'[g] = inPacket[g] /\ escape'[g] = escape[g]
    BY <2>3
  <2>7. paced' \subseteq paced
    BY <1>11
  <2> QED BY <1>1, <1>9, <2>1, <2>2, <2>4, <2>5, <2>6, <2>7, ConnStep
<1>15. Served'
  BY <1>3 DEF Served
<1> QED BY <1>12, <1>13, <1>14, <1>15 DEF StreamInv

\* select names the descriptors that can be read.
LEMMA SelectStep ==
  ASSUME StreamInv, Select
  PROVE  StreamInv'
<1>1. StreamType /\ SocketsOwned /\ InStep /\ Knowing
  BY DEF StreamInv
<1>2. PICK ready : /\ ready = {f \in ToSet(sockets) : Readable(f)}
                   /\ thread' = Advance(sockets, ready, 1)
                   /\ UNCHANGED <<conn, sockets, owner, data, inPacket, escape, running, handled, paced>>
  BY DEF Select
<1>3. ready \in SUBSET Fds
  <2>1. \A f \in ToSet(sockets) : f \in Fds
    BY <1>1 DEF StreamType, ToSet
  <2> QED BY <1>2, <2>1
<1>4. ASSUME NEW k \in 1 .. Len(sockets'), sockets'[k] \in ready
      PROVE  CanRead(conn'[owner'[sockets'[k]]])
  <2>1. Readable(sockets[k])
    BY <1>2, <1>4
  <2> QED BY <1>2, <2>1 DEF Readable, CanRead
<1>5. Served' /\ thread' \in ThreadRecord /\ (thread'.at = "read" => thread'.pos \in 1 .. Len(sockets'))
  <2>1. sockets' \in Seq(Fds) /\ thread' = Advance(sockets', ready, 1) /\ 1 \in Nat \ {0}
    BY <1>1, <1>2 DEF StreamType
  <2> HIDE <1>2
  <2> QED BY <1>3, <1>4, <2>1, GoOn
<1>6. StreamType' /\ SocketsOwned'
  BY <1>1, <1>2, <1>5 DEF StreamType, SocketsOwned
<1>7. InStep' /\ Knowing'
  BY <1>1, <1>2 DEF InStep, Knowing
<1> QED BY <1>5, <1>6, <1>7 DEF StreamInv

\* What the loop is at: the descriptor, its client and connection, the index.
Reading(f, c, r, i) ==
    /\ i \in 1 .. Len(sockets) /\ f = sockets[i] /\ f \in Fds /\ c = owner[f] /\ c \in Conns
    /\ r \in ConnRecord /\ r.state \in {"open", "shut", "broken"}
    /\ r.tosend \in Seq(Byte) /\ r.wire \in Seq(Byte)
    /\ \A g \in Fds : owner[g] = c => g = f
    /\ \A l \in 1 .. Len(sockets) : l # i => sockets[l] # f /\ owner[sockets[l]] # c
    /\ \A l \in 1 .. Len(sockets) : l > i /\ sockets[l] \in thread.ready => CanRead(conn[owner[sockets[l]]])
    /\ \/ CanRead(r) \/ thread.full = TRUE \/ c \notin paced \ Junk
    /\ thread.ready \in SUBSET Fds /\ thread.pos \in Nat

\* What holds of the client that the thread reads.
LEMMA ReadFacts ==
  ASSUME StreamInv, thread.at = "read", NEW f, f = Fd, NEW c, c = Client, NEW r, r = conn[c],
         NEW i, i = thread.pos
  PROVE  Reading(f, c, r, i)
<1>1. StreamType /\ SocketsOwned /\ Served
  BY DEF StreamInv
<1>2. i \in 1 .. Len(sockets)
  BY <1>1 DEF SocketsOwned
<1>3. f = sockets[i] /\ c = owner[f]
  BY DEF Fd, Client
<1>4. f \in Fds /\ c \in Conns /\ conn[c].state \in {"open", "shut", "broken"}
  BY <1>2, <1>3, SocketFacts
<1>5. \A l \in 1 .. Len(sockets) : l # i => sockets[l] # f /\ owner[sockets[l]] # c
  BY <1>2, <1>3, SocketFacts
<1>6. \A g \in Fds : owner[g] = c => g = f
  BY <1>1, <1>3, <1>4 DEF SocketsOwned
<1>7. r \in ConnRecord /\ r.tosend \in Seq(Byte) /\ r.wire \in Seq(Byte)
  BY <1>4, ConnFacts
<1>8. /\ \A l \in 1 .. Len(sockets) : l > i /\ sockets[l] \in thread.ready => CanRead(conn[owner[sockets[l]]])
      /\ \/ CanRead(r) \/ thread.full = TRUE \/ c \notin paced \ Junk
  BY <1>1, <1>3 DEF Served
<1>9. thread.ready \in SUBSET Fds /\ thread.pos \in Nat
  BY <1>1 DEF StreamType, ThreadRecord
<1> QED BY <1>2, <1>3, <1>4, <1>5, <1>6, <1>7, <1>8, <1>9 DEF Reading

\* The loop goes on after a change of the connection that it is at.
LEMMA ReadGoesOn ==
  ASSUME StreamInv, thread.at = "read", NEW t, conn' = [conn EXCEPT ![Client] = t],
         UNCHANGED <<sockets, owner>>,
         thread' = Advance(sockets, thread.ready, thread.pos + 1)
  PROVE  /\ Served' /\ thread' \in ThreadRecord
         /\ thread'.at = "read" => thread'.pos \in 1 .. Len(sockets)
<1>1. PICK f, c, r, i : f = Fd /\ c = Client /\ r = conn[c] /\ i = thread.pos
  OBVIOUS
<1>2. /\ i \in 1 .. Len(sockets) /\ c \in Conns
      /\ \A l \in 1 .. Len(sockets) : l # i => owner[sockets[l]] # c
      /\ \A l \in 1 .. Len(sockets) : l > i /\ sockets[l] \in thread.ready => CanRead(conn[owner[sockets[l]]])
      /\ thread.ready \in SUBSET Fds
  <2>1. Reading(f, c, r, i)
    BY <1>1, ReadFacts
  <2> QED BY <2>1 DEF Reading
<1>3. sockets \in Seq(Fds) /\ conn \in [Conns -> ConnRecord]
  BY DEF StreamInv, StreamType
<1>4. ASSUME NEW k \in 1 .. Len(sockets'), k >= i + 1, sockets'[k] \in thread.ready
      PROVE  CanRead(conn'[owner'[sockets'[k]]])
  <2>1. k \in 1 .. Len(sockets) /\ k > i /\ k # i
    BY <1>2, <1>3, <1>4
  <2>2. owner[sockets[k]] # c /\ CanRead(conn[owner[sockets[k]]])
    BY <1>2, <1>4, <2>1
  <2>3. owner[sockets[k]] \in Conns
    BY <2>1, SocketFacts
  <2> QED BY <1>1, <1>3, <2>2, <2>3
<1>5. i + 1 \in Nat \ {0} /\ thread' = Advance(sockets', thread.ready, i + 1) /\ sockets' \in Seq(Fds)
  BY <1>1, <1>2, <1>3
<1>6. \A k \in 1 .. Len(sockets') : k >= i + 1 /\ sockets'[k] \in thread.ready => CanRead(conn'[owner'[sockets'[k]]])
  BY <1>4
<1>7. /\ Served' /\ thread' \in ThreadRecord
      /\ thread'.at = "read" => thread'.pos \in 1 .. Len(sockets')
  BY <1>2, <1>5, <1>6, GoOn
<1> QED BY <1>7

\* read gives an error.
LEMMA ReadErrorStep ==
  ASSUME StreamInv, ReadError
  PROVE  StreamInv'
<1>1. StreamType /\ SocketsOwned /\ InStep /\ Knowing
  BY DEF StreamInv
<1>2. PICK f, c, r, i : f = Fd /\ c = Client /\ r = conn[c] /\ i = thread.pos
  OBVIOUS
<1>3. /\ thread.at = "read" /\ r.state = "broken"
      /\ conn' = [conn EXCEPT ![c].state = "shut"]
      /\ thread' = Advance(sockets, thread.ready, thread.pos + 1)
      /\ UNCHANGED <<sockets, owner, data, inPacket, escape, running, handled, paced>>
  BY <1>2 DEF ReadError
<1>4. c \in Conns /\ r \in ConnRecord
  <2>1. Reading(f, c, r, i)
    BY <1>2, <1>3, ReadFacts
  <2> QED BY <2>1 DEF Reading
<1>5. PICK t : t = [r EXCEPT !.state = "shut"]
  OBVIOUS
<1>6. t \in ConnRecord /\ t.state = "shut" /\ t.wire = r.wire /\ t.tosend = r.tosend
  BY <1>4, <1>5 DEF ConnRecord
<1>7. conn' = [conn EXCEPT ![c] = t]
  BY <1>2, <1>3, <1>5
<1> HIDE <1>5
<1>8. Served' /\ thread' \in ThreadRecord /\ (thread'.at = "read" => thread'.pos \in 1 .. Len(sockets))
  <2>1. conn' = [conn EXCEPT ![Client] = t]
    BY <1>2, <1>7
  <2>2. UNCHANGED <<sockets, owner>>
    BY <1>3
  <2> QED BY <1>3, <2>1, <2>2, ReadGoesOn
<1>9. conn' \in [Conns -> ConnRecord] /\ conn'[c] = t /\ \A o \in Conns : o # c => conn'[o] = conn[o]
  BY <1>1, <1>4, <1>6, <1>7 DEF StreamType
<1>10. StreamType'
  BY <1>1, <1>3, <1>8, <1>9 DEF StreamType
<1>11. SocketsOwned'
  <2>1. ASSUME NEW g \in Fds, owner[g] \in Conns PROVE conn'[owner[g]].state \in {"open", "shut", "broken"}
    <3>1. conn[owner[g]].state \in {"open", "shut", "broken"}
      BY <1>1, <2>1 DEF SocketsOwned
    <3> QED BY <3>1, <2>1, <1>6, <1>9
  <2> QED BY <2>1, <1>1, <1>3, <1>8 DEF SocketsOwned
<1>12. InStep' /\ Knowing'
  <2>1. c \notin Junk => Whole(c, t, OfConn(handled', c), c \in paced')
    <3>1. c \notin Junk => Whole(c, r, OfConn(handled, c), c \in paced)
      BY <1>2, <1>4, ConnFacts
    <3>2. c \notin Junk => Whole(c, t, OfConn(handled, c), c \in paced)
      BY <1>3, <1>6, <3>1, WholeState
    <3> QED BY <3>2, <1>3
  <2>2. ASSUME c \notin Junk, NEW g \in Fds, owner'[g] = c
        PROVE  Known(c, t, c \in paced', inPacket'[g], data'[g], escape'[g])
    <3>1. owner[g] = c
      BY <2>2, <1>3
    <3>2. Known(c, r, c \in paced, inPacket[g], data[g], escape[g])
      BY <1>1, <1>2, <1>4, <2>2, <3>1 DEF Knowing
    <3>3. Reader(c, t) = Reader(c, r)
      BY <1>6 DEF Reader, Position
    <3>4. Known(c, t, c \in paced, inPacket[g], data[g], escape[g])
      BY <3>2, <3>3, <1>6 DEF Known
    <3> QED BY <3>4, <1>3
  <2>3. \A g \in Fds : owner'[g] \in Conns /\ owner'[g] # c => owner'[g] = owner[g]
    BY <1>3
  <2>4. \A o \in Conns \ Junk : o # c => OfConn(handled', o) = OfConn(handled, o)
    BY <1>3
  <2>5. \A g \in Fds : owner'[g] \in Conns /\ owner'[g] # c =>
             data'[g] = data[g] /\ inPacket'[g] = inPacket[g] /\ escape'[g] = escape[g]
    BY <1>3
  <2>6. paced' \subseteq paced
    BY <1>3
  <2> QED BY <1>1, <1>4, <1>7, <2>1, <2>2, <2>3, <2>4, <2>5, <2>6, ConnStep
<1> QED BY <1>8, <1>10, <1>11, <1>12 DEF StreamInv

\* read gives 0.
LEMMA ReadEndStep ==
  ASSUME StreamInv, ReadEnd
  PROVE  StreamInv'
<1>1. StreamType /\ SocketsOwned /\ InStep /\ Knowing
  BY DEF StreamInv
<1>2. PICK f, c, r, i : f = Fd /\ c = Client /\ r = conn[c] /\ i = thread.pos
  OBVIOUS
<1>3. /\ thread.at = "read" /\ r.state = "shut" /\ r.wire = <<>>
      /\ conn' = [conn EXCEPT ![c].state = "gone"]
      /\ owner' = [owner EXCEPT ![f] = Nobody]
      /\ sockets' = RemoveAt(sockets, i)
      /\ data' = [data EXCEPT ![f] = <<>>]
      /\ thread' = Advance(RemoveAt(sockets, i), thread.ready, i)
      /\ UNCHANGED <<inPacket, escape, running, handled, paced>>
  BY <1>2 DEF ReadEnd
<1>4. /\ i \in 1 .. Len(sockets) /\ f = sockets[i] /\ f \in Fds /\ c = owner[f] /\ c \in Conns /\ r \in ConnRecord
      /\ \A g \in Fds : owner[g] = c => g = f
      /\ \A l \in 1 .. Len(sockets) : l # i => sockets[l] # f /\ owner[sockets[l]] # c
      /\ \A l \in 1 .. Len(sockets) : l > i /\ sockets[l] \in thread.ready => CanRead(conn[owner[sockets[l]]])
      /\ thread.ready \in SUBSET Fds
  <2>1. Reading(f, c, r, i)
    BY <1>2, <1>3, ReadFacts
  <2> QED BY <2>1 DEF Reading
<1>5. PICK t : t = [r EXCEPT !.state = "gone"]
  OBVIOUS
<1>6. t \in ConnRecord /\ t.state = "gone" /\ t.wire = <<>>
  BY <1>3, <1>4, <1>5 DEF ConnRecord
<1>7. conn' = [conn EXCEPT ![c] = t]
  BY <1>2, <1>3, <1>5
<1> HIDE <1>5
<1>8. conn' \in [Conns -> ConnRecord] /\ conn'[c] = t /\ \A o \in Conns : o # c => conn'[o] = conn[o]
  BY <1>1, <1>4, <1>6, <1>7 DEF StreamType
<1>9. /\ owner'[f] = Nobody /\ data'[f] = <<>>
      /\ \A g \in Fds : g # f => owner'[g] = owner[g] /\ data'[g] = data[g]
  BY <1>1, <1>3, <1>4 DEF StreamType
<1>10. Nobody \notin Conns
  BY StreamAssumption
<1>11. sockets \in Seq(Fds) /\ IsInjective(sockets)
  BY <1>1 DEF StreamType, SocketsOwned
<1>12. /\ sockets' \in Seq(Fds) /\ DOMAIN sockets' = 1 .. (Len(sockets) - 1)
       /\ \A k \in i .. (Len(sockets) - 1) : sockets'[k] = sockets[k + 1]
       /\ IsInjective(sockets') /\ ToSet(sockets') = ToSet(sockets) \ {f}
  <2>1. /\ RemoveAt(sockets, i) \in Seq(Fds) /\ DOMAIN RemoveAt(sockets, i) = 1 .. (Len(sockets) - 1)
        /\ \A k \in i .. (Len(sockets) - 1) : RemoveAt(sockets, i)[k] = sockets[k + 1]
    BY <1>4, <1>11, RemoveAtElements
  <2>2. /\ IsInjective(RemoveAt(sockets, i))
        /\ ToSet(RemoveAt(sockets, i)) = ToSet(sockets) \ {sockets[i]}
    BY <1>4, <1>11, RemoveAtInjective
  <2> QED BY <1>3, <1>4, <2>1, <2>2
<1>13. Served' /\ thread' \in ThreadRecord /\ (thread'.at = "read" => thread'.pos \in 1 .. Len(sockets'))
  <2>1. ASSUME NEW k \in 1 .. Len(sockets'), k >= i, sockets'[k] \in thread.ready
        PROVE  CanRead(conn'[owner'[sockets'[k]]])
    <3>1. k \in i .. (Len(sockets) - 1)
      <4>1. 1 .. Len(sockets') = 1 .. (Len(sockets) - 1)
        BY <1>12
      <4>2. k \in 1 .. (Len(sockets) - 1) /\ Len(sockets) \in Nat /\ i \in Nat
        BY <4>1, <1>4, <1>11
      <4> QED BY <4>2, <2>1
    <3>2. PICK l : l = k + 1
      OBVIOUS
    <3>3. l \in 1 .. Len(sockets) /\ l > i /\ l # i
      BY <3>1, <3>2, <1>4, <1>11
    <3>4. sockets'[k] = sockets[l]
      BY <3>1, <3>2, <1>12
    <3>5. owner[sockets[l]] # c /\ sockets[l] # f /\ CanRead(conn[owner[sockets[l]]])
      BY <3>3, <3>4, <1>4, <2>1
    <3>6. owner[sockets[l]] \in Conns /\ sockets[l] \in Fds
      BY <3>3, SocketFacts
    <3> QED BY <3>4, <3>5, <3>6, <1>8, <1>9
  <2>2. i \in Nat \ {0} /\ thread' = Advance(sockets', thread.ready, i)
    BY <1>3, <1>4
  <2>3. \A k \in 1 .. Len(sockets') : k >= i /\ sockets'[k] \in thread.ready => CanRead(conn'[owner'[sockets'[k]]])
    BY <2>1
  <2> QED BY <1>4, <1>12, <2>2, <2>3, GoOn
<1>14. StreamType'
  <2>1. <<>> \in Seq(Byte)
    OBVIOUS
  <2>2. owner' \in [Fds -> Conns \cup {Nobody}] /\ data' \in [Fds -> Seq(Byte)]
    BY <1>1, <1>3, <1>4, <2>1 DEF StreamType
  <2>3. \A g \in Fds : Local(data'[g], inPacket[g], escape[g])
    <3>1. \A g \in Fds : Local(data[g], inPacket[g], escape[g])
      BY <1>1 DEF StreamType
    <3>2. Local(<<>>, inPacket[f], escape[f])
      BY <3>1, <1>4, <2>1, Zenon DEF Local
    <3> QED BY <3>1, <3>2, <1>4, <1>9
  <2> QED BY <1>1, <1>3, <1>8, <1>12, <1>13, <2>2, <2>3 DEF StreamType
<1>15. SocketsOwned'
  <2>1. \A g \in Fds : g \in ToSet(sockets') <=> owner'[g] # Nobody
    BY <1>1, <1>9, <1>12 DEF SocketsOwned
  <2>2. ASSUME NEW g \in Fds, owner'[g] \in Conns PROVE conn'[owner'[g]].state \in {"open", "shut", "broken"}
    <3>1. g # f /\ owner'[g] = owner[g] /\ owner[g] \in Conns /\ owner[g] # c
      BY <1>4, <1>9, <1>10, <2>2
    <3>2. conn[owner[g]].state \in {"open", "shut", "broken"}
      BY <3>1, <1>1 DEF SocketsOwned
    <3> QED BY <3>1, <3>2, <1>8
  <2>3. \A g, h \in Fds : owner'[g] = owner'[h] /\ owner'[g] \in Conns => g = h
    <3> SUFFICES ASSUME NEW g \in Fds, NEW h \in Fds, owner'[g] = owner'[h], owner'[g] \in Conns PROVE g = h
      OBVIOUS
    <3>1. g # f /\ h # f
      BY <1>9, <1>10
    <3> QED BY <3>1, <1>1, <1>9 DEF SocketsOwned
  <2> QED BY <1>12, <1>13, <2>1, <2>2, <2>3 DEF SocketsOwned
<1>16. InStep' /\ Knowing'
  <2>1. c \notin Junk => Whole(c, t, OfConn(handled', c), c \in paced')
    <3>1. c \notin Junk => Whole(c, r, OfConn(handled, c), c \in paced)
      BY <1>2, <1>4, ConnFacts
    <3>2. c \notin Junk => Whole(c, t, OfConn(handled, c), c \in paced)
      BY <1>4, <1>6, <3>1, WholeClosed
    <3> QED BY <3>2, <1>3
  <2>2. \A g \in Fds : owner'[g] \in Conns => g # f /\ owner'[g] = owner[g] /\ owner'[g] # c
    BY <1>4, <1>9, <1>10
  <2>3. \A g \in Fds : owner'[g] \in Conns /\ owner'[g] # c => owner'[g] = owner[g]
    BY <2>2
  <2>4. \A o \in Conns \ Junk : o # c => OfConn(handled', o) = OfConn(handled, o)
    BY <1>3
  <2>5. \A g \in Fds : owner'[g] \in Conns /\ owner'[g] # c =>
             data'[g] = data[g] /\ inPacket'[g] = inPacket[g] /\ escape'[g] = escape[g]
    BY <1>3, <1>9, <2>2
  <2>6. paced' \subseteq paced
    BY <1>3
  <2>7. c \notin Junk => \A g \in Fds : owner'[g] = c =>
             Known(c, t, c \in paced', inPacket'[g], data'[g], escape'[g])
    BY <1>4, <2>2
  <2> QED BY <1>1, <1>4, <1>7, <2>1, <2>3, <2>4, <2>5, <2>6, <2>7, ConnStep
<1> QED BY <1>13, <1>14, <1>15, <1>16 DEF StreamInv

\* read gives a block.
LEMMA ReadBlockStep ==
  ASSUME StreamInv, ReadBlock
  PROVE  StreamInv'
<1>1. StreamType /\ SocketsOwned /\ InStep /\ Knowing
  BY DEF StreamInv
<1>2. PICK f, c, r, i : f = Fd /\ c = Client /\ r = conn[c] /\ i = thread.pos
  OBVIOUS
<1>3. PICK n, block, p :
        /\ n = (IF Len(r.wire) > BufLen THEN BufLen ELSE Len(r.wire))
        /\ block = SubSeq(r.wire, 1, n) /\ p = Parsed(f, block) /\ TakeBlock(Len(block), p)
        /\ conn' = [conn EXCEPT ![c].wire = SubSeq(@, Len(block) + 1, Len(@))]
  BY <1>2 DEF ReadBlock, Block
<1>4. thread.at = "read" /\ r.wire # <<>>
  BY <1>2 DEF ReadBlock
<1>5. Reading(f, c, r, i)
  BY <1>2, <1>4, ReadFacts
<1>6. /\ i \in 1 .. Len(sockets) /\ f = sockets[i] /\ f \in Fds /\ c = owner[f] /\ c \in Conns
      /\ r \in ConnRecord /\ r.state \in {"open", "shut", "broken"}
      /\ r.tosend \in Seq(Byte) /\ r.wire \in Seq(Byte)
      /\ \A g \in Fds : owner[g] = c => g = f
      /\ \A l \in 1 .. Len(sockets) : l # i => sockets[l] # f /\ owner[sockets[l]] # c
      /\ \A l \in 1 .. Len(sockets) : l > i /\ sockets[l] \in thread.ready => CanRead(conn[owner[sockets[l]]])
      /\ thread.ready \in SUBSET Fds /\ thread.pos \in Nat
  BY <1>5 DEF Reading
<1>7. n \in 1 .. Len(r.wire)
  <2>1. Len(r.wire) \in Nat /\ Len(r.wire) # 0 /\ BufLen \in Nat \ {0}
    BY <1>4, <1>6, StreamAssumption
  <2>2. PICK l : l = Len(r.wire)
    OBVIOUS
  <2>3. n = IF l > BufLen THEN BufLen ELSE l
    BY <1>3, <2>2
  <2>4. n \in 1 .. l
    BY <2>1, <2>2, <2>3
  <2> QED BY <2>2, <2>4
<1>8. block \in Seq(Byte) /\ Len(block) = n /\ block # <<>>
  <2>1. n \in Nat /\ n # 0 /\ n <= Len(r.wire)
    BY <1>6, <1>7
  <2>2. block \in Seq(Byte) /\ Len(block) = n
    BY <1>3, <1>6, <2>1
  <2> QED BY <2>1, <2>2
<1>9. /\ conn' = [conn EXCEPT ![c].wire = SubSeq(@, n + 1, Len(@))]
      /\ data' = [data EXCEPT ![f] = p.data]
      /\ inPacket' = [inPacket EXCEPT ![f] = p.inPacket]
      /\ escape' = [escape EXCEPT ![f] = p.escape]
      /\ handled' = IF p.packet = <<>> THEN handled
                    ELSE Append(handled, [conn |-> c, payload |-> p.packet])
      /\ paced' = IF p.rest > 0 THEN paced \ {c} ELSE paced
      /\ UNCHANGED <<sockets, owner, running>>
      /\ thread' = IF NextAfter(n = BufLen, p.junk) = "read"
                   THEN [thread EXCEPT !.full = n = BufLen]
                   ELSE Advance(sockets, thread.ready, thread.pos + 1)
  BY <1>2, <1>3, <1>8 DEF TakeBlock
<1>10. Local(data[f], inPacket[f], escape[f])
  BY <1>1, <1>6 DEF StreamType
<1>11. Local(p.data, p.inPacket, p.escape) /\ p.packet \in Seq(Byte) /\ p.rest \in Nat /\ p.junk \in BOOLEAN
  BY <1>3, <1>8, <1>10, ParsedTyped
<1>12. p.data \in Seq(Byte) /\ p.inPacket \in BOOLEAN /\ p.escape \in BOOLEAN
  BY <1>11 DEF Local
<1>13. PICK t : t = [r EXCEPT !.wire = SubSeq(@, n + 1, Len(@))]
  OBVIOUS
<1>14. t \in ConnRecord /\ t.state = r.state /\ t.tosend = r.tosend /\ t.wire = SubSeq(r.wire, n + 1, Len(r.wire))
  <2>1. SubSeq(r.wire, n + 1, Len(r.wire)) \in Seq(Byte)
    BY <1>6, <1>7
  <2> QED BY <1>6, <1>13, <2>1 DEF ConnRecord
<1>15. conn' = [conn EXCEPT ![c] = t]
  BY <1>2, <1>9, <1>13
<1> HIDE <1>13
<1>16. conn' \in [Conns -> ConnRecord] /\ conn'[c] = t /\ \A o \in Conns : o # c => conn'[o] = conn[o]
  BY <1>1, <1>6, <1>14, <1>15 DEF StreamType
<1>17. /\ data'[f] = p.data /\ inPacket'[f] = p.inPacket /\ escape'[f] = p.escape
       /\ \A g \in Fds : g # f => data'[g] = data[g] /\ inPacket'[g] = inPacket[g] /\ escape'[g] = escape[g]
       /\ data' \in [Fds -> Seq(Byte)] /\ inPacket' \in [Fds -> BOOLEAN] /\ escape' \in [Fds -> BOOLEAN]
  BY <1>1, <1>6, <1>9, <1>12 DEF StreamType
<1>18. paced' \subseteq paced /\ (c \in paced' => p.rest = 0)
  BY <1>9, <1>11
<1>19. PICK e : e = [conn |-> c, payload |-> p.packet]
  OBVIOUS
<1>20. e \in CallRecord /\ e.conn = c /\ e.payload = p.packet
  BY <1>6, <1>11, <1>19 DEF CallRecord
<1>21. handled' = IF p.packet = <<>> THEN handled ELSE Append(handled, e)
  BY <1>9, <1>19
<1> HIDE <1>19
<1>22. handled \in Seq(CallRecord) /\ handled' \in Seq(CallRecord)
  BY <1>1, <1>20, <1>21 DEF StreamType
<1>23. \A o \in Conns \ Junk : o # c => OfConn(handled', o) = OfConn(handled, o)
  BY <1>20, <1>21, <1>22, OfConnMore
<1>24. OfConn(handled, c) \in Seq(Seq(Byte))
       /\ OfConn(handled', c) = IF p.packet = <<>> THEN OfConn(handled, c) ELSE Append(OfConn(handled, c), p.packet)
  <2>1. OfConn(handled, c) \in Seq(Seq(Byte)) /\ OfConn(Append(handled, e), c) = Append(OfConn(handled, c), p.packet)
    BY <1>20, <1>22, OfConnMore
  <2>2. CASE p.packet = <<>>
    BY <1>21, <2>1, <2>2
  <2>3. CASE p.packet # <<>>
    BY <1>21, <2>1, <2>3
  <2> QED BY <2>1, <2>2, <2>3
<1>25. c \notin Junk =>
         /\ Whole(c, t, OfConn(handled', c), c \in paced')
         /\ Known(c, t, c \in paced', p.inPacket, p.data, p.escape)
         /\ c \in paced => p.junk = FALSE
  <2> SUFFICES ASSUME c \notin Junk
               PROVE  /\ Whole(c, t, OfConn(handled', c), c \in paced')
                      /\ Known(c, t, c \in paced', p.inPacket, p.data, p.escape)
                      /\ c \in paced => p.junk = FALSE
    OBVIOUS
  <2>1. PICK q, u, a, b : /\ q = OfConn(handled, c) /\ u = OfConn(handled', c)
                          /\ a = (c \in paced) /\ b = (c \in paced')
    OBVIOUS
  <2>2. Whole(c, r, q, a)
    BY <1>1, <1>2, <1>6, <2>1 DEF InStep
  <2>3. Known(c, r, a, inPacket[f], data[f], escape[f])
    BY <1>1, <1>2, <1>6, <2>1 DEF Knowing
  <2>4. a \in BOOLEAN /\ b \in BOOLEAN /\ (b = TRUE => a = TRUE /\ p.rest = 0)
    <3>1. a \in BOOLEAN /\ b \in BOOLEAN
      <4>1. (c \in paced) \in BOOLEAN /\ (c \in paced') \in BOOLEAN
        OBVIOUS
      <4> QED BY <2>1, <4>1, Zenon
    <3>2. ASSUME b = TRUE PROVE a = TRUE /\ p.rest = 0
      <4>1. c \in paced'
        BY <2>1, <3>2, Zenon
      <4>2. c \in paced /\ p.rest = 0
        BY <1>18, <4>1
      <4> QED BY <2>1, <4>2, Zenon
    <3> QED BY <3>1, <3>2
  <2>5. q \in Seq(Seq(Byte)) /\ u = IF p.packet = <<>> THEN q ELSE Append(q, p.packet)
    BY <1>24, <2>1
  <2>6. r.state \notin {"none", "waiting"}
    BY <1>6
  <2>7. Whole(c, t, u, b) /\ Known(c, t, b, p.inPacket, p.data, p.escape) /\ (a = TRUE => p.junk = FALSE)
    <3>1. block = SubSeq(r.wire, 1, n) /\ p = Parsed(f, block)
      BY <1>3
    <3>2. c \in Conns \ Junk /\ r \in ConnRecord
      BY <1>6
    <3>3. Taking(c, f, r, q, a, n, block, p, t, u, b)
      <4> HIDE <1>2, <1>3, <2>1
      <4> QED BY <1>4, <1>7, <1>10, <1>14, <2>2, <2>3, <2>4, <2>5, <2>6, <3>1, <3>2 DEF Taking
    <3>4. Taken(c, a, p, t, u, b)
      BY <3>3, WholeBlock
    <3> QED BY <3>4 DEF Taken
  <2> QED BY <2>1, <2>7
<1>26. InStep' /\ Knowing'
  <2>1. c \notin Junk => Whole(c, t, OfConn(handled', c), c \in paced')
    BY <1>25
  <2>2. ASSUME c \notin Junk, NEW g \in Fds, owner'[g] = c
        PROVE  Known(c, t, c \in paced', inPacket'[g], data'[g], escape'[g])
    <3>1. g = f
      BY <1>6, <1>9, <2>2
    <3> QED BY <1>17, <1>25, <2>2, <3>1
  <2>3. \A g \in Fds : owner'[g] \in Conns /\ owner'[g] # c => owner'[g] = owner[g]
    BY <1>9
  <2>5. \A g \in Fds : owner'[g] \in Conns /\ owner'[g] # c =>
             data'[g] = data[g] /\ inPacket'[g] = inPacket[g] /\ escape'[g] = escape[g]
    BY <1>6, <1>9, <1>17
  <2>6. paced' \subseteq paced
    BY <1>18
  <2> QED BY <1>1, <1>6, <1>15, <1>23, <2>1, <2>2, <2>3, <2>5, <2>6, ConnStep
<1>27. Served' /\ thread' \in ThreadRecord /\ (thread'.at = "read" => thread'.pos \in 1 .. Len(sockets))
  <2>1. CASE n = BufLen \/ p.junk = TRUE
    <3>1. thread' = [thread EXCEPT !.full = n = BufLen]
      <4>1. NextAfter(n = BufLen, p.junk) = "read"
        BY <2>1 DEF NextAfter
      <4> QED BY <4>1, <1>9
    <3>2. /\ thread' \in ThreadRecord /\ thread'.at = "read" /\ thread'.pos = i /\ thread'.ready = thread.ready
          /\ thread'.full = (n = BufLen)
      BY <1>1, <1>2, <1>4, <3>1 DEF StreamType, ThreadRecord
    <3>3. ASSUME NEW l \in 1 .. Len(sockets), l > i, sockets[l] \in thread.ready
          PROVE  CanRead(conn'[owner[sockets[l]]])
      <4>1. l # i
        BY <1>6, <3>3
      <4>2. owner[sockets[l]] # c /\ CanRead(conn[owner[sockets[l]]]) /\ owner[sockets[l]] \in Conns
        BY <1>6, <3>3, <4>1, SocketFacts
      <4> QED BY <4>2, <1>16
    <3>4. thread'.full = TRUE \/ c \notin paced' \ Junk
      <4>1. CASE n = BufLen
        BY <3>2, <4>1
      <4>2. CASE p.junk = TRUE
        BY <1>18, <1>25, <4>2
      <4> QED BY <2>1, <4>1, <4>2
    <3>5. Served'
      BY <1>6, <1>9, <3>2, <3>3, <3>4 DEF Served
    <3> QED BY <1>6, <3>2, <3>5
  <2>2. CASE n # BufLen /\ p.junk = FALSE
    <3>1. thread' = Advance(sockets, thread.ready, thread.pos + 1)
      <4>1. NextAfter(n = BufLen, p.junk) = "next"
        BY <2>2 DEF NextAfter
      <4> QED BY <4>1, <1>9
    <3>2. conn' = [conn EXCEPT ![Client] = t]
      BY <1>2, <1>15
    <3>3. UNCHANGED <<sockets, owner>>
      BY <1>9
    <3> QED BY <1>4, <3>1, <3>2, <3>3, ReadGoesOn
  <2> QED BY <1>11, <2>1, <2>2
<1>28. StreamType'
  <2>1. \A g \in Fds : Local(data'[g], inPacket'[g], escape'[g])
    <3>1. \A g \in Fds : Local(data[g], inPacket[g], escape[g])
      BY <1>1 DEF StreamType
    <3> QED BY <3>1, <1>11, <1>17
  <2>2. paced' \subseteq Conns
    BY <1>1, <1>18 DEF StreamType
  <2> QED BY <1>1, <1>9, <1>16, <1>17, <1>22, <1>27, <2>1, <2>2 DEF StreamType
<1>29. SocketsOwned'
  <2>1. ASSUME NEW g \in Fds, owner[g] \in Conns PROVE conn'[owner[g]].state \in {"open", "shut", "broken"}
    <3>1. conn[owner[g]].state \in {"open", "shut", "broken"}
      BY <1>1, <2>1 DEF SocketsOwned
    <3> QED BY <3>1, <2>1, <1>6, <1>14, <1>16
  <2> QED BY <2>1, <1>1, <1>9, <1>27 DEF SocketsOwned
<1> QED BY <1>26, <1>27, <1>28, <1>29 DEF StreamInv

\* The thread ends.
LEMMA ExitStep ==
  ASSUME StreamInv, Exit
  PROVE  StreamInv'
<1>1. StreamType /\ SocketsOwned /\ InStep /\ Knowing
  BY DEF StreamInv
<1>2. /\ thread' = [thread EXCEPT !.at = "exited"]
      /\ conn' = [c \in Conns |-> IF \E f \in ToSet(sockets) : owner[f] = c
                                  THEN [conn[c] EXCEPT !.state = "gone", !.wire = <<>>] ELSE conn[c]]
      /\ sockets' = <<>>
      /\ owner' = [f \in Fds |-> Nobody]
      /\ data' = [f \in Fds |-> <<>>]
      /\ UNCHANGED <<inPacket, escape, running, handled, paced>>
  BY DEF Exit
<1>3. ASSUME NEW c \in Conns
      PROVE  /\ conn'[c] \in ConnRecord
             /\ conn'[c] = conn[c] \/ (conn'[c].state = "gone" /\ conn'[c].wire = <<>>)
  <2>1. PICK r, t : r = conn[c] /\ t = [r EXCEPT !.state = "gone", !.wire = <<>>]
    OBVIOUS
  <2>2. r \in ConnRecord /\ <<>> \in Seq(Byte)
    BY <1>1, <2>1 DEF StreamType
  <2>3. t \in ConnRecord /\ t.state = "gone" /\ t.wire = <<>>
    BY <2>1, <2>2 DEF ConnRecord
  <2>4. conn'[c] = t \/ conn'[c] = r
    <3>1. conn'[c] = IF \E f \in ToSet(sockets) : owner[f] = c
                     THEN [conn[c] EXCEPT !.state = "gone", !.wire = <<>>] ELSE conn[c]
      BY <1>2
    <3>2. CASE \E f \in ToSet(sockets) : owner[f] = c
      BY <2>1, <3>1, <3>2
    <3>3. CASE ~ \E f \in ToSet(sockets) : owner[f] = c
      BY <2>1, <3>1, <3>3
    <3> QED BY <3>2, <3>3
  <2> QED BY <2>1, <2>2, <2>3, <2>4
<1>4. thread' \in ThreadRecord /\ thread'.at = "exited"
  BY <1>1, <1>2 DEF StreamType, ThreadRecord
<1>5. <<>> \in Seq(Byte) /\ <<>> \in Seq(Fds) /\ Len(<<>>) = 0 /\ ToSet(<<>>) = {} /\ IsInjective(<<>>)
  BY DEF ToSet, IsInjective
<1>6. Nobody \notin Conns
  BY StreamAssumption
<1>7. StreamType'
  <2>1. \A f \in Fds : Local(data'[f], inPacket'[f], escape'[f])
    <3>1. \A f \in Fds : Local(data[f], inPacket[f], escape[f])
      BY <1>1 DEF StreamType
    <3>2. \A f \in Fds : Local(<<>>, inPacket[f], escape[f])
      BY <3>1, <1>5, Zenon DEF Local
    <3> QED BY <3>2, <1>2
  <2>2. conn' \in [Conns -> ConnRecord]
    BY <1>2, <1>3
  <2> QED BY <1>1, <1>2, <1>4, <1>5, <2>1, <2>2 DEF StreamType
<1>8. SocketsOwned'
  BY <1>2, <1>4, <1>5, <1>6 DEF SocketsOwned
<1>9. Knowing'
  BY <1>2, <1>6 DEF Knowing
<1>10. Served'
  BY <1>4 DEF Served
<1>11. InStep'
  <2> SUFFICES ASSUME NEW c \in Conns \ Junk PROVE Whole(c, conn'[c], OfConn(handled', c), c \in paced')
    BY DEF InStep
  <2>1. Whole(c, conn[c], OfConn(handled, c), c \in paced) /\ conn[c] \in ConnRecord
    BY <1>1 DEF InStep, StreamType
  <2>2. handled' = handled /\ paced' = paced
    BY <1>2
  <2>3. CASE conn'[c] = conn[c]
    BY <2>1, <2>2, <2>3
  <2>4. CASE conn'[c].state = "gone" /\ conn'[c].wire = <<>>
    <3>1. PICK r, t, q, b : r = conn[c] /\ t = conn'[c] /\ q = OfConn(handled, c) /\ b = (c \in paced)
      OBVIOUS
    <3>2. Whole(c, t, q, b)
      <4>1. Whole(c, r, q, b) /\ r \in ConnRecord /\ t.state = "gone" /\ t.wire = <<>>
        BY <2>1, <2>4, <3>1
      <4> HIDE <3>1
      <4> QED BY <4>1, WholeClosed
    <3> QED BY <2>2, <3>1, <3>2
  <2> QED BY <1>3, <2>3, <2>4
<1> QED BY <1>7, <1>8, <1>9, <1>10, <1>11 DEF StreamInv

\* A step that leaves what the invariant is about.
LEMMA StreamStutter ==
  ASSUME StreamInv, UNCHANGED <<conn, sockets, owner, data, inPacket, escape, thread, handled, paced>>
  PROVE  StreamInv'
BY DEF StreamInv, StreamType, SocketsOwned, InStep, Knowing, Served

\* Every step keeps the invariant.
LEMMA StreamInvStep ==
  ASSUME StreamInv, [Next]_vars
  PROVE  StreamInv'
<1>1. StreamNext \/ UNCHANGED streamVars
  BY DEF Next, UDP, TCP, vars
<1>2. CASE UNCHANGED streamVars
  BY <1>2, StreamStutter DEF streamVars
<1>3. ASSUME NEW c \in Conns, Connect(c) \/ SendByte(c) \/ Shut(c) \/ Break(c)
      PROVE  StreamInv'
  BY <1>3, ConnectStep, SendByteStep, ShutStep, BreakStep
<1>4. CASE Stop
  BY <1>4, StreamStutter DEF Stop
<1>5. ASSUME NEW c \in Conns, Accept(c) PROVE StreamInv'
  BY <1>5, AcceptStep
<1>6. CASE Select
  BY <1>6, SelectStep
<1>7. CASE ReadEnd
  BY <1>7, ReadEndStep
<1>8. CASE ReadError
  BY <1>8, ReadErrorStep
<1>9. CASE ReadBlock
  BY <1>9, ReadBlockStep
<1>10. CASE Exit
  BY <1>10, ExitStep
<1> QED BY <1>1, <1>2, <1>3, <1>4, <1>5, <1>6, <1>7, <1>8, <1>9, <1>10 DEF StreamNext, ServerThread

\* The invariant of the stream server holds always.
THEOREM StreamInvAlways == Spec => []StreamInv
<1>1. Init => StreamInv
  BY StreamInitHolds DEF Init
<1>2. StreamInv /\ [Next]_vars => StreamInv'
  BY StreamInvStep
<1> QED BY <1>1, <1>2, PTL DEF Spec

\* The calls of a connection, by both names.
LEMMA HandledIs ==
  ASSUME NEW c
  PROVE  HandledOf(c) = OfConn(handled, c)
BY DEF HandledOf, OfConn

\* However a stream is cut into blocks and whatever is dropped, what
\* process_osc_data gets of a client that sends nothing between packets are
\* whole packets, each at most once and in their order.
THEOREM PacketsWhole == Spec => []WholePackets
<1>1. StreamInv => WholePackets
  <2> SUFFICES ASSUME StreamInv PROVE WholePackets
    OBVIOUS
  <2> SUFFICES ASSUME NEW c \in Conns \ Junk
               PROVE  \E place \in [DOMAIN HandledOf(c) -> DOMAIN Payloads[c]] :
                        /\ \A i \in DOMAIN place : HandledOf(c)[i] = Payloads[c][place[i]]
                        /\ \A i, j \in DOMAIN place : i < j => place[i] < place[j]
    BY DEF WholePackets
  <2>1. PICK q, P : q = HandledOf(c) /\ P = Payloads[c]
    OBVIOUS
  <2>2. Whole(c, conn[c], q, c \in paced)
    BY <2>1, HandledIs DEF StreamInv, InStep
  <2>3. \E n : Placed(q, P, n)
    BY <2>1, <2>2 DEF Whole
  <2>4. q \in Seq(Seq(Byte)) /\ P \in Seq(Seq(Byte))
    BY <2>1, <2>3, PayloadsTyped DEF Placed
  <2>5. DOMAIN q = 1 .. Len(q) /\ DOMAIN P = 1 .. Len(P)
    BY <2>4
  <2>6. \E place \in [1 .. Len(q) -> 1 .. Len(P)] :
          /\ \A i \in 1 .. Len(q) : q[i] = P[place[i]]
          /\ \A i, j \in 1 .. Len(q) : i < j => place[i] < place[j]
    BY <2>3 DEF Placed
  <2>7. \E place \in [DOMAIN q -> DOMAIN P] :
          /\ \A i \in DOMAIN place : q[i] = P[place[i]]
          /\ \A i, j \in DOMAIN place : i < j => place[i] < place[j]
    BY <2>5, <2>6
  <2> QED BY <2>1, <2>7
<1> QED BY <1>1, StreamInvAlways, PTL

\* No packet is lost of a client whose packets do not meet in a block, until
\* the connection breaks or is closed.
THEOREM PacketsKept == Spec => []Lossless
<1>1. StreamInv => Lossless
  <2> SUFFICES ASSUME StreamInv, NEW c \in paced \ Junk, conn[c].state \in {"open", "shut"}
               PROVE  Len(HandledOf(c)) = ReadPackets(c)
    BY DEF Lossless
  <2>1. PICK r, q : r = conn[c] /\ q = HandledOf(c)
    OBVIOUS
  <2>2. c \in Conns /\ r \in ConnRecord /\ r.state # "gone"
    BY <2>1 DEF StreamInv, StreamType
  <2>3. Whole(c, r, q, TRUE)
    BY <2>1, <2>2, HandledIs DEF StreamInv, InStep
  <2>4. Live(c, r) /\ Len(q) = Reader(c, r).done
    BY <2>2, <2>3 DEF Whole
  <2>5. PICK k, m, w, P : k = Position(c, r) /\ m = Marking(c) /\ w = Stream[c] /\ P = Payloads[c]
    OBVIOUS
  <2>6. k \in 0 .. Len(w) /\ m[k].done \in Nat /\ m[k].inside \in BOOLEAN /\ Reader(c, r) = m[k]
    <3>1. k \in 0 .. Len(w) /\ Reader(c, r) \in Mark /\ Reader(c, r) = m[k]
      BY <2>2, <2>4, <2>5, ReaderTyped DEF Reader
    <3> QED BY <3>1, MarkFields
  <2>7. w \in Seq(Byte) /\ Marks(m, w, P) /\ Len(P) \in Nat
    BY <2>2, <2>5, StreamMarked, MarkingMarks, PayloadsTyped
  <2>8. Cardinality({i \in 1 .. k : w[i] = END}) = 2 * m[k].done + (IF m[k].inside THEN 1 ELSE 0)
    <3> HIDE <2>5
    <3> QED BY <2>6, <2>7, EndsCounted
  <2>9. ReadPackets(c) = Cardinality({i \in 1 .. k : w[i] = END}) \div 2
    BY <2>1, <2>5 DEF ReadPackets, Unread, Position
  <2>10. (2 * m[k].done + (IF m[k].inside THEN 1 ELSE 0)) \div 2 = m[k].done
    <3>1. PICK d, e : d = m[k].done /\ e = (IF m[k].inside THEN 1 ELSE 0)
      OBVIOUS
    <3>2. d \in Nat /\ (e = 0 \/ e = 1)
      BY <2>6, <3>1
    <3>3. (2 * d + e) \div 2 = d
      <4> HIDE <3>1
      <4> QED BY <3>2
    <3> QED BY <3>1, <3>3
  <2> QED BY <2>1, <2>4, <2>6, <2>8, <2>9, <2>10
<1> QED BY <1>1, StreamInvAlways, PTL

\* The thread waits for one client only when that client filled a block, sent
\* something between packets or had packets dropped.
THEOREM ThreadStuck == Spec => []StuckHasCause
<1>1. StreamInv => StuckHasCause
  <2> SUFFICES ASSUME StreamInv, Stuck PROVE thread.full \/ Client \notin paced \/ Client \in Junk
    BY DEF StuckHasCause
  <2>1. thread.at = "read" /\ conn[Client].wire = <<>> /\ conn[Client].state = "open"
    BY DEF Stuck
  <2>2. CanRead(conn[Client]) \/ thread.full = TRUE \/ Client \notin paced \ Junk
    BY <2>1 DEF StreamInv, Served, Client, Fd
  <2> QED BY <2>1, <2>2 DEF CanRead
<1> QED BY <1>1, StreamInvAlways, PTL
=============================================================================
