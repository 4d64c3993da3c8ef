---------------------------- MODULE OSCDatagram ----------------------------
(***************************************************************************)
(* The UDP side of OSC.cpp: Scheme processes start servers, set options    *)
(* and send messages; a thread per server turns every packet it receives   *)
(* into tasks of the process that started it.                              *)
(*                                                                         *)
(* The options of a process are those of the server it started last:       *)
(* OSC::I looks it up in SCHEME_MAP, for the other servers too.  The       *)
(* network loses, duplicates and reorders packets.                         *)
(***************************************************************************)
EXTENDS OSCMessage, FiniteSets

CONSTANTS Procs,        \* Scheme processes
          Servers,      \* OSC objects, each with its port
          None,
          Args,         \* the arguments that processes send
          Foreign,      \* packets that other programs send
          MaxPackets,   \* bound on the packets sent
          MaxOptions,   \* bound on the changes of options
          MayReset      \* a server is started after options were set

ASSUME DatagramAssumption == None \notin Procs \cup Servers

VARIABLES current,   \* SCHEME_MAP: the server each process started last
          starting,  \* the server whose registerScheme is not at its end
          server,    \* the OSC objects
          sends,     \* tasks of the scheduler that will run sendOSC
          net,       \* packets on their way
          sent,      \* how many packets were sent
          tasks,     \* the tasks that the last packet led to
          changes,   \* how often options were changed
          asked,     \* what each process asked for with io:osc:netaddress?
          crashed    \* an exception that no one catches was thrown

datagramVars == <<current, starting, server, sends, net, sent, tasks, changes, asked, crashed>>

Types == [int64 : BOOLEAN, real64 : BOOLEAN]

NoServer == [thread |-> "none", proc |-> None, types |-> [int64 |-> FALSE, real64 |-> FALSE],
             netaddr |-> FALSE, serverfd |-> TRUE]

DatagramInit ==
    /\ current = [p \in Procs |-> None]
    /\ starting = [p \in Procs |-> None]
    /\ server = [s \in Servers |-> NoServer]
    /\ sends = {}
    /\ net = {}
    /\ sent = 0
    /\ tasks = <<>>
    /\ changes = 0
    /\ asked = [p \in Procs |-> FALSE]
    /\ crashed = FALSE

Free(p) == starting[p] = None /\ ~ crashed

\* registerScheme up to the start of the thread; osc->sc is not set yet.
StartServer(p, s) ==
    /\ Free(p) /\ server[s].thread = "none"
    /\ MayReset \/ ~ asked[p]
    /\ current' = [current EXCEPT ![p] = s]
    /\ server' = [server EXCEPT ![s].thread = "running"]
    /\ starting' = [starting EXCEPT ![p] = s]
    /\ UNCHANGED <<sends, net, sent, tasks, changes, asked, crashed>>

\* The rest of registerScheme.
StartServerEnd(p) ==
    /\ starting[p] # None /\ ~ crashed
    /\ server' = [server EXCEPT ![starting[p]].proc = p]
    /\ starting' = [starting EXCEPT ![p] = None]
    /\ UNCHANGED <<current, sends, net, sent, tasks, changes, asked, crashed>>

\* set_real_type, set_integer_type, send_from_server_socket and
\* set_msg_include_netaddr: OSC::I throws when there is no server.
SetOption(p, f, v) ==
    /\ Free(p) /\ changes < MaxOptions
    /\ changes' = changes + 1
    /\ IF current[p] = None
       THEN crashed' = TRUE /\ UNCHANGED <<server, asked>>
       ELSE /\ server' = [server EXCEPT ![current[p]] = f]
            /\ asked' = [asked EXCEPT ![p] = v]
            /\ UNCHANGED crashed
    /\ UNCHANGED <<current, starting, sends, net, sent, tasks>>

SetType(p, types) ==
    SetOption(p, [server[current[p]] EXCEPT !.types = types], asked[p])

SendFromServerSocket(p, b) ==
    SetOption(p, [server[current[p]] EXCEPT !.serverfd = b], asked[p])

SetMsgIncludeNetaddr(p, b) ==
    SetOption(p, [server[current[p]] EXCEPT !.netaddr = b], b)

\* io:osc:send: call-cpp makes a task for the scheduler.
Send(p, s, args) ==
    /\ Free(p) /\ current[p] # None /\ sent < MaxPackets
    /\ sent' = sent + 1
    /\ sends' = sends \cup {[proc |-> p, to |-> s, args |-> args, id |-> sent]}
    /\ UNCHANGED <<current, starting, server, net, tasks, changes, asked, crashed>>

\* A packet, the ghost of what it was made of, and where it comes from: the
\* socket of a server or a socket that is closed again.
Packet(to, from, packet, args, types, id) ==
    [to |-> to, from |-> from, packet |-> packet, args |-> args, types |-> types, id |-> id]

\* sendOSC, in the thread of the scheduler, with the options of that moment.
SendOSC(task) ==
    LET own == server[current[task.proc]]
        from == IF own.serverfd THEN current[task.proc] ELSE None IN
    /\ ~ crashed
    /\ sends' = sends \ {task}
    /\ net' = net \cup {Packet(task.to, from, Single(Message(task.to, task.args, own.types)),
                               task.args, own.types, task.id)}
    /\ UNCHANGED <<current, starting, server, sent, tasks, changes, asked, crashed>>

\* Another program sends a packet; its messages carry no arguments that the
\* properties look at.
ForeignSend(s, packet) ==
    /\ ~ crashed /\ sent < MaxPackets
    /\ sent' = sent + 1
    /\ net' = net \cup {Packet(s, None, packet, <<>>, NoServer.types, sent)}
    /\ UNCHANGED <<current, starting, server, sends, tasks, changes, asked, crashed>>

\* osc->fname, which names the server here.
Handler(s) == s

\* Mutant: the option of the server that received the packet.
WithAddress_Own(s) == server[s].netaddr

WithAddress(s) == server[current[server[s].proc]].netaddr

Task(s, d, m) ==
    [proc |-> server[s].proc, handler |-> Handler(s), args |-> Arguments(m),
     netaddr |-> IF WithAddress(s) THEN {d.from} ELSE {}, via |-> s, dgram |-> d]

\* osc_mesg_callback: one packet, which may come again.  A packet that is
\* never received is lost.  While osc->sc is not set, OSC::I throws; a string
\* may do so too.
Receive(s, d, again) ==
    /\ ~ crashed
    /\ d.to = s /\ server[s].thread = "running"
    /\ net' = IF again THEN net ELSE net \ {d}
    /\ IF server[s].proc = None \/ ReadThrows(d.packet)
       THEN crashed' = TRUE /\ UNCHANGED <<tasks, server>>
       ELSE /\ tasks' = [i \in DOMAIN CallsOf(d.packet) |->
                             Task(s, d, CallsOf(d.packet)[i])]
            /\ server' = IF EndsThread(d.packet) THEN [server EXCEPT ![s].thread = "ended"]
                         ELSE server
            /\ UNCHANGED crashed
    /\ UNCHANGED <<current, starting, sends, sent, changes, asked>>

DatagramNext ==
    \/ \E p \in Procs :
        \/ \E s \in Servers : StartServer(p, s)
        \/ StartServerEnd(p)
        \/ \E t \in Types : SetType(p, t)
        \/ \E b \in BOOLEAN : SendFromServerSocket(p, b) \/ SetMsgIncludeNetaddr(p, b)
        \/ \E s \in Servers, args \in Args : Send(p, s, args)
    \/ \E task \in sends : SendOSC(task)
    \/ \E s \in Servers, packet \in Foreign : ForeignSend(s, packet)
    \/ \E d \in net, again \in BOOLEAN : Receive(d.to, d, again)

----------------------------------------------------------------------------
(* Properties. *)

\* A packet for the port of a server calls the handler of that server, in the
\* process that started it, whatever other servers the process has.  Own
\* messages arrive with the arguments that io:osc:send was given, as far as
\* the types that were set when sendOSC ran can hold them: every argument is
\* read where it was written, and quotes inside strings are quoted.  Left out
\* are messages with booleans and the like, which processArgs writes wrongly,
\* and with strings that lose backslashes, break the text of the call or throw.
Delivered ==
    \A i \in DOMAIN tasks :
        LET d == tasks[i].dgram
        IN  /\ tasks[i].handler = d.to /\ tasks[i].proc = server[d.to].proc
            /\ d.args # <<>> /\ (\A j \in DOMAIN d.args : Sendable(d.args[j]))
               => tasks[i].args = Intended(d.args, d.types)

\* All own messages arrive with the arguments that were given.  Does not hold.
DeliveredAny ==
    \A i \in DOMAIN tasks :
        LET d == tasks[i].dgram
        IN  d.args # <<>> => tasks[i].args = Intended(d.args, d.types)

\* "added because we need to quote quotes to add to scheme expressions": the
\* receiver can read what io:osc:send makes of strings with quotes in them.  Does
\* not hold for a string that begins with a quote.
QuotesQuoted ==
    \A d \in net :
        (\A i \in DOMAIN d.args : d.args[i].type = "str" => ~ Contains(d.args[i].val, Backslash))
        => ~ ReadThrows(d.packet)

\* Every handler of a process gets the address of the sender if and only if
\* the process has asked for it, on all of its servers.
AddressAsAsked ==
    [][\A i \in DOMAIN tasks' :
          (tasks'[i].netaddr # {}) = asked[tasks'[i].proc]]_tasks
=============================================================================
