----------------------------- MODULE OSCStream -----------------------------
(***************************************************************************)
(* The TCP side of OSC.cpp: one thread, tcp_osc_server_thread, serves all  *)
(* connections and takes SLIP packets out of their streams.                *)
(*                                                                         *)
(* A stream is cut into blocks by the network and by the size of the       *)
(* buffer.  What follows the end of a packet in the same block is dropped. *)
(* What the thread knows of a stream is kept by file descriptor, and only  *)
(* the data is new when the descriptor is used again.                      *)
(***************************************************************************)
EXTENDS Integers, Sequences, SequencesExt, FiniteSets

CONSTANTS Conns,     \* connections that clients make, each once
          Payloads,  \* Payloads[c]: what the client puts into packets, in order
          Junk,      \* the connections whose clients send a byte between packets
          BufLen,    \* BUFLEN
          Nobody

ASSUME StreamAssumption ==
    /\ IsFiniteSet(Conns) /\ Junk \subseteq Conns /\ Nobody \notin Conns
    /\ BufLen \in Nat \ {0}
    /\ \A c \in Conns :
         /\ Payloads[c] \in Seq(ToSet(Payloads[c]))
         /\ \A p \in ToSet(Payloads[c]) : p \in Seq(ToSet(p)) /\ p # <<>>

\* The bytes of SLIP; everything else is data.
END == "END"
ESC == "ESC"
ESC_END == "ESC_END"
ESC_ESC == "ESC_ESC"

Fds == 1 .. Cardinality(Conns)

VARIABLES conn,       \* the connections, with the bytes to send and on the way
          sockets,    \* client_sockets
          owner,      \* the connection of a descriptor
          data,       \* data_map
          inPacket,   \* data_packet
          escape,     \* data_active_escape
          thread,     \* where the thread is, and its locals
          running,    \* scm->getRunning()
          handled,    \* calls of process_osc_data, with their connection
          paced       \* ghost: connections read a packet at a time so far

streamVars == <<conn, sockets, owner, data, inPacket, escape, thread, running, handled, paced>>

Escaped(payload) ==
    FlattenSeq([i \in DOMAIN payload |->
        CASE payload[i] = END -> <<ESC, ESC_END>>
          [] payload[i] = ESC -> <<ESC, ESC_ESC>>
          [] OTHER -> <<payload[i]>>])

\* The stream of a client: packets between two ENDs.
Stream ==
    [c \in Conns |-> FlattenSeq([i \in DOMAIN Payloads[c] |->
        (IF c \in Junk THEN <<"junk">> ELSE <<>>) \o <<END>> \o Escaped(Payloads[c][i]) \o <<END>>])]

StreamInit ==
    /\ conn = [c \in Conns |-> [state |-> "none", tosend |-> Stream[c], wire |-> <<>>]]
    /\ sockets = <<>>
    /\ owner = [f \in Fds |-> Nobody]
    /\ data = [f \in Fds |-> <<>>]
    /\ inPacket = [f \in Fds |-> FALSE]
    /\ escape = [f \in Fds |-> FALSE]
    /\ thread = [at |-> "select", ready |-> {}, pos |-> 1, full |-> FALSE]
    /\ running = TRUE
    /\ handled = <<>>
    /\ paced = Conns

----------------------------------------------------------------------------
(* Clients. *)

ClientVars == <<sockets, owner, data, inPacket, escape, thread, running, handled, paced>>

Connect(c) ==
    /\ conn[c].state = "none"
    /\ conn' = [conn EXCEPT ![c].state = "waiting"]
    /\ UNCHANGED ClientVars

\* A byte at a time: what is read together depends on when it is read.
SendByte(c) ==
    /\ conn[c].state \in {"waiting", "open"} /\ conn[c].tosend # <<>>
    /\ conn' = [conn EXCEPT ![c].wire = Append(@, Head(conn[c].tosend)),
                            ![c].tosend = Tail(@)]
    /\ UNCHANGED ClientVars

\* The client closes the connection; what it has sent can still be read.
Shut(c) ==
    /\ conn[c].state = "open"
    /\ conn' = [conn EXCEPT ![c].state = "shut"]
    /\ UNCHANGED ClientVars

\* The connection breaks: what was not read is lost, read gives an error once.
Break(c) ==
    /\ conn[c].state = "open"
    /\ conn' = [conn EXCEPT ![c].state = "broken", ![c].wire = <<>>]
    /\ paced' = paced \ {c}
    /\ UNCHANGED <<sockets, owner, data, inPacket, escape, thread, running, handled>>

Stop ==
    /\ running
    /\ running' = FALSE
    /\ UNCHANGED <<conn, sockets, owner, data, inPacket, escape, thread, handled, paced>>

----------------------------------------------------------------------------
(* The thread. *)

Readable(f) == conn[owner[f]].wire # <<>> \/ conn[owner[f]].state \in {"shut", "broken"}

Waiting == {c \in Conns : conn[c].state = "waiting"}

\* select: a new connection is taken first, and then the loop begins again.
\* A new descriptor is the lowest that is free; only data_map is set.
Accept(c) ==
    LET f == CHOOSE g \in Fds : owner[g] = Nobody /\ \A h \in Fds : owner[h] = Nobody => g <= h IN
    /\ thread.at = "select" /\ running /\ c \in Waiting
    /\ conn' = [conn EXCEPT ![c].state = "open"]
    /\ sockets' = Append(sockets, f)
    /\ owner' = [owner EXCEPT ![f] = c]
    /\ data' = [data EXCEPT ![f] = <<>>]
    /\ paced' = IF inPacket[f] THEN paced \ {c} ELSE paced
    /\ UNCHANGED <<inPacket, escape, thread, running, handled>>

\* The loop over the clients goes on to the next one that select named, from
\* index i of client_sockets on, or back to select.
Advance(socks, ready, i) ==
    LET next == {k \in i .. Len(socks) : socks[k] \in ready}
    IN  IF next = {} THEN [at |-> "select", ready |-> {}, pos |-> 1, full |-> FALSE]
        ELSE [at |-> "read", ready |-> ready, full |-> FALSE,
              pos |-> CHOOSE k \in next : \A m \in next : k <= m]

\* select returns because a client can be read.
Select ==
    LET ready == {f \in ToSet(sockets) : Readable(f)} IN
    /\ thread.at = "select" /\ running /\ Waiting = {} /\ ready # {}
    /\ thread' = Advance(sockets, ready, 1)
    /\ UNCHANGED <<conn, sockets, owner, data, inPacket, escape, running, handled, paced>>

Fd == sockets[thread.pos]
Client == owner[Fd]

\* read gives 0: the descriptor is closed, data_packet and
\* data_active_escape stay.
ReadEnd ==
    /\ thread.at = "read"
    /\ conn[Client].state = "shut" /\ conn[Client].wire = <<>>
    /\ conn' = [conn EXCEPT ![Client].state = "gone"]
    /\ owner' = [owner EXCEPT ![Fd] = Nobody]
    /\ sockets' = RemoveAt(sockets, thread.pos)
    /\ data' = [data EXCEPT ![Fd] = <<>>]
    /\ thread' = Advance(RemoveAt(sockets, thread.pos), thread.ready, thread.pos)
    /\ UNCHANGED <<inPacket, escape, running, handled, paced>>

\* read gives an error; the next one will give 0.
ReadError ==
    /\ thread.at = "read"
    /\ conn[Client].state = "broken"
    /\ conn' = [conn EXCEPT ![Client].state = "shut"]
    /\ thread' = Advance(sockets, thread.ready, thread.pos + 1)
    /\ UNCHANGED <<sockets, owner, data, inPacket, escape, running, handled, paced>>

\* The block that read gives.
Block == SubSeq(conn[Client].wire, 1, IF Len(conn[Client].wire) > BufLen THEN BufLen
                                      ELSE Len(conn[Client].wire))

\* Mutant: every block is searched for the start of a packet.
Start_Always(f, block) ==
    LET i == SelectInSeq(block, LAMBDA b : b = END)
    IN  IF i = 0 THEN 0 ELSE i + 1

\* The index after the END that starts a packet; 0 if there is none.
Start(f, block) ==
    IF inPacket[f] THEN 1
    ELSE LET i == SelectInSeq(block, LAMBDA b : b = END)
         IN  IF i = 0 THEN 0 ELSE i + 1

\* Mutant: an escape at the end of a block is forgotten.
Escaping_Forget(f, block, from, i) == i > from /\ block[i - 1] = ESC

\* An escape is active at index i of a block that is parsed from `from' on.
Escaping(f, block, from, i) == IF i = from THEN escape[f] ELSE block[i - 1] = ESC

\* parse_osc_slip_data: where it stops and why.
ParseEnd(f, block, from) ==
    LET ends == {i \in from .. Len(block) :
                    \/ block[i] = END
                    \/ /\ Escaping(f, block, from, i)
                       /\ block[i] \notin {ESC, ESC_END, ESC_ESC}}
    IN  IF ends = {} THEN Len(block) + 1
        ELSE CHOOSE i \in ends : \A j \in ends : i <= j

Unescaped(f, block, from, to) ==
    LET bytes(i) == CASE block[i] = ESC -> <<>>
                      [] block[i] = ESC_END /\ Escaping(f, block, from, i) -> <<END>>
                      [] block[i] = ESC_ESC /\ Escaping(f, block, from, i) -> <<ESC>>
                      [] OTHER -> <<block[i]>>
    IN  FlattenSeq([k \in 1 .. to - from |-> bytes(from + k - 1)])

\* What a block does to the data and the flags of a client, the packet that
\* it ends, and how many bytes after it are dropped.
Parsed(f, block) ==
    LET from == Start(f, block)
        stop == ParseEnd(f, block, from)
        more == data[f] \o Unescaped(f, block, from, stop) IN
    IF from = 0
    THEN [data |-> data[f], inPacket |-> FALSE, escape |-> escape[f], packet |-> <<>>,
          rest |-> 0, junk |-> TRUE]
    ELSE IF stop > Len(block)
    THEN [data |-> more, inPacket |-> TRUE, packet |-> <<>>, rest |-> 0, junk |-> FALSE,
          escape |-> IF from > Len(block) THEN escape[f] ELSE block[Len(block)] = ESC]
    ELSE [data |-> <<>>, inPacket |-> FALSE, escape |-> FALSE, junk |-> FALSE,
          packet |-> IF block[stop] = END THEN more ELSE <<>>,
          rest |-> Len(block) - stop]

\* Mutant: a client is read until there is nothing more to read.
NextAfter_Again(full, junk) == "read"

\* After a full block the thread reads the client again; after a block in
\* which no packet starts it does so too, since pos is not moved on.
NextAfter(full, junk) == IF full \/ junk THEN "read" ELSE "next"

\* The effect of a block of n bytes that was parsed to p.
TakeBlock(n, p) ==
    /\ data' = [data EXCEPT ![Fd] = p.data]
    /\ inPacket' = [inPacket EXCEPT ![Fd] = p.inPacket]
    /\ escape' = [escape EXCEPT ![Fd] = p.escape]
    /\ handled' = IF p.packet = <<>> THEN handled
                  ELSE Append(handled, [conn |-> Client, payload |-> p.packet])
    /\ paced' = IF p.rest > 0 THEN paced \ {Client} ELSE paced
    /\ thread' = IF NextAfter(n = BufLen, p.junk) = "read"
                 THEN [thread EXCEPT !.full = n = BufLen]
                 ELSE Advance(sockets, thread.ready, thread.pos + 1)
    /\ UNCHANGED <<sockets, owner, running>>

ReadBlock ==
    /\ thread.at = "read" /\ conn[Client].wire # <<>>
    /\ \E block \in {Block} :
         /\ conn' = [conn EXCEPT ![Client].wire = SubSeq(@, Len(block) + 1, Len(@))]
         /\ \E p \in {Parsed(Fd, block)} : TakeBlock(Len(block), p)

\* Mutant: the thread waits for its clients to go.
Exit_Drained ==
    /\ thread.at = "select" /\ ~ running /\ sockets = <<>>
    /\ thread' = [thread EXCEPT !.at = "exited"]
    /\ UNCHANGED <<conn, sockets, owner, data, inPacket, escape, running, handled, paced>>

\* The loop ends when the process stops; all descriptors are closed.
Exit ==
    /\ thread.at = "select" /\ ~ running
    /\ thread' = [thread EXCEPT !.at = "exited"]
    /\ conn' = [c \in Conns |-> IF \E f \in ToSet(sockets) : owner[f] = c
                                THEN [conn[c] EXCEPT !.state = "gone", !.wire = <<>>] ELSE conn[c]]
    /\ sockets' = <<>>
    /\ owner' = [f \in Fds |-> Nobody]
    /\ data' = [f \in Fds |-> <<>>]
    /\ UNCHANGED <<inPacket, escape, running, handled, paced>>

ServerThread ==
    \/ \E c \in Conns : Accept(c)
    \/ Select \/ ReadEnd \/ ReadError \/ ReadBlock \/ Exit

StreamNext ==
    \/ \E c \in Conns : Connect(c) \/ SendByte(c) \/ Shut(c) \/ Break(c)
    \/ Stop
    \/ ServerThread

----------------------------------------------------------------------------
(* Properties. *)

HandledOf(c) ==
    FlattenSeq([i \in DOMAIN handled |->
        IF handled[i].conn = c THEN <<handled[i].payload>> ELSE <<>>])

\* However a stream is cut into blocks, and whatever is dropped, closed or
\* left over from an earlier connection: what process_osc_data gets of a
\* client that sends nothing between packets are whole packets, each at most
\* once and in their order.
WholePackets ==
    \A c \in Conns \ Junk :
        LET got == HandledOf(c) IN
        \E place \in [DOMAIN got -> DOMAIN Payloads[c]] :
            /\ \A i \in DOMAIN place : got[i] = Payloads[c][place[i]]
            /\ \A i, j \in DOMAIN place : i < j => place[i] < place[j]

\* The bytes of the connection that the thread has not read.
Unread(c) == Len(conn[c].wire) + Len(conn[c].tosend)

\* The number of packets that were read to their end.
ReadPackets(c) ==
    Cardinality({i \in 1 .. Len(Stream[c]) - Unread(c) : Stream[c][i] = END}) \div 2

\* No packet is lost of a client whose packets do not meet in a block, unless
\* the connection broke or its descriptor was closed in the middle of a packet.
Lossless ==
    \A c \in paced \ Junk :
        conn[c].state \in {"open", "shut"} => Len(HandledOf(c)) = ReadPackets(c)

\* The thread waits in read for one client alone.
Stuck ==
    /\ thread.at = "read"
    /\ conn[Client].wire = <<>> /\ conn[Client].state = "open"

\* While it waits for one client, that client has filled the last block, sent
\* something between packets or had two packets meet in a block.  The first
\* and the last keep to the protocol, and still keep the others from being
\* served; no client does so whose packets come one by one in short blocks.
StuckHasCause == Stuck => thread.full \/ Client \notin paced \/ Client \in Junk

\* Only a client that breaks the protocol stops the thread.  Does not hold.
StuckOnlyByJunk == Stuck => Client \in Junk

\* A connection that its client has closed is released, and the thread ends
\* when the process stops, unless it waits for one client.
Progress ==
    /\ \A c \in Conns : conn[c].state = "shut" ~> conn[c].state = "gone" \/ Stuck
    /\ ~ running ~> thread.at = "exited" \/ Stuck
=============================================================================
