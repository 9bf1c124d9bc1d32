-------------------------------- MODULE Net --------------------------------
(***************************************************************************)
(* Sockets: the listen table (net/port_table.rs), the socket table         *)
(* (net/socket.rs), TCP and UDP files over it (net/tcp.rs, net/udp.rs),    *)
(* the packet handler (net/mod.rs) and the calls connect, listen and       *)
(* accept (syscall/net.rs).                                                *)
(*                                                                         *)
(* Packets are taken from the device only inside accept and read, which    *)
(* call the handler in a loop without giving up the processor: at most one *)
(* process is in such a call, and packets of any peer may come first.      *)
(* The contents of a packet tell its sender and its place in what they     *)
(* send; TCP's sequence numbers are left out.  A descriptor is not shared  *)
(* by fork or dup here, so closing it drops the file.                      *)
(***************************************************************************)
EXTENDS Naturals, Sequences, FiniteSets

CONSTANTS
    NetProcs,   \* processes
    Ports,      \* local ports they listen on
    Peers,      \* remote ends, address and port
    None,       \* an empty slot, nobody
    MaxFiles,   \* bound on the descriptors of a process
    MaxData     \* bound on the messages of a socket's life

(* What a table holds, and the accept or read in progress. *)
Port == [port : Ports, receivable : BOOLEAN, schedule : NetProcs \cup {None}]
Socket == [peer : Peers, lport : Ports, buffers : Seq(Peers \X Nat)]
File == [kind : {"port", "tcp", "udp"}, index : Nat \ {0}]
BusyCall == [proc : NetProcs, call : {"accept", "read"}, index : Nat \ {0}]

ASSUME NetAssumption ==
    /\ MaxFiles \in Nat /\ MaxData \in Nat
    /\ None \notin NetProcs \cup Nat \cup Port \cup Socket \cup File \cup BusyCall

VARIABLES
    listen_table,   \* LISTEN_TABLE: sequence of Port or None
    socket_table,   \* SOCKET_TABLE: sequence of Socket or None
    fd_table,       \* of each process: its PortFd, TCP and UDP files or None
    busy,           \* the accept or read in progress or None
    panic,          \* a kernel panic: "" or its cause
    sent,           \* history: messages that came for a socket since it was made
    got             \* history: messages its reader took

netVars == <<listen_table, socket_table, fd_table, busy, panic, sent, got>>

NetInit ==
    /\ listen_table = <<>> /\ socket_table = <<>>
    /\ fd_table = [p \in NetProcs |-> <<>>]
    /\ busy = None /\ panic = ""
    /\ sent = [k \in Peers \X Ports |-> <<>>] /\ got = sent

Live(table) == {i \in DOMAIN table : table[i] # None}

(* The first empty slot of a table, or a new one: listen, add_socket and   *)
(* alloc_fd.                                                               *)
Slot(table) == CHOOSE i \in 1 .. Len(table) + 1 :
                  /\ i \notin Live(table)
                  /\ \A j \in 1 .. i - 1 : j \in Live(table)
Put(table, x) == IF Slot(table) > Len(table) THEN Append(table, x)
                 ELSE [table EXCEPT ![Slot(table)] = x]

(* Slip: the peer is not compared. *)
AnyPeer(peer, lport) ==
    LET hits == {i \in Live(socket_table) : socket_table[i].lport = lport}
    IN  IF hits = {} THEN None ELSE CHOOSE i \in hits : \A j \in hits : i <= j

get_socket(peer, lport) ==
    LET hits == {i \in Live(socket_table) :
                    socket_table[i].peer = peer /\ socket_table[i].lport = lport}
    IN  IF hits = {} THEN None ELSE CHOOSE i \in hits : \A j \in hits : i <= j

(* UDP::new or TCP::new and its file: add_socket refuses a second socket   *)
(* of the same ends, and the expect on it fails.                           *)
open_socket(p, kind, peer, lport) ==
    IF get_socket(peer, lport) # None
      THEN panic' = "can't add socket" /\ UNCHANGED <<socket_table, fd_table, sent, got>>
      ELSE /\ socket_table' = Put(socket_table, [peer |-> peer, lport |-> lport, buffers |-> <<>>])
           /\ fd_table' = [fd_table EXCEPT ![p] =
                              Put(@, [kind |-> kind, index |-> Slot(socket_table)])]
           /\ UNCHANGED <<panic, sent, got>>

Free(p) == busy = None /\ panic = "" /\ Slot(fd_table[p]) <= MaxFiles
-----------------------------------------------------------------------------
sys_connect(p, peer, lport) ==
    /\ Free(p)
    /\ open_socket(p, "udp", peer, lport)
    /\ UNCHANGED <<listen_table, busy>>

(* sys_listen: the same port may be listened on more than once. *)
sys_listen(p, port) ==
    /\ Free(p)
    /\ listen_table' = Put(listen_table, [port |-> port, receivable |-> FALSE, schedule |-> None])
    /\ fd_table' = [fd_table EXCEPT ![p] =
                       Put(@, [kind |-> "port", index |-> Slot(listen_table)])]
    /\ UNCHANGED <<socket_table, busy, panic, sent, got>>

(* sys_accept takes any number the program gives, not a descriptor: the    *)
(* slot of the caller's port, of another one's or of nobody's, an old slot *)
(* that was given away since included.  A number of no port fails an       *)
(* assertion of accept.                                                    *)
sys_accept(p, i) ==
    /\ Free(p)
    /\ \/ /\ i \notin Live(listen_table)
          /\ panic' = "assert" /\ UNCHANGED <<listen_table, busy>>
       \/ /\ i \in Live(listen_table)
          /\ listen_table' = [listen_table EXCEPT ![i].receivable = TRUE, ![i].schedule = p]
          /\ busy' = [proc |-> p, call |-> "accept", index |-> i]
          /\ UNCHANGED panic
    /\ UNCHANGED <<socket_table, fd_table, sent, got>>

(* The loop of sys_accept ends once its port has been given a connection. *)
AcceptReturns ==
    /\ busy # None /\ busy.call = "accept" /\ panic = ""
    /\ ~listen_table[busy.index].receivable
    /\ busy' = None
    /\ UNCHANGED <<listen_table, socket_table, fd_table, panic, sent, got>>

(* read of a TCP or UDP file *)
ReadSocket(p, fd) ==
    /\ busy = None /\ panic = "" /\ fd_table[p][fd].kind # "port"
    /\ busy' = [proc |-> p, call |-> "read", index |-> fd_table[p][fd].index]
    /\ UNCHANGED <<listen_table, socket_table, fd_table, panic, sent, got>>

(* pop_data.  The reader gets the message, or as much of it as fits in its *)
(* buffer; the rest of it is dropped.                                      *)
ReadReturns ==
    /\ busy # None /\ busy.call = "read" /\ panic = ""
    /\ LET s == socket_table[busy.index]
       IN  /\ s # None /\ s.buffers # <<>>
           /\ socket_table' = [socket_table EXCEPT ![busy.index].buffers = Tail(@)]
           /\ got' = [got EXCEPT ![<<s.peer, s.lport>>] = Append(@, Head(s.buffers))]
    /\ busy' = None
    /\ UNCHANGED <<listen_table, fd_table, panic, sent>>

(* check_accept and accept_connection: the first port that waits. *)
check_accept(port, peer) ==
    LET ready == {i \in Live(listen_table) :
                     listen_table[i].port = port /\ listen_table[i].receivable}
        i == CHOOSE k \in ready : \A j \in ready : k <= j
    IN  /\ ready # {}
        /\ listen_table' = [listen_table EXCEPT ![i].receivable = FALSE, ![i].schedule = None]
        /\ open_socket(listen_table[i].schedule, "tcp", peer, port)

(* push_data *)
push_data(peer, lport, message) ==
    LET i == get_socket(peer, lport)
    IN  /\ i # None
        /\ socket_table' = [socket_table EXCEPT ![i].buffers = Append(@, message)]
        /\ sent' = [sent EXCEPT ![<<peer, lport>>] = Append(@, message)]
        /\ UNCHANGED <<listen_table, fd_table, panic, got>>

(* net_interrupt_handler: a SYN goes to a waiting port.  The data of any   *)
(* other TCP packet, a FIN included, and of a UDP packet go to the socket  *)
(* of its ends, whichever protocol it is of; without one they are dropped. *)
(* A pure acknowledgment, as an answer to ARP, changes nothing.            *)
net_interrupt_handler ==
    /\ busy # None /\ panic = ""
    /\ \/ busy.call = "accept" /\ listen_table[busy.index].receivable
       \/ busy.call = "read" /\ socket_table[busy.index].buffers = <<>>
    /\ \E peer \in Peers, port \in Ports :
          \/ check_accept(port, peer)
          \/ /\ Len(sent[<<peer, port>>]) < MaxData
             /\ push_data(peer, port, <<peer, Len(sent[<<peer, port>>]) + 1>>)
    /\ UNCHANGED busy

(* sys_close or exit: Drop of PortFd, TCP and UDP empties the slot. *)
Close(p, fd) ==
    LET f == fd_table[p][fd]
        s == socket_table[f.index]
    IN  /\ busy = None /\ panic = ""
        /\ fd_table' = [fd_table EXCEPT ![p][fd] = None]
        /\ \/ f.kind = "port" /\ listen_table' = [listen_table EXCEPT ![f.index] = None]
              /\ UNCHANGED <<socket_table, sent, got>>
           \/ f.kind # "port" /\ socket_table' = [socket_table EXCEPT ![f.index] = None]
              /\ sent' = [sent EXCEPT ![<<s.peer, s.lport>>] = <<>>]
              /\ got' = [got EXCEPT ![<<s.peer, s.lport>>] = <<>>]
              /\ UNCHANGED listen_table
        /\ UNCHANGED <<busy, panic>>

NetNext ==
    \/ \E p \in NetProcs :
          \/ \E port \in Ports : sys_listen(p, port) \/ \E peer \in Peers : sys_connect(p, peer, port)
          \/ \E i \in 1 .. Len(listen_table) + 1 : sys_accept(p, i)
          \/ \E fd \in Live(fd_table[p]) : ReadSocket(p, fd) \/ Close(p, fd)
    \/ AcceptReturns \/ ReadReturns \/ net_interrupt_handler

NetSpec == NetInit /\ [][NetNext]_netVars
-----------------------------------------------------------------------------
(* Type invariant of the tables, the descriptors and the histories. *)
NetTypeOK ==
    /\ listen_table \in Seq(Port \cup {None}) /\ socket_table \in Seq(Socket \cup {None})
    /\ fd_table \in [NetProcs -> Seq(File \cup {None})]
    /\ busy \in BusyCall \cup {None} /\ panic \in {"", "assert", "can't add socket"}
    /\ sent \in [Peers \X Ports -> Seq(Peers \X Nat)]
    /\ got \in [Peers \X Ports -> Seq(Peers \X Nat)]

Files == UNION {{fd_table[p][fd] : fd \in Live(fd_table[p])} : p \in NetProcs}
Sockets == {f \in Files : f.kind # "port"}

(* The tables and the descriptors agree, however slots are reused: every   *)
(* live slot belongs to one open file, and every open file has a live      *)
(* slot; no two sockets have the same ends.  The assertions on indices in  *)
(* socket.rs therefore never fail, and those of port_table.rs only for a   *)
(* number that is the slot of no open port.                                *)
SlotsExact ==
    /\ Live(socket_table) = {f.index : f \in Sockets}
    /\ Live(listen_table) = {f.index : f \in Files \ Sockets}
    /\ Cardinality(Live(socket_table)) + Cardinality(Live(listen_table))
         = Cardinality(UNION {{p} \X Live(fd_table[p]) : p \in NetProcs})
    /\ \A i, j \in Live(socket_table) :
          <<socket_table[i].peer, socket_table[i].lport>>
            = <<socket_table[j].peer, socket_table[j].lport>> => i = j

(* Messages of a peer reach the socket connected to it, all of them, once  *)
(* and in the order they came, and no other: an old socket in the same     *)
(* slot or on the same port leaves nothing behind.                         *)
SocketsInOrder ==
    \A i \in Live(socket_table) :
        LET k == <<socket_table[i].peer, socket_table[i].lport>>
        IN  sent[k] = got[k] \o socket_table[i].buffers

(* The port that accept was called for, whoever listens on it, waits and   *)
(* no other does, and it waits for the caller: a process that is not in    *)
(* accept is never given a connection.                                     *)
OneAcceptor ==
    \A i \in Live(listen_table) : listen_table[i].receivable =>
        /\ busy # None /\ busy.call = "accept" /\ busy.index = i
        /\ listen_table[i].schedule = busy.proc

(* However slots of the tables are reused, every live slot belongs to one  *)
(* open file and every open socket or port has a live slot, whatever       *)
(* numbers are passed to accept; only a process that is in accept is given *)
(* a connection, on the port it named, which may be another process's; and *)
(* the messages of a peer reach the socket connected to it, all of them,   *)
(* once, in the order they came, and no other.                             *)
SocketsExact == NetTypeOK /\ SlotsExact /\ OneAcceptor /\ SocketsInOrder
=============================================================================
