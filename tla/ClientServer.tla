----------------------------- MODULE ClientServer -----------------------------
(***************************************************************************)
(* The client and the server of "8 - ClientServer": one connection at a    *)
(* time, over which every write sends one message of MAX_BUF_SIZE bytes.   *)
(* A read asks for as many, but the connection is a stream of bytes: it    *)
(* may return less, nobody looks at how much it was or reads again for the *)
(* rest, and from then on a read need not be a message.  The client sends  *)
(* a command, follows the sub-protocol of ls, get or put, and reads one    *)
(* response; nothing in a message says what it belongs to, so both sides   *)
(* must agree on how many messages each command takes.  A short read, a    *)
(* file that cannot be opened, on either side, and a file that ends in the *)
(* text of the end marker are where they may stop agreeing.  The client    *)
(* may be killed at any point; the server then reads an end of file and    *)
(* accepts the next client.                                                *)
(*                                                                         *)
(* A message is its kind, the command it carries and the number of the     *)
(* command it answers (0 for none); texts and file contents are left out,  *)
(* the number of lines is not.  A short read leaves the rest of a message  *)
(* at the head of its channel; a message is cut in two pieces at most.     *)
(***************************************************************************)
EXTENDS Integers, Sequences

CONSTANTS
  Cap,        \* messages a socket buffers in one direction
  MaxLines,   \* bound: lines of a file or of a listing
  MaxCmds,    \* bound: commands typed
  MaxClients  \* bound: clients, one after the other

ASSUME ProtocolAssumption ==
  /\ Cap \in Nat \ {0} /\ MaxLines \in Nat
  /\ MaxCmds \in Nat /\ MaxClients \in Nat \ {0}

VARIABLES
  client,    \* where the client is, its command, lines left to send
  server,    \* the same of the server, and the number of the command it serves
  c2s, s2c,  \* messages on their way
  asked, clients,   \* commands typed, clients so far
  answer,    \* history: number of the command the last response was for
  total, received,  \* history: lines of the current transfer, lines that arrived
  failed,    \* history: who could not go on, on this connection: a side that could not
             \* open a file or a path, or a last line with the text of the end marker
  torn       \* history: a read on this connection returned less than a message

vars == <<client, server, c2s, s2c, asked, clients, answer, total, received, failed, torn>>

(* "run": mkdir, rmdir, rm, cd, pwd, help and unknown commands *)
Command == {"run", "ls", "get", "put"}
Msg(kind) == [kind |-> kind, cmd |-> "none", of |-> 0]
Ask(c) == [kind |-> "cmd", cmd |-> c, of |-> asked + 1]
Message == [kind : {"cmd", "ok", "line", "eos", "text", "response", "rest"},
            cmd : Command \cup {"none"}, of : 0..MaxCmds]
Rest == Msg("rest")

ClientPC == {"prompt", "ls", "getFirst", "getLines", "putOpen", "putLines", "await", "dead"}
ServerPC == {"accept", "read", "lsLines", "getOpen", "getLines", "putFirst", "putOpen",
             "putLines", "respond", "dead"}

TypeOK ==
  /\ client \in [pc : ClientPC, cmd : Command, left : 0..MaxLines]
  /\ server \in [pc : ServerPC, cmd : Command, left : 0..MaxLines, of : 0..MaxCmds]
  /\ c2s \in Seq(Message) /\ Len(c2s) <= Cap + 1
  /\ s2c \in Seq(Message) /\ Len(s2c) <= Cap + 1
  /\ asked \in 0..MaxCmds /\ clients \in 0..MaxClients
  /\ answer \in 0..MaxCmds
  /\ total \in 0..MaxLines /\ received \in 0..MaxLines+1
  /\ failed \subseteq {"client", "server", "text"} /\ torn \in BOOLEAN

Init ==
  /\ client = [pc |-> "dead", cmd |-> "run", left |-> 0]
  /\ server = [pc |-> "accept", cmd |-> "run", left |-> 0, of |-> 0]
  /\ c2s = <<>> /\ s2c = <<>>
  /\ asked = 0 /\ clients = 0 /\ answer = 0
  /\ total = 0 /\ received = 0 /\ failed = {} /\ torn = FALSE

ClientAt(pc) == client.pc = pc
ServerAt(pc) == server.pc = pc
ClientGoes(pc) == client' = [client EXCEPT !.pc = pc]
ServerGoes(pc) == server' = [server EXCEPT !.pc = pc]

(* write by the client; write by the server, lost if the client is dead.  The *)
(* rest of a message that is being read takes no room.                       *)
Room(q) == Len(q) < IF q # <<>> /\ Head(q) = Rest THEN Cap + 1 ELSE Cap
ClientWrites(m) == Room(c2s) /\ c2s' = Append(c2s, m)
ServerWrites(m) ==
  IF ClientAt("dead") THEN UNCHANGED s2c ELSE Room(s2c) /\ s2c' = Append(s2c, m)

(* The read of up to MAX_BUF_SIZE bytes that are there: it finds the text m   *)
(* and leaves `rest'.  Cut short, it finds the message's text if that came   *)
(* in full, or some text made of a piece and of what the buffer held before; *)
(* the next read takes up the rest, alone or with a piece of what follows.   *)
AnyText == {Msg(kind) : kind \in {"line", "ok", "eos"}}
Texts(q) == IF q = <<>> THEN {} ELSE {Head(q)} \cup AnyText
ReadsWhole(q, m, rest) == Head(q) # Rest /\ m = Head(q) /\ rest = Tail(q)
ReadsShort(q, m, rest) ==
  \/ Head(q) # Rest /\ rest = <<Rest>> \o Tail(q)
  \/ /\ Head(q) = Rest /\ m # Rest
     /\ \/ rest = Tail(q)
        \/ Len(q) > 1 /\ rest = <<Rest>> \o Tail(Tail(q))
ClientReads(m) ==
  \/ ReadsWhole(s2c, m, s2c') /\ UNCHANGED torn
  \/ ReadsShort(s2c, m, s2c') /\ torn' = TRUE
ServerReads(m) ==
  \/ ReadsWhole(c2s, m, c2s') /\ UNCHANGED torn
  \/ ReadsShort(c2s, m, c2s') /\ torn' = TRUE

(* A line that has arrived is written to the file or the screen; the count   *)
(* is capped.                                                                *)
LineArrives == received' = IF received > MaxLines THEN received ELSE received + 1

Fails(who) == failed' = failed \cup {who}

-----------------------------------------------------------------------------
(* The client: the loop of main *)
Type(c) ==
  /\ ClientAt("prompt") /\ asked < MaxCmds
  /\ ClientWrites(Ask(c))
  /\ asked' = asked + 1
  /\ client' = [pc |-> CASE c = "ls" -> "ls" [] c = "get" -> "getFirst"
                         [] c = "put" -> "putOpen" [] OTHER -> "await",
                cmd |-> c, left |-> 0]
  /\ total' = 0 /\ received' = 0
  /\ UNCHANGED <<server, s2c, clients, answer, failed, torn>>

Await ==
  /\ ClientAt("await")
  /\ \E m \in Texts(s2c) : ClientReads(m) /\ answer' = m.of
  /\ ClientGoes("prompt")
  /\ UNCHANGED <<server, c2s, asked, clients, total, received, failed>>

(* client_ls: print until ENDOFSTREAM, which only a listing that succeeds has. *)
(* Faulty form: one message of the listing is all that is read.              *)
ClientLsOne ==
  /\ ClientAt("ls")
  /\ \E m \in Texts(s2c) : ClientReads(m)
  /\ ClientGoes("await")
  /\ UNCHANGED <<server, c2s, asked, clients, answer, total, received, failed>>
ClientLs ==
  /\ ClientAt("ls")
  /\ \E m \in Texts(s2c) :
       /\ ClientReads(m)
       /\ IF m.kind = "eos" THEN ClientGoes("await") /\ UNCHANGED received
                            ELSE LineArrives /\ UNCHANGED client
  /\ UNCHANGED <<server, c2s, asked, clients, answer, total, failed>>

(* client_get: anything but FILEOK ends it, and so does a local file that    *)
(* cannot be created.                                                        *)
ClientGetFirst ==
  /\ ClientAt("getFirst")
  /\ \E m \in Texts(s2c) :
       /\ ClientReads(m)
       /\ \/ m.kind # "ok" /\ ClientGoes("await") /\ UNCHANGED failed
          \/ m.kind = "ok" /\ ClientGoes("await") /\ Fails("client")
          \/ m.kind = "ok" /\ ClientGoes("getLines") /\ UNCHANGED failed
  /\ UNCHANGED <<server, c2s, asked, clients, answer, total, received>>

ClientGetLines ==
  /\ ClientAt("getLines")
  /\ \E m \in Texts(s2c) :
       /\ ClientReads(m)
       /\ IF m.kind = "eos" THEN ClientGoes("await") /\ UNCHANGED received
                            ELSE LineArrives /\ UNCHANGED client
  /\ UNCHANGED <<server, c2s, asked, clients, answer, total, failed>>

(* client_put: an error text instead of FILEOK if the file cannot be opened. *)
ClientPutOpen ==
  /\ ClientAt("putOpen")
  /\ \/ ClientWrites(Msg("text")) /\ ClientGoes("await") /\ UNCHANGED total
     \/ \E n \in 0..MaxLines :
          /\ ClientWrites(Msg("ok"))
          /\ client' = [client EXCEPT !.pc = "putLines", !.left = n]
          /\ total' = n
  /\ UNCHANGED <<server, s2c, asked, clients, answer, received, failed, torn>>

(* The lines of the file and ENDOFSTREAM; the last line may happen to be     *)
(* that text.                                                                *)
ClientPutLines ==
  /\ ClientAt("putLines")
  /\ \/ /\ client.left > 0 /\ client' = [client EXCEPT !.left = @ - 1]
        /\ \/ ClientWrites(Msg("line")) /\ UNCHANGED failed
           \/ client.left = 1 /\ ClientWrites(Msg("eos")) /\ Fails("text")
     \/ /\ client.left = 0 /\ ClientWrites(Msg("eos"))
        /\ ClientGoes("await") /\ UNCHANGED failed
  /\ UNCHANGED <<server, s2c, asked, clients, answer, total, received, torn>>

(* The client is killed: what it sent may still be read or may be lost.      *)
ClientDies ==
  /\ ~ClientAt("dead")
  /\ ClientGoes("dead")
  /\ s2c' = <<>> /\ c2s' \in {c2s, <<>>}
  /\ UNCHANGED <<server, asked, clients, answer, total, received, failed, torn>>

-----------------------------------------------------------------------------
(* The server: accept_new_connection *)
Accept ==
  /\ ServerAt("accept") /\ clients < MaxClients
  /\ clients' = clients + 1
  /\ client' = [client EXCEPT !.pc = "prompt"] /\ ServerGoes("read")
  /\ c2s' = <<>> /\ s2c' = <<>>
  /\ answer' = asked /\ total' = 0 /\ received' = 0 /\ failed' = {} /\ torn' = FALSE
  /\ UNCHANGED asked

(* The loop of main: whatever arrives is taken for a command, a line of a    *)
(* file too.                                                                 *)
Dispatch(c, of) ==
  \E n \in 0..MaxLines :
    /\ server' = [pc |-> CASE c = "ls" -> "lsLines" [] c = "get" -> "getOpen"
                           [] c = "put" -> "putFirst" [] OTHER -> "respond",
                  cmd |-> c, left |-> IF c \in {"ls", "get"} THEN n ELSE 0, of |-> of]
    /\ total' = IF c \in {"ls", "get"} THEN n ELSE total

ServerRead ==
  /\ ServerAt("read")
  /\ \E m \in Texts(c2s), c \in Command :
       /\ ServerReads(m)
       /\ m.kind = "cmd" => m.cmd = c
       /\ m.kind \notin {"cmd", "line"} => c = "run"
       /\ Dispatch(c, m.of)
  /\ UNCHANGED <<client, s2c, asked, clients, answer, received, failed>>

(* read returns 0: "client died".  If the connection was reset it returns -1, *)
(* which is taken for an empty command, and the response ends the server.     *)
(* Faulty form: the end of file is taken for an empty command as well.       *)
ServerReadEndMissed ==
  /\ ServerAt("read") /\ ClientAt("dead") /\ c2s = <<>>
  /\ ServerGoes("respond")
  /\ UNCHANGED <<client, c2s, s2c, asked, clients, answer, total, received, failed, torn>>
ServerReadEnd ==
  /\ ServerAt("read") /\ ClientAt("dead") /\ c2s = <<>>
  /\ \E pc \in {"accept", "dead"} : ServerGoes(pc)
  /\ UNCHANGED <<client, c2s, s2c, asked, clients, answer, total, received, failed, torn>>

(* server_ls: no ENDOFSTREAM if the path is not found, and main sends an     *)
(* empty response.                                                           *)
ServerLs ==
  /\ ServerAt("lsLines")
  /\ \/ /\ server.left = total /\ ServerGoes("respond")
        /\ Fails("server") /\ UNCHANGED s2c
     \/ /\ UNCHANGED failed
        /\ IF server.left > 0
           THEN ServerWrites(Msg("line")) /\ server' = [server EXCEPT !.left = @ - 1]
           ELSE ServerWrites(Msg("eos")) /\ ServerGoes("respond")
  /\ UNCHANGED <<client, c2s, asked, clients, answer, total, received, torn>>

(* server_get; its response is all there is if the file cannot be opened.    *)
ServerGetOpen ==
  /\ ServerAt("getOpen")
  /\ \/ ServerGoes("respond") /\ Fails("server") /\ UNCHANGED s2c
     \/ ServerWrites(Msg("ok")) /\ ServerGoes("getLines") /\ UNCHANGED failed
  /\ UNCHANGED <<client, c2s, asked, clients, answer, total, received, torn>>

(* Faulty form: no ENDOFSTREAM after the last line. *)
ServerGetLinesNoEnd ==
  /\ ServerAt("getLines")
  /\ IF server.left > 0
     THEN ServerWrites(Msg("line")) /\ server' = [server EXCEPT !.left = @ - 1]
     ELSE ServerGoes("respond") /\ UNCHANGED s2c
  /\ UNCHANGED <<client, c2s, asked, clients, answer, total, received, failed, torn>>
ServerGetLines ==
  /\ ServerAt("getLines")
  /\ \/ /\ server.left > 0 /\ server' = [server EXCEPT !.left = @ - 1]
        /\ \/ ServerWrites(Msg("line")) /\ UNCHANGED failed
           \/ server.left = 1 /\ ServerWrites(Msg("eos")) /\ Fails("text")
     \/ /\ server.left = 0 /\ ServerWrites(Msg("eos"))
        /\ ServerGoes("respond") /\ UNCHANGED failed
  /\ UNCHANGED <<client, c2s, asked, clients, answer, total, received, torn>>

(* server_put: after anything but FILEOK an empty response; if the file      *)
(* cannot be created, the lines on their way are left for main to read.      *)
ServerPutFirst ==
  /\ ServerAt("putFirst")
  /\ \E m \in Texts(c2s) :
       ServerReads(m) /\ ServerGoes(IF m.kind = "ok" THEN "putOpen" ELSE "respond")
  /\ UNCHANGED <<client, s2c, asked, clients, answer, total, received, failed>>

ServerPutOpen ==
  /\ ServerAt("putOpen")
  /\ \/ ServerGoes("respond") /\ Fails("server")
     \/ ServerGoes("putLines") /\ UNCHANGED failed
  /\ UNCHANGED <<client, c2s, s2c, asked, clients, answer, total, received, torn>>

(* Faulty form: the line that was just read is compared too late. *)
ServerPutLinesSkip ==
  /\ ServerAt("putLines")
  /\ \E m \in Texts(c2s) :
       /\ ServerReads(m)
       /\ IF m.kind = "eos" THEN ServerGoes("respond") ELSE UNCHANGED server
       /\ LineArrives
  /\ UNCHANGED <<client, s2c, asked, clients, answer, total, failed>>
ServerPutLines ==
  /\ ServerAt("putLines")
  /\ \E m \in Texts(c2s) :
       /\ ServerReads(m)
       /\ IF m.kind = "eos" THEN ServerGoes("respond") /\ UNCHANGED received
                            ELSE LineArrives /\ UNCHANGED server
  /\ UNCHANGED <<client, s2c, asked, clients, answer, total, failed>>

(* The end of file in server_put: before the first message it is an empty     *)
(* answer to FILEOK; in the loop the last line is written again and again.    *)
ServerPutEnd ==
  /\ ClientAt("dead") /\ c2s = <<>>
  /\ \/ ServerAt("putFirst") /\ ServerGoes("respond") /\ UNCHANGED received
     \/ ServerAt("putLines") /\ LineArrives /\ UNCHANGED server
  /\ UNCHANGED <<client, c2s, s2c, asked, clients, answer, total, failed, torn>>

(* The write of main that ends every command. *)
Respond ==
  /\ ServerAt("respond")
  /\ ServerWrites([kind |-> "response", cmd |-> "none", of |-> server.of])
  /\ ServerGoes("read")
  /\ UNCHANGED <<client, c2s, asked, clients, answer, total, received, failed, torn>>

(* A write to a connection that is gone ends the server (SIGPIPE).           *)
BrokenPipe ==
  /\ ClientAt("dead")
  /\ server.pc \in {"lsLines", "getOpen", "getLines", "respond"}
  /\ ServerGoes("dead")
  /\ UNCHANGED <<client, c2s, s2c, asked, clients, answer, total, received, failed, torn>>

-----------------------------------------------------------------------------
ClientStep == Await \/ ClientLs \/ ClientGetFirst \/ ClientGetLines
              \/ ClientPutOpen \/ ClientPutLines
ServerStep == ServerRead \/ ServerReadEnd \/ ServerLs \/ ServerGetOpen \/ ServerGetLines
              \/ ServerPutFirst \/ ServerPutOpen \/ ServerPutLines \/ ServerPutEnd \/ Respond

Next == (\E c \in Command : Type(c)) \/ ClientStep \/ ClientDies
        \/ Accept \/ ServerStep \/ BrokenPipe

(* Each side goes on while it can; nobody has to type, connect or die.       *)
Spec == Init /\ [][Next]_vars /\ WF_vars(ClientStep) /\ WF_vars(ServerStep)

-----------------------------------------------------------------------------
(* Nothing failed on this connection and no read was cut short. *)
Clean == failed = {} /\ ~torn

(* In step, as long as every read returned a whole message: but for the cases *)
(* `failed' records, a client back at its prompt has read exactly what the   *)
(* server sent for its command, and the server has read exactly what it was  *)
(* sent: no message is left on either side, and the response was the one to  *)
(* this command.  One short read, of either side, is enough to end this, and *)
(* the code does not notice.  (And everything is of its type.)               *)
InStep ==
  /\ TypeOK
  /\ ClientAt("prompt") /\ Clean =>
       c2s = <<>> /\ s2c = <<>> /\ ServerAt("read") /\ answer = asked

(* A transfer that ended well, with every read on the connection so far a     *)
(* whole message, is whole: each line sent is received once, however the two *)
(* sides' reads and writes interleave.                                       *)
WholeTransfer ==
  ClientAt("prompt") /\ Clean => received = total

(* The client waits for the server, the server for the client. *)
Starved ==
  /\ c2s = <<>> /\ s2c = <<>>
  /\ client.pc \in {"ls", "getFirst", "getLines", "await"}
  /\ server.pc \in {"read", "putFirst", "putLines"}

(* Neither side waits for a message the other never sends, as long as the     *)
(* server could open what it was asked for and reads were whole: what went   *)
(* wrong on the client's side only, or an end marker too many, leaves more   *)
(* messages than expected, never fewer.                                      *)
NeverStarved == Starved => "server" \in failed \/ torn

(* A command is answered: the client gets back to its prompt, unless a file  *)
(* could not be opened or a read was cut short; small buffers never make the *)
(* two wait for each other.                                                  *)
Answered ==
  (~ClientAt("prompt") /\ Clean) ~> (client.pc \in {"prompt", "dead"} \/ ~Clean)

(* The death of a client during anything but a put does not keep the server  *)
(* from its next client (or ends it, by SIGPIPE), out of step or not.        *)
FreedByDeath ==
  (ClientAt("dead") /\ server.cmd # "put")
    ~> (server.pc \in {"accept", "dead"} \/ server.cmd = "put")

=============================================================================
