------------------------- MODULE ClientServerProofs -------------------------
(***************************************************************************)
(* Proofs about the client and the server, for buffers, files, numbers of  *)
(* commands and of clients of any size: they stay in step and transfers    *)
(* are whole while nothing failed, and neither starves as long as the      *)
(* server could open what it was asked for.                                *)
(***************************************************************************)
EXTENDS ClientServer, SequenceTheorems, TLAPS

USE ProtocolAssumption

(* What is left of a channel when its head is taken, and when a message is  *)
(* put behind it.                                                           *)
LEMMA TailOf ==
  ASSUME NEW S, NEW q \in Seq(S), q # <<>>
  PROVE  /\ Tail(q) \in Seq(S) /\ Head(q) \in S /\ Head(q) = q[1]
         /\ Len(q) \in Nat /\ Len(q) >= 1 /\ Len(Tail(q)) = Len(q) - 1
         /\ \A k \in 1..Len(q)-1 : Tail(q)[k] = q[k+1]
  OBVIOUS

(* What a message put at the end of a channel changes.                       *)
LEMMA AppendOf ==
  ASSUME NEW S, NEW q \in Seq(S), NEW m \in S
  PROVE  /\ Append(q, m) \in Seq(S) /\ Append(q, m) # <<>>
         /\ Len(q) \in Nat /\ Len(Append(q, m)) = Len(q) + 1
         /\ \A k \in 1..Len(q) : Append(q, m)[k] = q[k]
         /\ Append(q, m)[Len(q) + 1] = m
  OBVIOUS

(* A channel is empty when its length is zero.                               *)
LEMMA EmptyOf ==
  ASSUME NEW S, NEW q \in Seq(S)
  PROVE  Len(q) \in Nat /\ (q = <<>> <=> Len(q) = 0)
  OBVIOUS

(* The empty channel.                                                        *)
LEMMA NothingOf ==
  ASSUME NEW S, NEW q, q = <<>>
  PROVE  q \in Seq(S) /\ Len(q) = 0
  OBVIOUS

(* Types of the messages. *)
LEMMA MessageTypes ==
  /\ \A kind \in {"ok", "line", "eos", "text"} : Msg(kind) \in Message
  /\ \A c \in Command : asked \in Nat /\ asked < MaxCmds => Ask(c) \in Message
  /\ \A of \in 0..MaxCmds : [kind |-> "response", cmd |-> "none", of |-> of] \in Message
  BY DEF Msg, Ask, Message, Command

(* A write keeps the channels in their type. *)
LEMMA ChannelTypes ==
  ASSUME TypeOK, NEW m \in Message
  PROVE  /\ ClientWrites(m) => c2s' \in Seq(Message) /\ Len(c2s') <= Cap + 1
         /\ ServerWrites(m) => s2c' \in Seq(Message) /\ Len(s2c') <= Cap + 1
<1> USE DEF TypeOK
<1>0. \A q \in Seq(Message) : Room(q) => Len(q) <= Cap
  BY EmptyOf DEF Room
<1>1. ClientWrites(m) => c2s' \in Seq(Message) /\ Len(c2s') <= Cap + 1
  BY <1>0, AppendOf DEF ClientWrites
<1>2. ServerWrites(m) => s2c' \in Seq(Message) /\ Len(s2c') <= Cap + 1
  <2>1. CASE UNCHANGED s2c
    BY <2>1
  <2>2. CASE Room(s2c) /\ s2c' = Append(s2c, m)
    BY <1>0, <2>2, AppendOf
  <2> QED BY <2>1, <2>2 DEF ServerWrites
<1> QED BY <1>1, <1>2

(* So does a read, cut short or not.                                         *)
LEMMA RestOf ==
  ASSUME NEW q \in Seq(Message)
  PROVE  <<Rest>> \o q \in Seq(Message) /\ Len(<<Rest>> \o q) = Len(q) + 1
<1>1. Rest \in Message
  BY DEF Rest, Msg, Message
<1>2. <<Rest>> \in Seq(Message) /\ Len(<<Rest>>) = 1
  BY <1>1
<1> QED BY <1>2, ConcatProperties

LEMMA TextTypes ==
  ASSUME NEW q \in Seq(Message), NEW m \in Texts(q)
  PROVE  q # <<>> /\ m \in Message
<1>1. q # <<>> /\ m \in {Head(q)} \cup AnyText
  BY DEF Texts
<1>2. Head(q) \in Message
  BY <1>1, TailOf
<1>3. AnyText \subseteq Message
  BY DEF AnyText, Msg, Message
<1> QED BY <1>1, <1>2, <1>3

LEMMA RestTypes ==
  ASSUME NEW q \in Seq(Message), q # <<>>, Len(q) <= Cap + 1, NEW r, NEW m,
         ReadsWhole(q, m, r) \/ ReadsShort(q, m, r)
  PROVE  r \in Seq(Message) /\ Len(r) <= Cap + 1
<1>1. /\ Tail(q) \in Seq(Message) /\ Len(q) \in Nat /\ Len(Tail(q)) = Len(q) - 1
  BY TailOf
<1>2. CASE r = Tail(q)
  BY <1>1, <1>2
<1>3. CASE r = <<Rest>> \o Tail(q)
  BY <1>1, <1>3, RestOf
<1>4. CASE Len(q) > 1 /\ r = <<Rest>> \o Tail(Tail(q))
  <2>1. Tail(q) # <<>>
    <3>1. Len(Tail(q)) # 0
      BY <1>1, <1>4
    <3> QED BY <1>1, <3>1, EmptyOf
  <2>2. Tail(Tail(q)) \in Seq(Message) /\ Len(Tail(Tail(q))) = Len(Tail(q)) - 1
    BY <1>1, <2>1, TailOf
  <2> QED BY <1>1, <1>4, <2>2, RestOf
<1> QED BY <1>2, <1>3, <1>4 DEF ReadsWhole, ReadsShort

LEMMA ReadTypes ==
  ASSUME TypeOK
  PROVE  /\ \A m \in Texts(s2c) : m \in Message /\
              (ClientReads(m) => /\ s2c' \in Seq(Message) /\ Len(s2c') <= Cap + 1
                                 /\ torn' \in BOOLEAN)
         /\ \A m \in Texts(c2s) : m \in Message /\
              (ServerReads(m) => /\ c2s' \in Seq(Message) /\ Len(c2s') <= Cap + 1
                                 /\ torn' \in BOOLEAN)
<1> USE DEF TypeOK
<1>1. ASSUME NEW m \in Texts(s2c), ClientReads(m)
      PROVE  s2c' \in Seq(Message) /\ Len(s2c') <= Cap + 1 /\ torn' \in BOOLEAN
  BY <1>1, TextTypes, RestTypes DEF ClientReads
<1>2. ASSUME NEW m \in Texts(c2s), ServerReads(m)
      PROVE  c2s' \in Seq(Message) /\ Len(c2s') <= Cap + 1 /\ torn' \in BOOLEAN
  BY <1>2, TextTypes, RestTypes DEF ServerReads
<1> QED BY <1>1, <1>2, TextTypes

(* A read that was not cut short takes the first message of its channel, and *)
(* none before it was.                                                       *)
ClientTakes(m) == s2c # <<>> /\ m = Head(s2c) /\ s2c' = Tail(s2c)
ServerTakes(m) == c2s # <<>> /\ m = Head(c2s) /\ c2s' = Tail(c2s)
LEMMA WholeReads ==
  ASSUME TypeOK, ~torn'
  PROVE  /\ \A m \in Texts(s2c) : ClientReads(m) => m \in Message /\ ~torn /\ ClientTakes(m)
         /\ \A m \in Texts(c2s) : ServerReads(m) => m \in Message /\ ~torn /\ ServerTakes(m)
<1>1. \A m \in Texts(s2c) : ClientReads(m) => m \in Message /\ ~torn /\ ClientTakes(m)
  BY TextTypes DEF ClientReads, ReadsWhole, ClientTakes, TypeOK
<1>2. \A m \in Texts(c2s) : ServerReads(m) => m \in Message /\ ~torn /\ ServerTakes(m)
  BY TextTypes DEF ServerReads, ReadsWhole, ServerTakes, TypeOK
<1> QED BY <1>1, <1>2

(* A line more, another place: the other variables keep theirs. *)
LEMMA FieldTypes ==
  ASSUME TypeOK
  PROVE  /\ LineArrives => received' \in 0..MaxLines+1
         /\ \A pc \in ClientPC : ClientGoes(pc) =>
              client' \in [pc : ClientPC, cmd : Command, left : 0..MaxLines]
         /\ \A pc \in ServerPC : ServerGoes(pc) =>
              server' \in [pc : ServerPC, cmd : Command, left : 0..MaxLines, of : 0..MaxCmds]
         /\ client.left > 0 /\ client' = [client EXCEPT !.left = @ - 1] =>
              client' \in [pc : ClientPC, cmd : Command, left : 0..MaxLines]
         /\ server.left > 0 /\ server' = [server EXCEPT !.left = @ - 1] =>
              server' \in [pc : ServerPC, cmd : Command, left : 0..MaxLines, of : 0..MaxCmds]
<1>1. LineArrives => received' \in 0..MaxLines+1
  BY DEF TypeOK, LineArrives
<1>2. /\ client \in [pc : ClientPC, cmd : Command, left : 0..MaxLines]
      /\ server \in [pc : ServerPC, cmd : Command, left : 0..MaxLines, of : 0..MaxCmds]
  BY DEF TypeOK
<1>3. \A pc \in ClientPC : ClientGoes(pc) =>
        client' \in [pc : ClientPC, cmd : Command, left : 0..MaxLines]
  BY <1>2 DEF ClientGoes
<1>4. \A pc \in ServerPC : ServerGoes(pc) =>
        server' \in [pc : ServerPC, cmd : Command, left : 0..MaxLines, of : 0..MaxCmds]
  BY <1>2 DEF ServerGoes
<1>5. client.left > 0 /\ client' = [client EXCEPT !.left = @ - 1] =>
        client' \in [pc : ClientPC, cmd : Command, left : 0..MaxLines]
  BY <1>2
<1>6. server.left > 0 /\ server' = [server EXCEPT !.left = @ - 1] =>
        server' \in [pc : ServerPC, cmd : Command, left : 0..MaxLines, of : 0..MaxCmds]
  BY <1>2
<1> QED BY <1>1, <1>3, <1>4, <1>5, <1>6

(* What a step does to the fields and to the messages of a channel. *)
LEMMA Fields ==
  ASSUME TypeOK
  PROVE  /\ \A pc : ClientGoes(pc) =>
              client'.pc = pc /\ client'.cmd = client.cmd /\ client'.left = client.left
         /\ \A pc : ServerGoes(pc) =>
              /\ server'.pc = pc /\ server'.cmd = server.cmd
              /\ server'.left = server.left /\ server'.of = server.of
         /\ client' = [client EXCEPT !.left = @ - 1] =>
              client'.pc = client.pc /\ client'.cmd = client.cmd /\ client'.left = client.left - 1
         /\ server' = [server EXCEPT !.left = @ - 1] =>
              /\ server'.pc = server.pc /\ server'.cmd = server.cmd
              /\ server'.left = server.left - 1 /\ server'.of = server.of
         /\ client.left \in 0..MaxLines /\ server.left \in 0..MaxLines
<1>1. /\ client \in [pc : ClientPC, cmd : Command, left : 0..MaxLines]
      /\ server \in [pc : ServerPC, cmd : Command, left : 0..MaxLines, of : 0..MaxCmds]
  BY DEF TypeOK
<1>2. \A pc : ClientGoes(pc) =>
        client'.pc = pc /\ client'.cmd = client.cmd /\ client'.left = client.left
  BY <1>1 DEF ClientGoes
<1>3. \A pc : ServerGoes(pc) =>
        /\ server'.pc = pc /\ server'.cmd = server.cmd
        /\ server'.left = server.left /\ server'.of = server.of
  BY <1>1 DEF ServerGoes
<1>4. client' = [client EXCEPT !.left = @ - 1] =>
        client'.pc = client.pc /\ client'.cmd = client.cmd /\ client'.left = client.left - 1
  BY <1>1
<1>5. server' = [server EXCEPT !.left = @ - 1] =>
        /\ server'.pc = server.pc /\ server'.cmd = server.cmd
        /\ server'.left = server.left - 1 /\ server'.of = server.of
  BY <1>1
<1> QED BY <1>1, <1>2, <1>3, <1>4, <1>5

(* What taking the first message of a channel changes.                       *)
LEMMA Taken ==
  ASSUME NEW q, NEW r, q \in Seq(Message), NEW m, q # <<>>, m = Head(q), r = Tail(q)
  PROVE  /\ m = q[1] /\ Len(q) \in Nat /\ Len(q) >= 1
         /\ Len(r) = Len(q) - 1 /\ (r = <<>> <=> Len(q) = 1)
         /\ \A k \in 1..Len(q)-1 : r[k] = q[k+1]
<1>1. /\ m = q[1] /\ Len(q) \in Nat /\ Len(q) >= 1 /\ Len(r) = Len(q) - 1
      /\ \A k \in 1..Len(q)-1 : r[k] = q[k+1]
      /\ r \in Seq(Message)
  BY TailOf
<1>2. r = <<>> <=> Len(r) = 0
  BY <1>1, EmptyOf
<1> QED BY <1>1, <1>2

(* What putting a message at the end of a channel changes.                   *)
LEMMA Put ==
  ASSUME NEW q, NEW r, q \in Seq(Message), NEW m \in Message, r = Append(q, m)
  PROVE  /\ Len(q) \in Nat /\ (q = <<>> <=> Len(q) = 0)
         /\ Len(r) = Len(q) + 1 /\ r # <<>> /\ r[Len(q) + 1] = m
         /\ \A k \in 1..Len(q) : r[k] = q[k]
  BY AppendOf, EmptyOf

-----------------------------------------------------------------------------
(* Type correctness. *)
LEMMA InitType == Init => TypeOK
<1> SUFFICES ASSUME Init PROVE TypeOK OBVIOUS
<1>1. c2s \in Seq(Message) /\ Len(c2s) <= Cap + 1 /\ s2c \in Seq(Message) /\ Len(s2c) <= Cap + 1
  BY NothingOf DEF Init
<1>2. /\ client \in [pc : ClientPC, cmd : Command, left : 0..MaxLines]
      /\ server \in [pc : ServerPC, cmd : Command, left : 0..MaxLines, of : 0..MaxCmds]
  BY DEF Init, ClientPC, ServerPC, Command
<1>3. /\ asked \in 0..MaxCmds /\ clients \in 0..MaxClients /\ answer \in 0..MaxCmds
      /\ total \in 0..MaxLines /\ received \in 0..MaxLines+1
  <2>1. /\ asked = 0 /\ clients = 0 /\ answer = 0 /\ total = 0 /\ received = 0
    BY DEF Init
  <2> QED BY <2>1
<1>4. failed \subseteq {"client", "server", "text"} /\ torn \in BOOLEAN
  <2>1. failed = {} /\ torn = FALSE
    BY DEF Init
  <2> QED BY <2>1
<1> QED BY <1>1, <1>2, <1>3, <1>4 DEF TypeOK

(* The client's steps keep the types.                                        *)
LEMMA ClientStepType == TypeOK /\ ClientStep => TypeOK'
<1> SUFFICES ASSUME TypeOK, ClientStep PROVE TypeOK' OBVIOUS
<1> USE DEF Fails
<1>1. CASE Await
  <2>1. PICK m \in Texts(s2c) : ClientReads(m) /\ answer' = m.of
    BY <1>1 DEF Await
  <2>2. s2c' \in Seq(Message) /\ Len(s2c') <= Cap + 1 /\ torn' \in BOOLEAN /\ answer' \in 0..MaxCmds
    BY <2>1, ReadTypes DEF Message
  <2> QED BY <1>1, <2>2, FieldTypes DEF Await, TypeOK, ClientPC
<1>2. CASE ClientLs
  <2>1. s2c' \in Seq(Message) /\ Len(s2c') <= Cap + 1 /\ torn' \in BOOLEAN
    BY <1>2, ReadTypes DEF ClientLs
  <2>2. received' \in 0..MaxLines+1
        /\ client' \in [pc : ClientPC, cmd : Command, left : 0..MaxLines]
    BY <1>2, FieldTypes DEF ClientLs, TypeOK, ClientPC
  <2> QED BY <1>2, <2>1, <2>2 DEF ClientLs, TypeOK
<1>3. CASE ClientGetFirst
  <2>1. s2c' \in Seq(Message) /\ Len(s2c') <= Cap + 1 /\ torn' \in BOOLEAN
    BY <1>3, ReadTypes DEF ClientGetFirst
  <2> QED BY <1>3, <2>1, FieldTypes DEF ClientGetFirst, TypeOK, ClientPC
<1>4. CASE ClientGetLines
  <2>1. s2c' \in Seq(Message) /\ Len(s2c') <= Cap + 1 /\ torn' \in BOOLEAN
    BY <1>4, ReadTypes DEF ClientGetLines
  <2>2. received' \in 0..MaxLines+1
        /\ client' \in [pc : ClientPC, cmd : Command, left : 0..MaxLines]
    BY <1>4, FieldTypes DEF ClientGetLines, TypeOK, ClientPC
  <2> QED BY <1>4, <2>1, <2>2 DEF ClientGetLines, TypeOK
<1>5. CASE ClientPutOpen
  <2>1. c2s' \in Seq(Message) /\ Len(c2s') <= Cap + 1
    BY <1>5, ChannelTypes, MessageTypes DEF ClientPutOpen
  <2> QED BY <1>5, <2>1 DEF ClientPutOpen, ClientGoes, TypeOK, ClientPC
<1>6. CASE ClientPutLines
  <2>1. c2s' \in Seq(Message) /\ Len(c2s') <= Cap + 1
    BY <1>6, ChannelTypes, MessageTypes DEF ClientPutLines
  <2> QED BY <1>6, <2>1, FieldTypes DEF ClientPutLines, TypeOK, ClientPC
<1> QED BY <1>1, <1>2, <1>3, <1>4, <1>5, <1>6 DEF ClientStep

(* The server's steps keep the types.                                        *)
LEMMA ServerStepType == TypeOK /\ ServerStep => TypeOK'
<1> SUFFICES ASSUME TypeOK, ServerStep PROVE TypeOK' OBVIOUS
<1> USE DEF Fails
<1>1. CASE ServerRead
  <2>1. PICK m \in Texts(c2s), c \in Command : ServerReads(m) /\ Dispatch(c, m.of)
    BY <1>1 DEF ServerRead
  <2>2. c2s' \in Seq(Message) /\ Len(c2s') <= Cap + 1 /\ torn' \in BOOLEAN /\ m.of \in 0..MaxCmds
    BY <2>1, ReadTypes DEF Message
  <2>3. /\ server' \in [pc : ServerPC, cmd : Command, left : 0..MaxLines, of : 0..MaxCmds]
        /\ total' \in 0..MaxLines
    BY <2>1, <2>2 DEF Dispatch, TypeOK, ServerPC, Command
  <2> QED BY <1>1, <2>2, <2>3 DEF ServerRead, TypeOK
<1>2. CASE ServerReadEnd
  BY <1>2, FieldTypes DEF ServerReadEnd, TypeOK, ServerPC
<1>3. CASE ServerLs
  <2>1. s2c' \in Seq(Message) /\ Len(s2c') <= Cap + 1
    BY <1>3, ChannelTypes, MessageTypes DEF ServerLs, TypeOK
  <2>2. received' \in 0..MaxLines+1 /\ server' \in [pc : ServerPC, cmd : Command, left : 0..MaxLines, of : 0..MaxCmds]
    BY <1>3, FieldTypes DEF ServerLs, TypeOK, ServerPC
  <2> QED BY <1>3, <2>1, <2>2 DEF ServerLs, TypeOK
<1>4. CASE ServerGetOpen
  <2>1. s2c' \in Seq(Message) /\ Len(s2c') <= Cap + 1
    BY <1>4, ChannelTypes, MessageTypes DEF ServerGetOpen, TypeOK
  <2> QED BY <1>4, <2>1, FieldTypes DEF ServerGetOpen, TypeOK, ServerPC
<1>5. CASE ServerGetLines
  <2>1. s2c' \in Seq(Message) /\ Len(s2c') <= Cap + 1
    BY <1>5, ChannelTypes, MessageTypes DEF ServerGetLines
  <2>2. received' \in 0..MaxLines+1 /\ server' \in [pc : ServerPC, cmd : Command, left : 0..MaxLines, of : 0..MaxCmds]
    BY <1>5, FieldTypes DEF ServerGetLines, TypeOK, ServerPC
  <2> QED BY <1>5, <2>1, <2>2 DEF ServerGetLines, TypeOK
<1>6. CASE ServerPutFirst
  <2>1. c2s' \in Seq(Message) /\ Len(c2s') <= Cap + 1 /\ torn' \in BOOLEAN
    BY <1>6, ReadTypes DEF ServerPutFirst
  <2> QED BY <1>6, <2>1, FieldTypes DEF ServerPutFirst, TypeOK, ServerPC
<1>7. CASE ServerPutOpen
  BY <1>7, FieldTypes DEF ServerPutOpen, TypeOK, ServerPC
<1>8. CASE ServerPutLines
  <2>1. c2s' \in Seq(Message) /\ Len(c2s') <= Cap + 1 /\ torn' \in BOOLEAN
    BY <1>8, ReadTypes DEF ServerPutLines
  <2>2. received' \in 0..MaxLines+1 /\ server' \in [pc : ServerPC, cmd : Command, left : 0..MaxLines, of : 0..MaxCmds]
    BY <1>8, FieldTypes DEF ServerPutLines, TypeOK, ServerPC
  <2> QED BY <1>8, <2>1, <2>2 DEF ServerPutLines, TypeOK
<1>9. CASE ServerPutEnd
  BY <1>9, FieldTypes DEF ServerPutEnd, TypeOK, ServerPC
<1>10. CASE Respond
  <2>1. s2c' \in Seq(Message) /\ Len(s2c') <= Cap + 1
    BY <1>10, ChannelTypes, MessageTypes DEF Respond, TypeOK
  <2> QED BY <1>10, <2>1, FieldTypes DEF Respond, TypeOK, ServerPC
<1> QED
  BY <1>1, <1>2, <1>3, <1>4, <1>5, <1>6, <1>7, <1>8, <1>9, <1>10 DEF ServerStep

(* Every step keeps the types.                                               *)
LEMMA StepType == TypeOK /\ [Next]_vars => TypeOK'
<1> SUFFICES ASSUME TypeOK, [Next]_vars PROVE TypeOK' OBVIOUS
<1>1. ASSUME NEW c \in Command, Type(c) PROVE TypeOK'
  <2>1. c2s' \in Seq(Message) /\ Len(c2s') <= Cap + 1
    BY <1>1, ChannelTypes, MessageTypes DEF Type, TypeOK
  <2>2. client' \in [pc : ClientPC, cmd : Command, left : 0..MaxLines]
    BY <1>1 DEF Type, ClientPC, Command
  <2> QED BY <1>1, <2>1, <2>2 DEF Type, TypeOK
<1>2. CASE ClientDies
  <2>0. (c2s' = c2s \/ c2s' = <<>>) /\ s2c' = <<>>
    BY <1>2 DEF ClientDies
  <2>1. c2s' \in Seq(Message) /\ Len(c2s') <= Cap + 1 /\ s2c' \in Seq(Message) /\ Len(s2c') <= Cap + 1
    BY <2>0, NothingOf DEF TypeOK
  <2> QED BY <1>2, <2>1, FieldTypes DEF ClientDies, TypeOK, ClientPC
<1>3. CASE Accept
  <2>1. c2s' \in Seq(Message) /\ Len(c2s') <= Cap + 1 /\ s2c' \in Seq(Message) /\ Len(s2c') <= Cap + 1
    BY <1>3, NothingOf DEF Accept
  <2>2. ClientGoes("prompt") /\ ServerGoes("read")
    BY <1>3 DEF Accept, ClientGoes
  <2>3. /\ client' \in [pc : ClientPC, cmd : Command, left : 0..MaxLines]
        /\ server' \in [pc : ServerPC, cmd : Command, left : 0..MaxLines, of : 0..MaxCmds]
    BY <2>2, FieldTypes DEF ClientPC, ServerPC
  <2>4. /\ asked' \in 0..MaxCmds /\ clients' \in 0..MaxClients /\ answer' \in 0..MaxCmds
        /\ total' \in 0..MaxLines /\ received' \in 0..MaxLines+1
    BY <1>3 DEF Accept, TypeOK
  <2>5. failed' \subseteq {"client", "server", "text"} /\ torn' \in BOOLEAN
    BY <1>3 DEF Accept
  <2> QED BY <2>1, <2>3, <2>4, <2>5 DEF TypeOK
<1>4. CASE BrokenPipe
  BY <1>4, FieldTypes DEF BrokenPipe, TypeOK, ServerPC
<1>5. CASE UNCHANGED vars
  BY <1>5 DEF vars, TypeOK
<1> QED BY <1>1, <1>2, <1>3, <1>4, <1>5, ClientStepType, ServerStepType DEF Next

-----------------------------------------------------------------------------
(* Why InStep and WholeTransfer hold: while nothing failed, what is in the   *)
(* channels is the rest of the one command in progress.                      *)
Alive == ~ClientAt("dead")
LinesIn(q, i, j) == \A k \in i..j : q[k].kind = "line"

(* What the server has yet to read of a put, whose first message is, or      *)
(* would be, number i of c2s; and once it has read FILEOK.                   *)
Upload(i) ==
  /\ received = 0
  /\ \/ ClientAt("putOpen") /\ Len(c2s) = i - 1 /\ total = 0
     \/ /\ ClientAt("putLines") /\ Len(c2s) >= i /\ c2s[i].kind = "ok"
        /\ LinesIn(c2s, i + 1, Len(c2s)) /\ total = client.left + Len(c2s) - i
     \/ ClientAt("await") /\ Len(c2s) = i /\ c2s[i].kind = "text" /\ total = 0
     \/ /\ ClientAt("await") /\ Len(c2s) >= i + 1
        /\ c2s[i].kind = "ok" /\ c2s[Len(c2s)].kind = "eos"
        /\ LinesIn(c2s, i + 1, Len(c2s) - 1) /\ total = Len(c2s) - i - 1
UploadLines ==
  \/ /\ ClientAt("putLines") /\ LinesIn(c2s, 1, Len(c2s))
     /\ total = received + Len(c2s) + client.left
  \/ /\ ClientAt("await") /\ Len(c2s) >= 1 /\ c2s[Len(c2s)].kind = "eos"
     /\ LinesIn(c2s, 1, Len(c2s) - 1) /\ total = received + Len(c2s) - 1

(* What the client has yet to read of a listing or of a file, the last r     *)
(* messages being the response.                                              *)
Download(r) ==
  /\ c2s = <<>>
  /\ \/ ClientAt("await") /\ Len(s2c) = r /\ received = total
     \/ /\ client.pc \in {"ls", "getLines"}
        /\ Len(s2c) >= r + 1 /\ s2c[Len(s2c) - r].kind = "eos"
        /\ LinesIn(s2c, 1, Len(s2c) - r - 1) /\ total = received + Len(s2c) - r - 1
     \/ /\ ClientAt("getFirst") /\ received = 0
        /\ Len(s2c) >= r + 2 /\ s2c[1].kind = "ok" /\ s2c[Len(s2c) - r].kind = "eos"
        /\ LinesIn(s2c, 2, Len(s2c) - r - 1) /\ total = Len(s2c) - r - 2

Idle ==
  ServerAt("read") /\ c2s = <<>> /\ s2c = <<>> /\ answer = asked /\ received = total
Asked ==
  /\ ServerAt("read") /\ c2s # <<>> /\ s2c = <<>> /\ received = 0
  /\ c2s[1].kind = "cmd" /\ c2s[1].cmd = client.cmd /\ c2s[1].of = asked
  /\ \/ client.cmd = "run" /\ ClientAt("await") /\ Len(c2s) = 1 /\ total = 0
     \/ client.cmd = "ls" /\ ClientAt("ls") /\ Len(c2s) = 1
     \/ client.cmd = "get" /\ ClientAt("getFirst") /\ Len(c2s) = 1
     \/ client.cmd = "put" /\ Upload(2)
Serving ==
  /\ server.of = asked
  /\ \/ ServerAt("respond") /\ Download(0)
     \/ /\ ServerAt("lsLines") /\ ClientAt("ls") /\ c2s = <<>>
        /\ LinesIn(s2c, 1, Len(s2c)) /\ total = received + Len(s2c) + server.left
     \/ /\ ServerAt("getOpen") /\ ClientAt("getFirst") /\ c2s = <<>> /\ s2c = <<>>
        /\ received = 0 /\ total = server.left
     \/ /\ ServerAt("getLines") /\ ClientAt("getFirst") /\ c2s = <<>>
        /\ received = 0 /\ Len(s2c) >= 1 /\ s2c[1].kind = "ok"
        /\ LinesIn(s2c, 2, Len(s2c)) /\ total = Len(s2c) - 1 + server.left
     \/ /\ ServerAt("getLines") /\ ClientAt("getLines") /\ c2s = <<>>
        /\ LinesIn(s2c, 1, Len(s2c)) /\ total = received + Len(s2c) + server.left
     \/ ServerAt("putFirst") /\ s2c = <<>> /\ Upload(1)
     \/ ServerAt("putOpen") /\ s2c = <<>> /\ received = 0 /\ UploadLines
     \/ ServerAt("putLines") /\ s2c = <<>> /\ UploadLines
Responded ==
  ServerAt("read") /\ Download(1) /\ s2c[Len(s2c)].of = asked

Session ==
  Alive /\ Clean => IF ClientAt("prompt") THEN Idle ELSE Asked \/ Serving \/ Responded

(* Nobody is connected to a server that waits for a client.                 *)
Connected == Alive => server.pc \notin {"accept", "dead"}

StepInv == TypeOK /\ Connected /\ Session

(* The session invariant holds at the start.                                 *)
LEMMA InitStep == Init => StepInv
  BY InitType DEF Init, StepInv, Connected, Session, Alive, ClientAt

(* Steps of the client. *)
LEMMA ClientSession == StepInv /\ TypeOK' /\ ClientStep => Session'
<1> SUFFICES ASSUME StepInv, TypeOK', ClientStep, failed' = {}, ~torn', Alive'
             PROVE  IF ClientAt("prompt")' THEN Idle' ELSE Asked' \/ Serving' \/ Responded'
  BY DEF Session, Clean
<1> USE DEF Alive, ClientAt, ServerAt
<1>0. TypeOK /\ failed = {} /\ ~torn /\ ~torn' /\ s2c \in Seq(Message) /\ c2s \in Seq(Message)
  BY WholeReads DEF StepInv, TypeOK, ClientStep, Await, ClientLs, ClientGetFirst, ClientGetLines,
         ClientPutOpen, ClientPutLines, Fails
<1>1. CASE Await
  <2>1. PICK m \in Message : ClientTakes(m) /\ answer' = m.of
    BY <1>0, <1>1, WholeReads DEF Await
  <2>2. /\ m = s2c[1] /\ Len(s2c) \in Nat /\ Len(s2c) >= 1 /\ s2c # <<>>
        /\ (s2c' = <<>> <=> Len(s2c) = 1)
    BY <1>0, <2>1, Taken DEF ClientTakes
  <2>3. client.pc = "await" /\ client'.pc = "prompt" /\ UNCHANGED <<server, c2s, asked, total, received>>
    BY <1>0, <1>1, Fields DEF Await
  <2>4. Responded
    BY <1>0, <2>2, <2>3 DEF StepInv, Session, Clean, Asked, Serving, Download
  <2>5. Idle'
    BY <2>1, <2>2, <2>3, <2>4 DEF Responded, Download, Idle
  <2> QED BY <2>3, <2>5
<1>2. CASE ClientLs \/ ClientGetLines
  <2>1. PICK m \in Message :
          /\ ClientTakes(m)
          /\ IF m.kind = "eos" THEN ClientGoes("await") /\ UNCHANGED received
                               ELSE LineArrives /\ UNCHANGED client
    BY <1>0, <1>2, WholeReads DEF ClientLs, ClientGetLines
  <2>2. /\ m = s2c[1] /\ Len(s2c) \in Nat /\ Len(s2c) >= 1 /\ s2c # <<>>
        /\ Len(s2c') = Len(s2c) - 1 /\ (s2c' = <<>> <=> Len(s2c) = 1)
        /\ \A k \in 1..Len(s2c)-1 : s2c'[k] = s2c[k+1]
    BY <1>0, <2>1, Taken DEF ClientTakes
  <2>3. client.pc \in {"ls", "getLines"} /\ UNCHANGED <<server, c2s, asked, total>>
    BY <1>2 DEF ClientLs, ClientGetLines
  <2>4. total \in 0..MaxLines /\ received \in 0..MaxLines+1
    BY <1>0 DEF TypeOK
  <2>5. CASE m.kind = "eos"
    <3>1. client'.pc = "await" /\ received' = received
      BY <1>0, <2>1, <2>5, Fields
    <3>2. ASSUME NEW r \in {0, 1}, Download(r)
          PROVE  Download(r)'
      <4>0. r \in Int OBVIOUS
      <4>1. /\ c2s = <<>> /\ Len(s2c) >= r + 1
            /\ LinesIn(s2c, 1, Len(s2c) - r - 1) /\ total = received + Len(s2c) - r - 1
        BY <2>3, <3>2 DEF Download
      <4>2. Len(s2c) = r + 1
        BY <2>2, <2>5, <4>0, <4>1 DEF LinesIn
      <4> QED BY <2>2, <2>3, <2>4, <3>1, <4>0, <4>1, <4>2 DEF Download
    <3>3. CASE Responded
      BY <2>2, <2>3, <3>1, <3>2, <3>3 DEF Responded, Download
    <3>4. CASE ServerAt("respond") /\ Serving
      BY <2>2, <2>3, <3>1, <3>2, <3>4 DEF Serving
    <3>5. ~(server.pc \in {"lsLines", "getLines"} /\ Serving)
      BY <2>2, <2>3, <2>5 DEF Serving, LinesIn
    <3>6. Responded \/ (ServerAt("respond") /\ Serving)
      BY <1>0, <2>2, <2>3, <3>5 DEF StepInv, Session, Clean, Asked, Serving
    <3> QED BY <3>1, <2>3, <3>3, <3>4, <3>6
  <2>6. CASE m.kind # "eos"
    <3>1. client' = client
      BY <2>1, <2>6
    <3>2. received < total => received' = received + 1
      BY <2>1, <2>4, <2>6 DEF LineArrives
    <3>3. ASSUME NEW r \in {0, 1}, Download(r)
          PROVE  Download(r)' /\ Len(s2c) > 1
      <4>0. r \in Int OBVIOUS
      <4>1. ~ClientAt("await") /\ ~ClientAt("getFirst")
        BY <2>3
      <4>2. /\ c2s = <<>> /\ Len(s2c) >= r + 1 /\ s2c[Len(s2c) - r].kind = "eos"
            /\ LinesIn(s2c, 1, Len(s2c) - r - 1) /\ total = received + Len(s2c) - r - 1
        BY <3>3, <4>1 DEF Download
      <4>3. Len(s2c) > r + 1
        <5>1. Len(s2c) # r + 1
          BY <2>2, <2>6, <4>0, <4>2
        <5> QED BY <2>2, <4>0, <4>2, <5>1
      <4>4. s2c'[Len(s2c') - r].kind = "eos" /\ received' = received + 1
        <5>1. Len(s2c') - r \in 1..Len(s2c)-1 /\ Len(s2c') - r + 1 = Len(s2c) - r
          BY <2>2, <4>0, <4>3
        <5> QED BY <2>2, <2>4, <3>2, <4>0, <4>2, <4>3, <5>1
      <4>5. ASSUME NEW k \in 1..Len(s2c') - r - 1 PROVE s2c'[k].kind = "line"
        <5>1. k \in 1..Len(s2c)-1 /\ k + 1 \in 1..Len(s2c) - r - 1
          BY <2>2, <4>0, <4>3
        <5>2. s2c'[k] = s2c[k+1]
          BY <2>2, <5>1
        <5> QED BY <4>2, <5>1, <5>2 DEF LinesIn
      <4>6. LinesIn(s2c', 1, Len(s2c') - r - 1)
        BY <4>5 DEF LinesIn
      <4> QED BY <2>2, <2>3, <2>4, <3>1, <4>0, <4>2, <4>3, <4>4, <4>6 DEF Download
    <3>4. CASE Responded
      BY <2>2, <2>3, <3>1, <3>3, <3>4 DEF Responded
    <3>5. CASE ServerAt("respond") /\ Serving
      BY <2>2, <2>3, <3>1, <3>3, <3>5 DEF Serving
    <3>6. CASE server.pc \in {"lsLines", "getLines"} /\ Serving
      <4>1. LinesIn(s2c, 1, Len(s2c)) /\ total = received + Len(s2c) + server.left
        BY <2>3, <3>6 DEF Serving
      <4>2. server.left \in 0..MaxLines
        BY <1>0, Fields
      <4>3. LinesIn(s2c', 1, Len(s2c'))
        BY <2>2, <4>1 DEF LinesIn
      <4>4. received' = received + 1 /\ total = received + 1 + Len(s2c') + server.left
        BY <2>2, <2>4, <3>2, <4>1, <4>2
      <4>5. Serving'
        BY <2>3, <3>1, <3>6, <4>3, <4>4 DEF Serving
      <4> QED BY <2>3, <3>1, <4>5
    <3>7. Responded \/ (server.pc \in {"respond", "lsLines", "getLines"} /\ Serving)
      BY <1>0, <2>2, <2>3 DEF StepInv, Session, Clean, Asked, Serving
    <3> QED BY <3>1, <2>3, <3>4, <3>5, <3>6, <3>7
  <2> QED BY <2>5, <2>6
<1>3. CASE ClientGetFirst
  <2>1. PICK m \in Message :
          /\ ClientTakes(m)
          /\ IF m.kind = "ok" THEN ClientGoes("getLines") ELSE ClientGoes("await")
    BY <1>0, <1>3, WholeReads DEF ClientGetFirst, Fails
  <2>2. /\ m = s2c[1] /\ Len(s2c) \in Nat /\ Len(s2c) >= 1 /\ s2c # <<>>
        /\ Len(s2c') = Len(s2c) - 1 /\ (s2c' = <<>> <=> Len(s2c) = 1)
        /\ \A k \in 1..Len(s2c)-1 : s2c'[k] = s2c[k+1]
    <3>1. s2c \in Seq(Message) /\ s2c # <<>> /\ m = Head(s2c) /\ s2c' = Tail(s2c)
      BY <1>0, <2>1 DEF ClientTakes
    <3> QED BY <3>1, Taken
  <2>3. client.pc = "getFirst" /\ UNCHANGED <<server, c2s, asked, total, received>>
    BY <1>3 DEF ClientGetFirst
  <2>4. m.kind = "ok" /\ client'.pc = "getLines" /\ client'.left = client.left
    BY <1>0, <2>1, <2>2, <2>3, Fields
      DEF StepInv, Session, Clean, Asked, Serving, Responded, Download
  <2>5. ASSUME NEW r \in {0, 1}, Download(r)
        PROVE  Download(r)' /\ Len(s2c) > 1
    <3>1. /\ c2s = <<>> /\ Len(s2c) >= r + 2 /\ s2c[Len(s2c) - r].kind = "eos" /\ received = 0
          /\ LinesIn(s2c, 2, Len(s2c) - r - 1) /\ total = Len(s2c) - r - 2
      BY <2>3, <2>5 DEF Download
    <3>0. r \in Int OBVIOUS
    <3>2. LinesIn(s2c', 1, Len(s2c') - r - 1)
      BY <2>2, <3>0, <3>1 DEF LinesIn
    <3>3. s2c'[Len(s2c') - r].kind = "eos" /\ Len(s2c') >= r + 1
      BY <2>2, <3>0, <3>1
    <3> QED BY <2>2, <2>3, <2>4, <3>0, <3>1, <3>2, <3>3 DEF Download
  <2>6. CASE Responded
    BY <2>2, <2>3, <2>4, <2>5, <2>6 DEF Responded
  <2>7. CASE ServerAt("respond") /\ Serving
    BY <2>2, <2>3, <2>4, <2>5, <2>7 DEF Serving
  <2>8. CASE ServerAt("getLines") /\ Serving
    <3>1. LinesIn(s2c, 2, Len(s2c)) /\ total = Len(s2c) - 1 + server.left /\ received = 0
      BY <2>3, <2>8 DEF Serving
    <3>2. LinesIn(s2c', 1, Len(s2c'))
      BY <2>2, <3>1 DEF LinesIn
    <3> QED BY <2>2, <2>3, <2>4, <2>8, <3>1, <3>2 DEF Serving
  <2>9. Responded \/ (server.pc \in {"respond", "getLines"} /\ Serving)
    BY <1>0, <2>2, <2>3 DEF StepInv, Session, Clean, Asked, Serving
  <2> QED BY <2>4, <2>6, <2>7, <2>8, <2>9
<1>4. CASE ClientPutOpen
  <2>1. PICK m \in Message :
          /\ ClientWrites(m)
          /\ \/ m.kind = "text" /\ client'.pc = "await" /\ total' = total
             \/ m.kind = "ok" /\ client'.pc = "putLines" /\ total' = client'.left
    <3>1. Msg("text") \in Message /\ Msg("text").kind = "text"
          /\ Msg("ok") \in Message /\ Msg("ok").kind = "ok"
      BY MessageTypes DEF Msg
    <3>2. \A n \in 0..MaxLines : client' = [client EXCEPT !.pc = "putLines", !.left = n] =>
            client'.pc = "putLines" /\ client'.left = n
      BY <1>0 DEF TypeOK
    <3> QED BY <1>0, <1>4, <3>1, <3>2, Fields DEF ClientPutOpen
  <2>2. /\ Len(c2s) \in Nat /\ c2s' # <<>> /\ Len(c2s') = Len(c2s) + 1
        /\ c2s'[Len(c2s) + 1] = m /\ (\A k \in 1..Len(c2s) : c2s'[k] = c2s[k])
        /\ (c2s = <<>> <=> Len(c2s) = 0)
    BY <1>0, <2>1, Put DEF ClientWrites
  <2>3. /\ client.pc = "putOpen" /\ UNCHANGED <<server, s2c, asked, received>>
        /\ client'.cmd = client.cmd
    BY <1>0, <1>4, Fields DEF ClientPutOpen, TypeOK
  <2>4. ASSUME NEW i \in {1, 2}, Upload(i) PROVE Upload(i)'
    <3>1. Len(c2s) = i - 1 /\ total = 0 /\ received = 0
      BY <2>3, <2>4 DEF Upload
    <3>0. i \in Int /\ client'.left \in Int
      BY DEF TypeOK
    <3>2. LinesIn(c2s', i + 1, Len(c2s')) /\ Len(c2s') = i /\ c2s'[i] = m
      BY <2>2, <3>0, <3>1 DEF LinesIn
    <3>3. CASE m.kind = "text" /\ client'.pc = "await" /\ total' = total
      BY <2>3, <3>1, <3>2, <3>3 DEF Upload
    <3>4. CASE m.kind = "ok" /\ client'.pc = "putLines" /\ total' = client'.left
      <4>1. total' = client'.left + Len(c2s') - i /\ Len(c2s') >= i
        BY <3>0, <3>2, <3>4
      <4> QED BY <2>3, <3>1, <3>2, <3>4, <4>1 DEF Upload
    <3> QED BY <2>1, <3>3, <3>4
  <2>5. CASE Asked
    BY <2>1, <2>2, <2>3, <2>4, <2>5 DEF Asked
  <2>6. CASE Serving /\ ServerAt("putFirst")
    BY <2>1, <2>2, <2>3, <2>4, <2>6 DEF Serving
  <2>7. Asked \/ (Serving /\ ServerAt("putFirst"))
    BY <1>0, <2>3 DEF StepInv, Session, Clean, Serving, Responded, Download, UploadLines
  <2> QED BY <2>1, <2>5, <2>6, <2>7
<1>5. CASE ClientPutLines
  <2>1. PICK m \in Message :
          /\ ClientWrites(m)
          /\ \/ /\ client.left > 0 /\ m.kind = "line"
                /\ client'.pc = "putLines" /\ client'.left = client.left - 1
             \/ client.left = 0 /\ m.kind = "eos" /\ client'.pc = "await"
    <3>1. Msg("line") \in Message /\ Msg("line").kind = "line"
          /\ Msg("eos") \in Message /\ Msg("eos").kind = "eos"
      BY MessageTypes DEF Msg
    <3>2. CASE client.left > 0 /\ client' = [client EXCEPT !.left = @ - 1] /\ ClientWrites(Msg("line"))
      BY <1>0, <1>5, <3>1, <3>2, Fields DEF ClientPutLines
    <3>3. CASE client.left = 0 /\ ClientWrites(Msg("eos")) /\ ClientGoes("await")
      BY <1>0, <3>1, <3>3, Fields
    <3>4. failed' # failed \cup {"text"}
      OBVIOUS
    <3> QED BY <1>5, <3>2, <3>3, <3>4 DEF ClientPutLines, Fails
  <2>2. /\ Len(c2s) \in Nat /\ c2s' # <<>> /\ Len(c2s') = Len(c2s) + 1
        /\ c2s'[Len(c2s) + 1] = m /\ (\A k \in 1..Len(c2s) : c2s'[k] = c2s[k])
        /\ (c2s = <<>> <=> Len(c2s) = 0)
    <3>1. c2s \in Seq(Message) /\ c2s' = Append(c2s, m)
      BY <1>0, <2>1 DEF ClientWrites
    <3> QED BY <3>1, Put
  <2>3. /\ client.pc = "putLines" /\ UNCHANGED <<server, s2c, asked, received, total>>
        /\ client'.cmd = client.cmd /\ client.left \in 0..MaxLines
        /\ total \in 0..MaxLines /\ received \in 0..MaxLines+1
    BY <1>0, <1>5, Fields DEF ClientPutLines, TypeOK
  <2>4. ASSUME NEW i \in {1, 2}, Upload(i) PROVE Upload(i)'
    <3>1. /\ Len(c2s) >= i /\ c2s[i].kind = "ok" /\ LinesIn(c2s, i + 1, Len(c2s))
          /\ total = client.left + Len(c2s) - i /\ received = 0
      BY <2>3, <2>4 DEF Upload
    <3>2. c2s'[i].kind = "ok" /\ LinesIn(c2s', i + 1, Len(c2s))
      BY <2>2, <3>1 DEF LinesIn
    <3>0. i \in Int OBVIOUS
    <3>3. CASE m.kind = "line" /\ client'.pc = "putLines" /\ client'.left = client.left - 1
      <4>1. LinesIn(c2s', i + 1, Len(c2s'))
        BY <2>2, <3>0, <3>1, <3>3 DEF LinesIn
      <4>0. /\ client'.left \in Int /\ Len(c2s) \in Int /\ total' = total
            /\ Len(c2s') = Len(c2s) + 1
        BY <2>2, <2>3 DEF TypeOK
      <4>2. total' = client'.left + Len(c2s') - i /\ Len(c2s') >= i
        BY SMTT(30), <3>0, <3>1, <3>3, <4>0, <2>3
      <4> QED BY <2>3, <3>1, <3>2, <3>3, <4>1, <4>2 DEF Upload
    <3>4. CASE client.left = 0 /\ m.kind = "eos" /\ client'.pc = "await"
      <4>1. LinesIn(c2s', i + 1, Len(c2s') - 1) /\ c2s'[Len(c2s')].kind = "eos"
        BY <2>2, <3>0, <3>2, <3>4
      <4>2. total' = Len(c2s') - i - 1 /\ Len(c2s') >= i + 1
        BY <2>2, <2>3, <3>0, <3>1, <3>4
      <4> QED BY <2>3, <3>1, <3>2, <3>4, <4>1, <4>2 DEF Upload
    <3> QED BY <2>1, <3>3, <3>4
  <2>5. ASSUME UploadLines PROVE UploadLines'
    <3>1. LinesIn(c2s, 1, Len(c2s)) /\ total = received + Len(c2s) + client.left
      BY <2>3, <2>5 DEF UploadLines
    <3>2. LinesIn(c2s', 1, Len(c2s)) /\ (m.kind = "line" => LinesIn(c2s', 1, Len(c2s')))
      BY <2>2, <3>1 DEF LinesIn
    <3> QED BY <2>1, <2>2, <2>3, <3>1, <3>2 DEF UploadLines
  <2>6. CASE Asked
    BY <2>1, <2>2, <2>3, <2>4, <2>6 DEF Asked
  <2>7. CASE Serving
    BY <2>1, <2>2, <2>3, <2>4, <2>5, <2>7 DEF Serving, Download
  <2>8. Asked \/ Serving
    BY <1>0, <2>3 DEF StepInv, Session, Clean, Responded, Download
  <2> QED BY <2>1, <2>6, <2>7, <2>8
<1> QED BY <1>1, <1>2, <1>3, <1>4, <1>5 DEF ClientStep

(* Steps of the server. *)
LEMMA ServerSession == StepInv /\ TypeOK' /\ ServerStep => Session'
<1> SUFFICES ASSUME StepInv, TypeOK', ServerStep, failed' = {}, ~torn', Alive'
             PROVE  ~ClientAt("prompt")' /\ (Serving' \/ Responded')
  BY DEF Session, Clean
<1> USE DEF Alive, ClientAt, ServerAt
<1>0. /\ TypeOK /\ s2c \in Seq(Message) /\ c2s \in Seq(Message)
      /\ failed = {} /\ ~torn /\ ~torn' /\ Alive /\ client' = client /\ asked' = asked
  BY WholeReads DEF StepInv, TypeOK, ServerStep, ServerRead, ServerReadEnd, ServerLs, ServerGetOpen,
         ServerGetLines, ServerPutFirst, ServerPutOpen, ServerPutLines, ServerPutEnd, Respond, Fails
<1>t. /\ total \in 0..MaxLines /\ received \in 0..MaxLines+1 /\ total' \in 0..MaxLines
      /\ server.left \in 0..MaxLines /\ server'.left \in 0..MaxLines
      /\ client.left \in 0..MaxLines /\ server.of \in 0..MaxCmds
  BY <1>0 DEF TypeOK
<1>1. CASE ServerRead
  <2>1. PICK m \in Message, c \in Command :
          ServerTakes(m) /\ (m.kind = "cmd" => m.cmd = c) /\ Dispatch(c, m.of)
    BY <1>0, <1>1, WholeReads DEF ServerRead
  <2>2. /\ m = c2s[1] /\ Len(c2s) \in Nat /\ Len(c2s) >= 1 /\ c2s # <<>>
        /\ Len(c2s') = Len(c2s) - 1 /\ (c2s' = <<>> <=> Len(c2s) = 1)
        /\ \A k \in 1..Len(c2s)-1 : c2s'[k] = c2s[k+1]
    <3>1. c2s \in Seq(Message) /\ c2s # <<>> /\ m = Head(c2s) /\ c2s' = Tail(c2s)
      BY <1>0, <2>1 DEF ServerTakes
    <3> QED BY <3>1, Taken
  <2>3. server.pc = "read" /\ s2c' = s2c /\ received' = received
    BY <1>1 DEF ServerRead
  <2>4. Asked
    BY <1>0, <2>2, <2>3 DEF StepInv, Session, Clean, Idle, Serving, Responded, Download
  <2>5. c = client.cmd /\ m.of = asked /\ s2c = <<>> /\ Len(s2c) = 0 /\ received = 0
    BY <2>1, <2>2, <2>4 DEF Asked
  <2>6. server'.of = asked
    BY <2>1, <2>5 DEF Dispatch
  <2>7. CASE c = "run"
    <3>1. server'.pc = "respond" /\ total' = total
      BY <2>1, <2>7 DEF Dispatch
    <3>2. client.pc = "await" /\ total = 0 /\ c2s' = <<>>
      BY <2>2, <2>4, <2>5, <2>7 DEF Asked
    <3> QED BY <1>0, <2>3, <2>5, <2>6, <3>1, <3>2 DEF Serving, Download
  <2>8. CASE c = "ls"
    <3>1. server'.pc = "lsLines" /\ total' = server'.left
      BY <2>1, <2>8 DEF Dispatch
    <3>2. client.pc = "ls" /\ c2s' = <<>>
      BY <2>2, <2>4, <2>5, <2>8 DEF Asked
    <3>3. LinesIn(s2c', 1, Len(s2c')) /\ total' = received' + Len(s2c') + server'.left
      BY <1>t, <2>3, <2>5, <3>1 DEF LinesIn
    <3> QED BY <1>0, <2>3, <2>5, <2>6, <3>1, <3>2, <3>3 DEF Serving
  <2>9. CASE c = "get"
    <3>1. server'.pc = "getOpen" /\ total' = server'.left
      BY <2>1, <2>9 DEF Dispatch
    <3>2. client.pc = "getFirst" /\ c2s' = <<>>
      BY <2>2, <2>4, <2>5, <2>9 DEF Asked
    <3> QED BY <1>0, <2>3, <2>5, <2>6, <3>1, <3>2 DEF Serving
  <2>10. CASE c = "put"
    <3>1. server'.pc = "putFirst" /\ total' = total
      BY <2>1, <2>10 DEF Dispatch
    <3>2. Upload(2)
      BY <2>4, <2>5, <2>10 DEF Asked
    <3>3. Upload(1)' /\ client.pc # "prompt"
      <4>1. CASE ClientAt("putOpen")
        <5>1. Len(c2s) = 1 /\ total = 0
          BY <3>2, <4>1 DEF Upload
        <5>2. Len(c2s') = 1 - 1
          BY <2>2, <5>1
        <5> QED BY <1>0, <2>3, <2>5, <3>1, <4>1, <5>1, <5>2 DEF Upload
      <4>2. CASE ClientAt("putLines")
        <5>1. /\ Len(c2s) >= 2 /\ c2s[2].kind = "ok"
              /\ LinesIn(c2s, 3, Len(c2s)) /\ total = client.left + Len(c2s) - 2
          BY <3>2, <4>2 DEF Upload
        <5>2. LinesIn(c2s', 2, Len(c2s'))
          BY <2>2, <5>1 DEF LinesIn
        <5>3. /\ c2s'[1].kind = "ok" /\ Len(c2s') >= 1
              /\ total' = client'.left + Len(c2s') - 1
          BY <1>0, <1>t, <2>2, <3>1, <5>1
        <5> QED BY <1>0, <2>3, <2>5, <4>2, <5>2, <5>3 DEF Upload
      <4>3. CASE ClientAt("await") /\ Len(c2s) = 2 /\ c2s[2].kind = "text" /\ total = 0
        BY <1>0, <2>2, <2>3, <2>5, <3>1, <4>3 DEF Upload
      <4>4. CASE /\ ClientAt("await") /\ Len(c2s) >= 3
                 /\ c2s[2].kind = "ok" /\ c2s[Len(c2s)].kind = "eos"
                 /\ LinesIn(c2s, 3, Len(c2s) - 1) /\ total = Len(c2s) - 3
        <5>1. LinesIn(c2s', 2, Len(c2s') - 1)
          BY <2>2, <4>4 DEF LinesIn
        <5>2. /\ c2s'[1].kind = "ok" /\ c2s'[Len(c2s')].kind = "eos" /\ Len(c2s') >= 2
              /\ total' = Len(c2s') - 1 - 1
          BY <2>2, <3>1, <4>4
        <5> QED BY <1>0, <2>3, <2>5, <4>4, <5>1, <5>2 DEF Upload
      <4> QED BY <3>2, <4>1, <4>2, <4>3, <4>4 DEF Upload
    <3> QED BY <1>0, <2>3, <2>5, <2>6, <3>1, <3>3 DEF Serving
  <2> QED BY <2>7, <2>8, <2>9, <2>10 DEF Command
<1>2. CASE ServerReadEnd \/ ServerPutEnd
  BY <1>0, <1>2 DEF ServerReadEnd, ServerPutEnd
<1>3. CASE ServerLs
  <2>1. PICK m \in Message :
          /\ s2c' = Append(s2c, m)
          /\ \/ server.left > 0 /\ m.kind = "line"
                /\ server'.pc = "lsLines" /\ server'.left = server.left - 1
             \/ server.left = 0 /\ m.kind = "eos" /\ server'.pc = "respond"
    <3>1. Msg("line") \in Message /\ Msg("line").kind = "line"
          /\ Msg("eos") \in Message /\ Msg("eos").kind = "eos"
      BY MessageTypes DEF Msg
    <3>2. failed' # failed \cup {"server"}
      OBVIOUS
    <3>3. CASE server.left > 0
      BY <1>0, <1>3, <3>1, <3>2, <3>3, Fields DEF ServerLs, ServerWrites, Fails
    <3>4. CASE server.left = 0
      BY <1>0, <1>3, <3>1, <3>2, <3>4, Fields DEF ServerLs, ServerWrites, Fails
    <3> QED BY <1>t, <3>3, <3>4
  <2>2. /\ Len(s2c) \in Nat /\ s2c' # <<>> /\ Len(s2c') = Len(s2c) + 1
        /\ s2c'[Len(s2c) + 1] = m /\ (\A k \in 1..Len(s2c) : s2c'[k] = s2c[k])
    BY <1>0, <2>1, Put
  <2>3. /\ server.pc = "lsLines" /\ UNCHANGED <<c2s, total, received>> /\ server'.of = server.of
    BY <1>0, <1>3, Fields DEF ServerLs
  <2>4. Serving /\ client.pc = "ls"
    BY <1>0, <2>3 DEF StepInv, Session, Clean, Idle, Asked, Serving, Responded
  <2>5. LinesIn(s2c, 1, Len(s2c)) /\ total = received + Len(s2c) + server.left /\ c2s = <<>>
        /\ server.of = asked
    BY <2>3, <2>4 DEF Serving
  <2>6. LinesIn(s2c', 1, Len(s2c))
    BY <2>2, <2>5 DEF LinesIn
  <2>7. CASE server.left > 0 /\ m.kind = "line"
             /\ server'.pc = "lsLines" /\ server'.left = server.left - 1
    <3>1. LinesIn(s2c', 1, Len(s2c'))
      BY <2>2, <2>5, <2>7 DEF LinesIn
    <3>2. total' = received' + Len(s2c') + server'.left
      BY <1>t, <2>2, <2>3, <2>5, <2>7
    <3> QED BY <1>0, <2>3, <2>4, <2>5, <2>7, <3>1, <3>2 DEF Serving
  <2>8. CASE server.left = 0 /\ m.kind = "eos" /\ server'.pc = "respond"
    <3>1. /\ LinesIn(s2c', 1, Len(s2c') - 0 - 1) /\ s2c'[Len(s2c') - 0].kind = "eos"
          /\ Len(s2c') >= 0 + 1 /\ total' = received' + Len(s2c') - 0 - 1
      BY <1>t, <2>2, <2>3, <2>5, <2>6, <2>8
    <3> QED BY <1>0, <2>3, <2>4, <2>5, <2>8, <3>1 DEF Serving, Download
  <2> QED BY <2>1, <2>7, <2>8
<1>4. CASE ServerGetOpen
  <2>1. PICK m \in Message : s2c' = Append(s2c, m) /\ m.kind = "ok" /\ ServerGoes("getLines")
    BY <1>0, <1>4, MessageTypes DEF ServerGetOpen, ServerWrites, Fails, Msg
  <2>2. /\ Len(s2c) \in Nat /\ s2c' # <<>> /\ Len(s2c') = Len(s2c) + 1
        /\ s2c'[Len(s2c) + 1] = m
    BY <1>0, <2>1, Put
  <2>3. /\ server.pc = "getOpen" /\ UNCHANGED <<c2s, total, received>>
        /\ server'.of = server.of /\ server'.left = server.left /\ server'.pc = "getLines"
    BY <1>0, <1>4, <2>1, Fields DEF ServerGetOpen
  <2>4. Serving
    BY <1>0, <2>3 DEF StepInv, Session, Clean, Idle, Asked, Responded
  <2>5. /\ client.pc = "getFirst" /\ c2s = <<>> /\ Len(s2c) = 0 /\ received = 0
        /\ total = server.left /\ server.of = asked
    BY <2>3, <2>4 DEF Serving
  <2>6. LinesIn(s2c', 2, Len(s2c')) /\ s2c'[1].kind = "ok" /\ Len(s2c') >= 1
        /\ total' = Len(s2c') - 1 + server'.left
    BY <1>t, <2>1, <2>2, <2>3, <2>5 DEF LinesIn
  <2> QED BY <1>0, <2>3, <2>5, <2>6 DEF Serving
<1>5. CASE ServerGetLines
  <2>1. PICK m \in Message :
          /\ s2c' = Append(s2c, m)
          /\ \/ server.left > 0 /\ m.kind = "line"
                /\ server'.pc = "getLines" /\ server'.left = server.left - 1
             \/ server.left = 0 /\ m.kind = "eos" /\ server'.pc = "respond"
    <3>1. Msg("line") \in Message /\ Msg("line").kind = "line"
          /\ Msg("eos") \in Message /\ Msg("eos").kind = "eos"
      BY MessageTypes DEF Msg
    <3>2. failed' # failed \cup {"text"}
      OBVIOUS
    <3>3. CASE server.left > 0
      BY <1>0, <1>5, <3>1, <3>2, <3>3, Fields DEF ServerGetLines, ServerWrites, Fails
    <3>4. CASE server.left = 0
      BY <1>0, <1>5, <3>1, <3>2, <3>4, Fields DEF ServerGetLines, ServerWrites, Fails
    <3> QED BY <1>t, <3>3, <3>4
  <2>2. /\ Len(s2c) \in Nat /\ s2c' # <<>> /\ Len(s2c') = Len(s2c) + 1
        /\ s2c'[Len(s2c) + 1] = m /\ (\A k \in 1..Len(s2c) : s2c'[k] = s2c[k])
    BY <1>0, <2>1, Put
  <2>3. /\ server.pc = "getLines" /\ UNCHANGED <<c2s, total, received>> /\ server'.of = server.of
    BY <1>0, <1>5, Fields DEF ServerGetLines
  <2>4. Serving /\ client.pc \in {"getFirst", "getLines"} /\ server.of = asked /\ c2s = <<>>
    BY <1>0, <2>3 DEF StepInv, Session, Clean, Idle, Asked, Serving, Responded
  <2>5. CASE client.pc = "getLines"
    <3>1. LinesIn(s2c, 1, Len(s2c)) /\ total = received + Len(s2c) + server.left
      BY <2>3, <2>4, <2>5 DEF Serving
    <3>2. LinesIn(s2c', 1, Len(s2c))
      BY <2>2, <3>1 DEF LinesIn
    <3>3. CASE server.left > 0 /\ m.kind = "line"
               /\ server'.pc = "getLines" /\ server'.left = server.left - 1
      <4>1. LinesIn(s2c', 1, Len(s2c'))
        BY <2>2, <3>1, <3>3 DEF LinesIn
      <4>2. total' = received' + Len(s2c') + server'.left
        BY <1>t, <2>2, <2>3, <3>1, <3>3
      <4> QED BY <1>0, <2>3, <2>4, <2>5, <3>3, <4>1, <4>2 DEF Serving
    <3>4. CASE server.left = 0 /\ m.kind = "eos" /\ server'.pc = "respond"
      <4>1. /\ LinesIn(s2c', 1, Len(s2c') - 0 - 1) /\ s2c'[Len(s2c') - 0].kind = "eos"
            /\ Len(s2c') >= 0 + 1 /\ total' = received' + Len(s2c') - 0 - 1
        BY <1>t, <2>2, <2>3, <3>1, <3>2, <3>4
      <4> QED BY <1>0, <2>3, <2>4, <2>5, <3>4, <4>1 DEF Serving, Download
    <3> QED BY <2>1, <3>3, <3>4
  <2>6. CASE client.pc = "getFirst"
    <3>1. /\ LinesIn(s2c, 2, Len(s2c)) /\ total = Len(s2c) - 1 + server.left
          /\ received = 0 /\ Len(s2c) >= 1 /\ s2c[1].kind = "ok"
      BY <2>3, <2>4, <2>6 DEF Serving
    <3>2. LinesIn(s2c', 2, Len(s2c)) /\ s2c'[1].kind = "ok"
      BY <2>2, <3>1 DEF LinesIn
    <3>3. CASE server.left > 0 /\ m.kind = "line"
               /\ server'.pc = "getLines" /\ server'.left = server.left - 1
      <4>1. LinesIn(s2c', 2, Len(s2c'))
        BY <2>2, <3>1, <3>3 DEF LinesIn
      <4>2. total' = Len(s2c') - 1 + server'.left /\ Len(s2c') >= 1
        BY SMTT(30), <1>t, <2>2, <2>3, <3>1, <3>3
      <4> QED BY <1>0, <2>3, <2>4, <2>6, <3>1, <3>2, <3>3, <4>1, <4>2 DEF Serving
    <3>4. CASE server.left = 0 /\ m.kind = "eos" /\ server'.pc = "respond"
      <4>1. /\ LinesIn(s2c', 2, Len(s2c') - 0 - 1) /\ s2c'[Len(s2c') - 0].kind = "eos"
            /\ Len(s2c') >= 0 + 2 /\ total' = Len(s2c') - 0 - 2
        BY <1>t, <2>2, <2>3, <3>1, <3>2, <3>4
      <4> QED BY <1>0, <2>3, <2>4, <2>6, <3>1, <3>2, <3>4, <4>1 DEF Serving, Download
    <3> QED BY <2>1, <3>3, <3>4
  <2> QED BY <2>4, <2>5, <2>6
<1>6. CASE ServerPutFirst
  <2>1. PICK m \in Message :
          ServerTakes(m) /\ ServerGoes(IF m.kind = "ok" THEN "putOpen" ELSE "respond")
    BY <1>0, <1>6, WholeReads DEF ServerPutFirst
  <2>2. /\ m = c2s[1] /\ Len(c2s) \in Nat /\ Len(c2s) >= 1 /\ c2s # <<>>
        /\ Len(c2s') = Len(c2s) - 1 /\ (c2s' = <<>> <=> Len(c2s) = 1)
        /\ \A k \in 1..Len(c2s)-1 : c2s'[k] = c2s[k+1]
    <3>1. c2s \in Seq(Message) /\ c2s # <<>> /\ m = Head(c2s) /\ c2s' = Tail(c2s)
      BY <1>0, <2>1 DEF ServerTakes
    <3> QED BY <3>1, Taken
  <2>3. /\ server.pc = "putFirst" /\ UNCHANGED <<s2c, total, received>>
        /\ server'.of = server.of
        /\ server'.pc = IF m.kind = "ok" THEN "putOpen" ELSE "respond"
    BY <1>0, <1>6, <2>1, Fields DEF ServerPutFirst
  <2>4. Serving
    BY <1>0, <2>3 DEF StepInv, Session, Clean, Idle, Asked, Responded
  <2>5. Upload(1) /\ s2c = <<>> /\ Len(s2c) = 0 /\ server.of = asked
    BY <2>3, <2>4 DEF Serving
  <2>6. CASE ClientAt("putLines")
    <3>1. /\ Len(c2s) >= 1 /\ m.kind = "ok" /\ received = 0
          /\ LinesIn(c2s, 2, Len(c2s)) /\ total = client.left + Len(c2s) - 1
      BY <2>2, <2>5, <2>6 DEF Upload
    <3>2. LinesIn(c2s', 1, Len(c2s')) /\ total' = received' + Len(c2s') + client'.left
      BY SMTT(30), <1>0, <1>t, <2>2, <2>3, <3>1 DEF LinesIn
    <3> QED BY <1>0, <2>3, <2>5, <2>6, <3>1, <3>2 DEF Serving, UploadLines
  <2>7. CASE ClientAt("await") /\ Len(c2s) = 1 /\ m.kind = "text" /\ total = 0
    <3>1. received = 0
      BY <2>5 DEF Upload
    <3> QED BY <1>0, <2>2, <2>3, <2>5, <2>7, <3>1 DEF Serving, Download
  <2>8. CASE /\ ClientAt("await") /\ Len(c2s) >= 2
             /\ m.kind = "ok" /\ c2s[Len(c2s)].kind = "eos"
             /\ LinesIn(c2s, 2, Len(c2s) - 1) /\ total = Len(c2s) - 2
    <3>0. received = 0
      BY <2>5 DEF Upload
    <3>1. LinesIn(c2s', 1, Len(c2s') - 1)
      BY <2>2, <2>8 DEF LinesIn
    <3>2. c2s'[Len(c2s')].kind = "eos" /\ total' = received' + Len(c2s') - 1 /\ Len(c2s') >= 1
      BY <2>2, <2>3, <2>8, <3>0
    <3> QED BY <1>0, <2>3, <2>5, <2>8, <3>0, <3>1, <3>2 DEF Serving, UploadLines
  <2>9. \/ ClientAt("putLines")
        \/ ClientAt("await") /\ Len(c2s) = 1 /\ c2s[1].kind = "text" /\ total = 0
        \/ /\ ClientAt("await") /\ Len(c2s) >= 2
           /\ c2s[1].kind = "ok" /\ c2s[Len(c2s)].kind = "eos"
           /\ LinesIn(c2s, 2, Len(c2s) - 1) /\ total = Len(c2s) - 2
    BY <2>2, <2>5 DEF Upload
  <2> QED BY <2>2, <2>6, <2>7, <2>8, <2>9
<1>7. CASE ServerPutOpen
  <2>1. /\ server.pc = "putOpen" /\ UNCHANGED <<c2s, s2c, total, received>>
        /\ server'.of = server.of /\ server'.pc = "putLines"
    BY <1>0, <1>7, Fields DEF ServerPutOpen, Fails
  <2>2. Serving
    BY <1>0, <2>1 DEF StepInv, Session, Clean, Idle, Asked, Responded
  <2> QED BY <1>0, <2>1, <2>2 DEF Serving, UploadLines
<1>8. CASE ServerPutLines
  <2>1. PICK m \in Message :
          /\ ServerTakes(m)
          /\ IF m.kind = "eos" THEN ServerGoes("respond") /\ UNCHANGED received
                               ELSE LineArrives /\ UNCHANGED server
    BY <1>0, <1>8, WholeReads DEF ServerPutLines
  <2>2. /\ m = c2s[1] /\ Len(c2s) \in Nat /\ Len(c2s) >= 1 /\ c2s # <<>>
        /\ Len(c2s') = Len(c2s) - 1 /\ (c2s' = <<>> <=> Len(c2s) = 1)
        /\ \A k \in 1..Len(c2s)-1 : c2s'[k] = c2s[k+1]
    <3>1. c2s \in Seq(Message) /\ c2s # <<>> /\ m = Head(c2s) /\ c2s' = Tail(c2s)
      BY <1>0, <2>1 DEF ServerTakes
    <3> QED BY <3>1, Taken
  <2>3. server.pc = "putLines" /\ UNCHANGED <<s2c, total>>
    BY <1>8 DEF ServerPutLines
  <2>4. Serving
    BY <1>0, <2>3 DEF StepInv, Session, Clean, Idle, Asked, Responded
  <2>5. UploadLines /\ s2c = <<>> /\ Len(s2c) = 0 /\ server.of = asked
    BY <2>3, <2>4 DEF Serving
  <2>6. CASE m.kind = "eos"
    <3>1. server'.pc = "respond" /\ server'.of = server.of /\ received' = received
      BY <1>0, <2>1, <2>6, Fields
    <3>2. ClientAt("await") /\ Len(c2s) = 1 /\ total = received + Len(c2s) - 1
      BY <2>2, <2>5, <2>6 DEF UploadLines, LinesIn
    <3>3. c2s' = <<>> /\ total' = received'
      BY <1>t, <2>2, <2>3, <3>1, <3>2
    <3> QED BY <1>0, <2>3, <2>5, <3>1, <3>2, <3>3 DEF Serving, Download
  <2>7. CASE m.kind # "eos"
    <3>1. server' = server
      BY <2>1, <2>7
    <3>2. received < total => received' = received + 1
      BY <1>t, <2>1, <2>7 DEF LineArrives
    <3>3. CASE ClientAt("putLines")
      <4>1. LinesIn(c2s, 1, Len(c2s)) /\ total = received + Len(c2s) + client.left
        BY <2>5, <3>3 DEF UploadLines
      <4>2. LinesIn(c2s', 1, Len(c2s'))
        BY <2>2, <4>1 DEF LinesIn
      <4>0. received' = received + 1
        BY <1>t, <2>2, <3>2, <4>1
      <4>3. total' = received' + Len(c2s') + client'.left
        BY <1>0, <1>t, <2>2, <2>3, <4>0, <4>1
      <4> QED BY <1>0, <2>3, <2>5, <3>1, <3>3, <4>2, <4>3 DEF Serving, UploadLines
    <3>4. CASE ClientAt("await")
      <4>1. /\ LinesIn(c2s, 1, Len(c2s) - 1) /\ total = received + Len(c2s) - 1
            /\ c2s[Len(c2s)].kind = "eos"
        BY <2>5, <3>4 DEF UploadLines
      <4>2. Len(c2s) > 1
        BY <2>2, <2>7, <4>1
      <4>3. LinesIn(c2s', 1, Len(c2s') - 1)
        BY SMTT(30), <2>2, <4>1 DEF LinesIn
      <4>0. received' = received + 1
        BY <1>t, <2>2, <3>2, <4>1, <4>2
      <4>4. total' = received' + Len(c2s') - 1 /\ Len(c2s') >= 1 /\ c2s'[Len(c2s')].kind = "eos"
        BY SMTT(30), <1>0, <1>t, <2>2, <2>3, <4>0, <4>1, <4>2
      <4> QED BY <1>0, <2>3, <2>5, <3>1, <3>4, <4>3, <4>4 DEF Serving, UploadLines
    <3> QED BY <2>5, <3>3, <3>4 DEF UploadLines
  <2> QED BY <2>6, <2>7
<1>9. CASE Respond
  <2>1. PICK m \in Message :
          s2c' = Append(s2c, m) /\ m.kind = "response" /\ m.of = server.of /\ ServerGoes("read")
    BY <1>0, <1>t, <1>9, MessageTypes DEF Respond, ServerWrites
  <2>2. /\ Len(s2c) \in Nat /\ s2c' # <<>> /\ Len(s2c') = Len(s2c) + 1
        /\ s2c'[Len(s2c) + 1] = m /\ (\A k \in 1..Len(s2c) : s2c'[k] = s2c[k])
    BY <1>0, <2>1, Put
  <2>3. /\ server.pc = "respond" /\ UNCHANGED <<c2s, total, received>> /\ server'.pc = "read"
    BY <1>0, <1>9, <2>1, Fields DEF Respond
  <2>4. Serving
    BY <1>0, <2>3 DEF StepInv, Session, Clean, Idle, Asked, Responded
  <2>5. Download(0) /\ server.of = asked
    BY <2>3, <2>4 DEF Serving
  <2>6. s2c'[Len(s2c')].of = asked'
    BY <1>0, <2>1, <2>2, <2>5
  <2>7. Download(1)' /\ client.pc # "prompt"
    <3>1. CASE ClientAt("await")
      BY <1>0, <2>2, <2>3, <2>5, <3>1 DEF Download
    <3>2. CASE client.pc \in {"ls", "getLines"}
      <4>1. /\ c2s = <<>> /\ Len(s2c) >= 1 /\ s2c[Len(s2c)].kind = "eos"
            /\ LinesIn(s2c, 1, Len(s2c) - 1) /\ total = received + Len(s2c) - 1
        BY <1>t, <2>2, <2>5, <3>2 DEF Download
      <4>2. LinesIn(s2c', 1, Len(s2c') - 1 - 1)
        BY <2>2, <4>1 DEF LinesIn
      <4>3. /\ Len(s2c') >= 1 + 1 /\ s2c'[Len(s2c') - 1].kind = "eos"
            /\ total' = received' + Len(s2c') - 1 - 1
        BY <1>t, <2>2, <2>3, <4>1
      <4> QED BY <1>0, <2>3, <3>2, <4>1, <4>2, <4>3 DEF Download
    <3>3. CASE ClientAt("getFirst")
      <4>1. /\ c2s = <<>> /\ Len(s2c) >= 2 /\ s2c[Len(s2c)].kind = "eos" /\ s2c[1].kind = "ok"
            /\ LinesIn(s2c, 2, Len(s2c) - 1) /\ total = Len(s2c) - 2 /\ received = 0
        BY <1>t, <2>2, <2>5, <3>3 DEF Download
      <4>2. LinesIn(s2c', 2, Len(s2c') - 1 - 1) /\ s2c'[1].kind = "ok"
        BY <2>2, <4>1 DEF LinesIn
      <4>3. /\ Len(s2c') >= 1 + 2 /\ s2c'[Len(s2c') - 1].kind = "eos"
            /\ total' = Len(s2c') - 1 - 2
        BY <1>t, <2>2, <2>3, <4>1
      <4> QED BY <1>0, <2>3, <3>3, <4>1, <4>2, <4>3 DEF Download
    <3> QED BY <2>5, <3>1, <3>2, <3>3 DEF Download
  <2> QED BY <1>0, <2>3, <2>6, <2>7 DEF Responded
<1> QED BY <1>1, <1>2, <1>3, <1>4, <1>5, <1>6, <1>7, <1>8, <1>9 DEF ServerStep

(* A new command, a new client, a death. *)
LEMMA OtherSession ==
  StepInv /\ TypeOK' /\ ((\E c \in Command : Type(c)) \/ ClientDies \/ Accept \/ BrokenPipe
                         \/ UNCHANGED vars) => Session'
<1> SUFFICES ASSUME StepInv, TypeOK',
                    (\E c \in Command : Type(c)) \/ ClientDies \/ Accept \/ BrokenPipe
                      \/ UNCHANGED vars
             PROVE  Session'
  OBVIOUS
<1> USE DEF Alive, ClientAt, ServerAt
<1>0. TypeOK /\ c2s \in Seq(Message)
  BY DEF StepInv, TypeOK
<1>1. ASSUME NEW c \in Command, Type(c) PROVE Session'
  <2>1. client.pc = "prompt" /\ failed' = failed /\ torn' = torn /\ server' = server /\ s2c' = s2c
    BY <1>1 DEF Type
  <2>2. CASE Clean
    <3>1. Idle
      BY <2>1, <2>2 DEF StepInv, Session, Clean
    <3>2. asked' = asked + 1 /\ total' = 0 /\ received' = 0 /\ asked \in Nat /\ asked < MaxCmds
      BY <1>0, <1>1 DEF Type, TypeOK
    <3>3. /\ Ask(c) \in Message /\ Ask(c).kind = "cmd" /\ Ask(c).cmd = c /\ Ask(c).of = asked + 1
      BY <3>2, MessageTypes DEF Ask
    <3>4. c2s' = Append(c2s, Ask(c)) /\ Len(c2s) = 0
      BY <1>1, <3>1 DEF Type, ClientWrites, Idle
    <3>5. Len(c2s') = 1 /\ c2s'[1] = Ask(c) /\ c2s' # <<>>
      BY <1>0, <3>3, <3>4, Put
    <3>6. /\ client'.cmd = c
          /\ \/ c = "run" /\ client'.pc = "await"
             \/ c = "ls" /\ client'.pc = "ls"
             \/ c = "get" /\ client'.pc = "getFirst"
             \/ c = "put" /\ client'.pc = "putOpen"
      BY <1>1 DEF Type, Command
    <3>7. Asked'
      BY <2>1, <3>1, <3>2, <3>3, <3>5, <3>6 DEF Asked, Idle, Upload
    <3> QED BY <3>6, <3>7 DEF Session
  <2> QED BY <2>1, <2>2 DEF Session, Clean
<1>2. CASE ClientDies
  BY <1>0, <1>2, Fields DEF ClientDies, Session
<1>3. CASE Accept
  <2>1. client'.pc = "prompt" /\ server'.pc = "read"
    BY <1>0, <1>3, Fields DEF Accept, ClientGoes
  <2> QED BY <1>3, <2>1 DEF Accept, Session, Clean, Idle
<1>4. CASE BrokenPipe
  BY <1>4 DEF BrokenPipe, Session
<1>5. CASE UNCHANGED vars
  BY <1>5 DEF vars, StepInv, Session, Clean, Idle, Asked, Serving, Responded, Download, Upload, UploadLines, LinesIn
<1> QED BY <1>1, <1>2, <1>3, <1>4, <1>5

(* While both sides live, the server is at work on their connection.         *)
LEMMA StepConnected == TypeOK /\ Connected /\ [Next]_vars => Connected'
<1> SUFFICES ASSUME TypeOK, Connected, [Next]_vars PROVE Connected'
  OBVIOUS
<1> USE DEF Alive, ClientAt, ServerAt, Connected
<1>1. ASSUME NEW c \in Command, Type(c) PROVE Connected'
  BY <1>1 DEF Type
<1>2. CASE ClientStep
  BY <1>2, Fields DEF ClientStep, Await, ClientLs, ClientGetFirst, ClientGetLines,
         ClientPutOpen, ClientPutLines
<1>3. CASE ClientDies
  BY <1>3, Fields DEF ClientDies
<1>4. CASE Accept
  BY <1>4, Fields DEF Accept
<1>5. CASE ServerStep
  <2>1. CASE ServerRead
    BY <2>1 DEF ServerRead, Dispatch
  <2>2. CASE ServerReadEnd \/ ServerPutEnd
    BY <2>2 DEF ServerReadEnd, ServerPutEnd
  <2>3. CASE ServerLs \/ ServerGetOpen \/ ServerGetLines \/ ServerPutFirst \/ ServerPutOpen
             \/ ServerPutLines \/ Respond
    BY <2>3, Fields DEF ServerLs, ServerGetOpen, ServerGetLines, ServerPutFirst, ServerPutOpen,
         ServerPutLines, Respond
  <2> QED BY <1>5, <2>1, <2>2, <2>3 DEF ServerStep
<1>6. CASE BrokenPipe
  BY <1>6 DEF BrokenPipe
<1>7. CASE UNCHANGED vars
  BY <1>7 DEF vars
<1> QED BY <1>1, <1>2, <1>3, <1>4, <1>5, <1>6, <1>7 DEF Next

(* Every step keeps the session invariant.                                   *)
LEMMA StepInductive == StepInv /\ [Next]_vars => StepInv'
<1> SUFFICES ASSUME StepInv, [Next]_vars PROVE StepInv' OBVIOUS
<1>1. TypeOK' BY StepType DEF StepInv
<1>2. Connected' BY StepConnected DEF StepInv
<1>3. Session' BY <1>1, ClientSession, ServerSession, OtherSession DEF Next
<1> QED BY <1>1, <1>2, <1>3 DEF StepInv

(* Always: a client back at its prompt has read all that was sent to it, and *)
(* the server all that was sent to it, unless something failed.              *)
THEOREM StaysInStep == Spec => []InStep
<1>1. StepInv => InStep
  BY DEF StepInv, Session, Clean, Alive, Idle, InStep, ClientAt, ServerAt
<1> QED BY InitStep, StepInductive, <1>1, PTL DEF Spec

(* Always: a transfer that ended well is whole. *)
THEOREM TransfersWhole == Spec => []WholeTransfer
<1>1. StepInv => WholeTransfer
  BY DEF StepInv, Session, Clean, Alive, Idle, WholeTransfer, ClientAt, ServerAt
<1> QED BY InitStep, StepInductive, <1>1, PTL DEF Spec

-----------------------------------------------------------------------------
(* Why NeverStarved holds: as long as the server opens what it is asked for, *)
(* it reads every put to its end, so that what it reads next always begins a *)
(* command (or is one end marker too many), and all it has to send for the   *)
(* last command is still to come or on its way.                              *)
Uploading == server.pc \in {"putFirst", "putOpen", "putLines"}
EndsPut(m) == m.kind \in {"eos", "text"} \/ (m.kind = "cmd" /\ m.cmd # "put")
OpensPut(m) == m.kind = "cmd" /\ m.cmd = "put"
InPut(m) == m.kind \in {"ok", "line"}

(* What may follow a message, and what the server can be sent first.         *)
Follows(m, n) ==
  \/ EndsPut(m) /\ n.kind \in {"cmd", "eos"}
  \/ OpensPut(m) /\ n.kind \in {"ok", "text"}
  \/ InPut(m) /\ n.kind \in {"line", "eos"}
Expected(pc) ==
  IF pc = "putFirst" THEN {"ok", "text"}
  ELSE IF pc \in {"putOpen", "putLines"} THEN {"line", "eos"} ELSE {"cmd", "eos"}

Latest(q) == q[Len(q)]
Followed(q) == \A k \in 1..Len(q)-1 : Follows(q[k], q[k+1])

Parsed ==
  /\ c2s # <<>> => c2s[1].kind \in Expected(server.pc)
  /\ Followed(c2s)
  /\ ClientAt("putOpen") =>
       IF c2s = <<>> THEN ServerAt("putFirst") ELSE OpensPut(Latest(c2s))
  /\ ClientAt("putLines") =>
       IF c2s = <<>> THEN server.pc \in {"putOpen", "putLines"} \/ (client.left = 0 /\ ~Uploading)
       ELSE InPut(Latest(c2s)) \/ (client.left = 0 /\ Latest(c2s).kind = "eos")
  /\ client.pc \notin {"putOpen", "putLines"} =>
       IF c2s = <<>> THEN ~Uploading ELSE EndsPut(Latest(c2s))

Supplied ==
  /\ ClientAt("await") => c2s # <<>> \/ s2c # <<>> \/ ~ServerAt("read")
  /\ client.pc \in {"ls", "getFirst", "getLines"} =>
       \/ c2s # <<>> /\ Latest(c2s).kind = "cmd" /\ Latest(c2s).cmd \in {"ls", "get"}
       \/ c2s = <<>> /\ server.pc \in {"lsLines", "getOpen", "getLines"}
       \/ c2s = <<>> /\ ServerAt("respond") /\ s2c # <<>> /\ Latest(s2c).kind = "eos"
       \/ c2s = <<>> /\ ServerAt("read") /\ Len(s2c) >= 2 /\ s2c[Len(s2c)-1].kind = "eos"

Unstarved == Alive /\ "server" \notin failed /\ ~torn => Parsed /\ Supplied
StarveInv == TypeOK /\ Connected /\ Unstarved

(* The order of the messages in a channel after a read and after a write.    *)
LEMMA OrderTaken ==
  ASSUME NEW q, NEW r, q \in Seq(Message), NEW m, q # <<>>, m = Head(q), r = Tail(q)
  PROVE  /\ m = q[1] /\ (Followed(q) => Followed(r))
         /\ r = <<>> => m = Latest(q)
         /\ r # <<>> => Latest(r) = Latest(q) /\ (Followed(q) => Follows(m, r[1]))
<1>1. /\ m = q[1] /\ Len(q) \in Nat /\ Len(q) >= 1
      /\ Len(r) = Len(q) - 1 /\ (r = <<>> <=> Len(q) = 1)
      /\ \A k \in 1..Len(q)-1 : r[k] = q[k+1]
  BY Taken
<1>2. Followed(q) => Followed(r)
  BY <1>1 DEF Followed
<1>3. r = <<>> => m = Latest(q)
  BY <1>1 DEF Latest
<1>4. r # <<>> => Latest(r) = Latest(q) /\ r[1] = q[2] /\ Len(q) >= 2
  BY <1>1 DEF Latest
<1>5. r # <<>> /\ Followed(q) => Follows(q[1], q[1+1])
  BY <1>1, <1>4 DEF Followed
<1> QED BY <1>1, <1>2, <1>3, <1>4, <1>5

(* A message put behind those it may follow keeps the order of a channel.    *)
LEMMA OrderPut ==
  ASSUME NEW q, NEW r, q \in Seq(Message), NEW m \in Message, r = Append(q, m)
  PROVE  /\ r # <<>> /\ Latest(r) = m /\ (q # <<>> => r[1] = q[1]) /\ (q = <<>> => r[1] = m)
         /\ Followed(q) /\ (q # <<>> => Follows(Latest(q), m)) => Followed(r)
<1>1. /\ Len(q) \in Nat /\ (q = <<>> <=> Len(q) = 0)
      /\ Len(r) = Len(q) + 1 /\ r # <<>> /\ r[Len(q) + 1] = m
      /\ \A k \in 1..Len(q) : r[k] = q[k]
  BY Put
<1>2. Latest(r) = m /\ (q # <<>> => r[1] = q[1]) /\ (q = <<>> => r[1] = m)
  BY <1>1 DEF Latest
<1>3. ASSUME Followed(q), q # <<>> => Follows(Latest(q), m), NEW k \in 1..Len(r)-1
      PROVE  Follows(r[k], r[k+1])
  <2>1. CASE k = Len(q)
    BY <1>1, <1>3, <2>1 DEF Latest
  <2>2. CASE k # Len(q)
    <3>1. k \in 1..Len(q)-1 /\ k \in 1..Len(q) /\ k+1 \in 1..Len(q)
      BY <1>1, <2>2
    <3> QED BY <1>1, <1>3, <3>1 DEF Followed
  <2> QED BY <2>1, <2>2
<1> QED BY <1>1, <1>2, <1>3 DEF Followed

(* The invariant of the upload holds at the start.                           *)
LEMMA InitUnstarved == Init => StarveInv
  BY InitType DEF Init, StarveInv, Connected, Unstarved, Alive, ClientAt

(* Steps of the client. *)
LEMMA ClientUnstarved == StarveInv /\ TypeOK' /\ ClientStep => Unstarved'
<1> SUFFICES ASSUME StarveInv, TypeOK', ClientStep, "server" \notin failed', ~torn', Alive'
             PROVE  Parsed' /\ Supplied'
  BY DEF Unstarved
<1> USE DEF Alive, ClientAt, ServerAt, Uploading
<1>0. /\ TypeOK /\ "server" \notin failed /\ ~torn /\ ~torn' /\ server' = server
      /\ s2c \in Seq(Message) /\ c2s \in Seq(Message)
  BY WholeReads DEF StarveInv, TypeOK, ClientStep, Await, ClientLs, ClientGetFirst, ClientGetLines,
         ClientPutOpen, ClientPutLines, Fails
<1>1. CASE Await
  <2>1. client.pc = "await" /\ client'.pc = "prompt" /\ c2s' = c2s
    BY <1>0, <1>1, Fields DEF Await
  <2> QED BY <1>0, <2>1 DEF StarveInv, Unstarved, Parsed, Supplied
<1>2. CASE ClientLs \/ ClientGetFirst \/ ClientGetLines
  <2>1. PICK m \in Message :
          /\ ClientTakes(m)
          /\ client'.pc # "await" => m.kind # "eos" /\ client'.pc \in {"ls", "getLines"}
    BY <1>0, <1>2, Fields, WholeReads DEF ClientLs, ClientGetFirst, ClientGetLines
  <2>2. /\ client.pc \in {"ls", "getFirst", "getLines"} /\ c2s' = c2s
        /\ client'.pc \in {"ls", "getLines", "await"}
    BY <1>0, <1>2, Fields DEF ClientLs, ClientGetFirst, ClientGetLines
  <2>3. s2c \in Seq(Message) /\ s2c # <<>> /\ m = Head(s2c) /\ s2c' = Tail(s2c)
    BY <1>0, <2>1 DEF ClientTakes
  <2>4. /\ m = s2c[1] /\ Len(s2c) \in Nat /\ Len(s2c) >= 1
        /\ Len(s2c') = Len(s2c) - 1 /\ (s2c' = <<>> <=> Len(s2c) = 1)
        /\ \A k \in 1..Len(s2c)-1 : s2c'[k] = s2c[k+1]
    BY <2>3, Taken
  <2>5. (s2c' = <<>> => m = Latest(s2c)) /\ (s2c' # <<>> => Latest(s2c') = Latest(s2c))
    BY <2>3, OrderTaken
  <2>6. Parsed /\ Supplied
    BY <1>0, <2>2 DEF StarveInv, Unstarved
  <2>7. Parsed'
    BY <1>0, <2>2, <2>6 DEF Parsed
  <2>8. ASSUME Len(s2c) >= 2, s2c[Len(s2c)-1].kind = "eos", m.kind # "eos"
        PROVE  Len(s2c') >= 2 /\ s2c'[Len(s2c')-1].kind = "eos"
    <3>1. Len(s2c) > 2
      BY <2>4, <2>8
    <3> QED BY <2>4, <2>8, <3>1
  <2>9. Supplied'
    <3>1. CASE client'.pc = "await"
      BY <1>0, <2>2, <2>4, <2>6, <3>1 DEF Supplied
    <3>2. CASE client'.pc # "await"
      BY <1>0, <2>1, <2>2, <2>5, <2>6, <2>8, <3>2 DEF Supplied
    <3> QED BY <3>1, <3>2
  <2> QED BY <2>7, <2>9
<1>3. CASE ClientPutOpen \/ ClientPutLines
  <2>1. PICK m \in Message :
          /\ c2s' = Append(c2s, m)
          /\ \/ client.pc = "putOpen" /\ m.kind = "text" /\ client'.pc = "await"
             \/ client.pc = "putOpen" /\ m.kind = "ok" /\ client'.pc = "putLines"
             \/ /\ client.pc = "putLines" /\ client.left > 0 /\ client'.pc = "putLines"
                /\ m.kind = "line" \/ (m.kind = "eos" /\ client'.left = 0)
             \/ /\ client.pc = "putLines" /\ client.left = 0 /\ client'.pc = "await"
                /\ m.kind = "eos"
    <3>1. \A kind \in {"ok", "text", "line", "eos"} :
            Msg(kind) \in Message /\ Msg(kind).kind = kind
      BY MessageTypes DEF Msg
    <3>2. CASE ClientPutOpen
      <4>1. CASE ClientWrites(Msg("text")) /\ ClientGoes("await")
        BY <1>0, <3>1, <3>2, <4>1, Fields DEF ClientPutOpen, ClientWrites
      <4>2. CASE /\ ClientWrites(Msg("ok"))
                 /\ \E n \in 0..MaxLines : client' = [client EXCEPT !.pc = "putLines", !.left = n]
        <5>1. client'.pc = "putLines"
          BY <1>0, <4>2 DEF TypeOK
        <5> QED BY <3>1, <3>2, <4>2, <5>1 DEF ClientPutOpen, ClientWrites
      <4> QED BY <3>2, <4>1, <4>2 DEF ClientPutOpen
    <3>3. CASE ClientPutLines
      <4>1. CASE client.left > 0 /\ client' = [client EXCEPT !.left = @ - 1]
        <5>1. client.pc = "putLines" /\ client'.pc = "putLines" /\ client'.left = client.left - 1
          BY <1>0, <3>3, <4>1, Fields DEF ClientPutLines
        <5>2. CASE ClientWrites(Msg("line"))
          BY <3>1, <4>1, <5>1, <5>2 DEF ClientWrites
        <5>3. CASE client.left = 1 /\ ClientWrites(Msg("eos"))
          <6>1. client'.left = 0
            BY <5>1, <5>3
          <6> QED BY <3>1, <4>1, <5>1, <5>3, <6>1 DEF ClientWrites
        <5>4. client.left # 0
          BY <1>0, <4>1, Fields
        <5> QED BY <3>3, <5>2, <5>3, <5>4 DEF ClientPutLines
      <4>2. CASE client.left = 0 /\ ClientWrites(Msg("eos")) /\ ClientGoes("await")
        BY <1>0, <3>1, <3>3, <4>2, Fields DEF ClientPutLines, ClientWrites
      <4> QED BY <3>3, <4>1, <4>2 DEF ClientPutLines
    <3> QED BY <1>3, <3>2, <3>3
  <2>2. Parsed
    BY <1>0, <2>1 DEF StarveInv, Unstarved
  <2>3. /\ c2s' # <<>> /\ Latest(c2s') = m
        /\ (c2s # <<>> => c2s'[1] = c2s[1]) /\ (c2s = <<>> => c2s'[1] = m)
        /\ Followed(c2s) /\ (c2s # <<>> => Follows(Latest(c2s), m)) => Followed(c2s')
    BY <1>0, <2>1, OrderPut
  <2>4. (c2s # <<>> => Follows(Latest(c2s), m)) /\ (c2s = <<>> => m.kind \in Expected(server.pc))
    <3>1. client.left \in 0..MaxLines
      BY <1>0, Fields
    <3>2. client.left > 0 => client.left # 0
      BY <3>1
    <3>3. c2s # <<>> => Follows(Latest(c2s), m)
      BY <2>1, <2>2, <3>2 DEF Parsed, Follows, EndsPut, OpensPut, InPut
    <3>4. c2s = <<>> => m.kind \in Expected(server.pc)
      BY <2>1, <2>2, <3>2 DEF Parsed, Expected
    <3> QED BY <3>3, <3>4
  <2>5. Followed(c2s') /\ c2s'[1].kind \in Expected(server'.pc)
    BY <1>0, <2>2, <2>3, <2>4 DEF Parsed
  <2>6. Parsed'
    BY <2>1, <2>3, <2>5 DEF Parsed, EndsPut, InPut
  <2> QED BY <2>1, <2>3, <2>6 DEF Supplied
<1> QED BY <1>1, <1>2, <1>3 DEF ClientStep

(* What the server takes from its channel is what it expects, and so is what *)
(* comes next, if it goes where the message sends it.                        *)
LEMMA TakenParsed ==
  ASSUME StarveInv, Alive, "server" \notin failed, ~torn, NEW m \in Message, ServerTakes(m),
         client' = client,
         \/ m.kind \in Expected(server.pc) /\ EndsPut(m) /\ ~Uploading'
         \/ m.kind \in Expected(server.pc) /\ OpensPut(m) /\ server'.pc = "putFirst"
         \/ m.kind \in Expected(server.pc) /\ InPut(m) /\ server'.pc \in {"putOpen", "putLines"}
         \/ m.kind \notin Expected(server.pc)
  PROVE  /\ Parsed' /\ m.kind \in Expected(server.pc)
         /\ c2s' = <<>> => m = Latest(c2s)
         /\ c2s' # <<>> => Latest(c2s') = Latest(c2s)
<1> USE DEF ClientAt, ServerAt, Uploading
<1>1. c2s \in Seq(Message) /\ c2s # <<>> /\ m = Head(c2s) /\ c2s' = Tail(c2s)
  BY DEF ServerTakes, StarveInv, TypeOK
<1>2. /\ m = c2s[1] /\ (Followed(c2s) => Followed(c2s'))
      /\ c2s' = <<>> => m = Latest(c2s)
      /\ c2s' # <<>> => Latest(c2s') = Latest(c2s) /\ (Followed(c2s) => Follows(m, c2s'[1]))
  BY <1>1, OrderTaken
<1>3. Parsed
  BY DEF StarveInv, Unstarved
<1>4. m.kind \in Expected(server.pc) /\ Followed(c2s')
  BY <1>1, <1>2, <1>3 DEF Parsed
<1>5. c2s' # <<>> => c2s'[1].kind \in Expected(server'.pc)
  BY <1>2, <1>3, <1>4 DEF Parsed, Expected, Follows, EndsPut, OpensPut, InPut
<1>6. CASE c2s' # <<>>
  BY <1>1, <1>2, <1>3, <1>4, <1>5, <1>6 DEF Parsed
<1>7. CASE c2s' = <<>>
  BY <1>1, <1>2, <1>3, <1>4, <1>7 DEF Parsed, EndsPut, OpensPut, InPut
<1> QED BY <1>2, <1>4, <1>6, <1>7

(* Steps of the server. *)
LEMMA ServerUnstarved == StarveInv /\ TypeOK' /\ ServerStep => Unstarved'
<1> SUFFICES ASSUME StarveInv, TypeOK', ServerStep, "server" \notin failed', ~torn', Alive'
             PROVE  Parsed' /\ Supplied'
  BY DEF Unstarved
<1> USE DEF Alive, ClientAt, ServerAt, Uploading
<1>0. /\ TypeOK /\ s2c \in Seq(Message) /\ c2s \in Seq(Message)
      /\ "server" \notin failed /\ ~torn /\ ~torn' /\ Alive /\ client' = client
  BY WholeReads DEF StarveInv, TypeOK, ServerStep, ServerRead, ServerReadEnd, ServerLs, ServerGetOpen,
         ServerGetLines, ServerPutFirst, ServerPutOpen, ServerPutLines, ServerPutEnd, Respond, Fails
<1>p. Parsed /\ Supplied
  BY <1>0 DEF StarveInv, Unstarved
<1>1. CASE ServerRead
  <2>1. PICK m \in Message, c \in Command :
          /\ ServerTakes(m) /\ (m.kind = "cmd" => m.cmd = c) /\ Dispatch(c, m.of)
          /\ m.kind \notin {"cmd", "line"} => c = "run"
    BY <1>0, <1>1, WholeReads DEF ServerRead
  <2>2. server.pc = "read" /\ s2c' = s2c
    BY <1>1 DEF ServerRead
  <2>3. server'.pc = CASE c = "ls" -> "lsLines" [] c = "get" -> "getOpen"
                       [] c = "put" -> "putFirst" [] OTHER -> "respond"
    BY <2>1 DEF Dispatch
  <2>4. server'.pc \in {"lsLines", "getOpen", "putFirst", "respond"}
    BY <2>3
  <2>5. /\ Parsed' /\ m.kind \in Expected(server.pc)
        /\ c2s' = <<>> => m = Latest(c2s)
        /\ c2s' # <<>> => Latest(c2s') = Latest(c2s)
    <3>1. \/ m.kind \notin Expected(server.pc)
          \/ EndsPut(m) /\ ~Uploading'
          \/ OpensPut(m) /\ server'.pc = "putFirst"
      BY <2>1, <2>2, <2>3 DEF Expected, EndsPut, OpensPut, Command, Message
    <3> QED BY <1>0, <2>1, <3>1, TakenParsed
  <2>6. Supplied'
    <3>1. c2s # <<>>
      BY <2>1 DEF ServerTakes
    <3> QED BY <1>0, <1>p, <2>1, <2>2, <2>3, <2>4, <2>5, <3>1 DEF Supplied, Expected
  <2> QED BY <2>5, <2>6
<1>2. CASE ServerReadEnd \/ ServerPutEnd
  BY <1>0, <1>2 DEF ServerReadEnd, ServerPutEnd
<1>3. CASE ServerLs \/ ServerGetOpen \/ ServerGetLines
  <2>1. /\ server.pc \in {"lsLines", "getOpen", "getLines"} /\ c2s' = c2s
        /\ \/ server'.pc \in {"lsLines", "getLines"}
           \/ server'.pc = "respond" /\ s2c' = Append(s2c, Msg("eos"))
    BY <1>0, <1>3, Fields DEF ServerLs, ServerGetOpen, ServerGetLines, ServerWrites, Fails
  <2>2. Msg("eos") \in Message /\ Msg("eos").kind = "eos"
    BY MessageTypes DEF Msg
  <2>3. server'.pc = "respond" => s2c' # <<>> /\ Latest(s2c').kind = "eos"
    BY <1>0, <2>1, <2>2, OrderPut
  <2>4. Parsed'
    BY <1>0, <1>p, <2>1 DEF Parsed, Expected
  <2> QED BY <1>0, <1>p, <2>1, <2>3, <2>4 DEF Supplied
<1>4. CASE ServerPutFirst
  <2>1. PICK m \in Message :
          ServerTakes(m) /\ ServerGoes(IF m.kind = "ok" THEN "putOpen" ELSE "respond")
    BY <1>0, <1>4, WholeReads DEF ServerPutFirst
  <2>2. server.pc = "putFirst" /\ server'.pc = IF m.kind = "ok" THEN "putOpen" ELSE "respond"
    BY <1>0, <1>4, <2>1, Fields DEF ServerPutFirst
  <2>3. /\ Parsed' /\ m.kind \in Expected(server.pc)
        /\ c2s' = <<>> => m = Latest(c2s)
        /\ c2s' # <<>> => Latest(c2s') = Latest(c2s)
    <3>1. \/ m.kind \notin Expected(server.pc)
          \/ EndsPut(m) /\ ~Uploading'
          \/ InPut(m) /\ server'.pc = "putOpen"
      BY <2>2 DEF Expected, EndsPut, InPut
    <3> QED BY <1>0, <2>1, <3>1, TakenParsed
  <2>4. c2s # <<>>
    BY <2>1 DEF ServerTakes
  <2> QED BY <1>0, <1>p, <2>2, <2>3, <2>4 DEF Supplied, Expected
<1>5. CASE ServerPutOpen
  <2>1. server.pc = "putOpen" /\ server'.pc = "putLines" /\ UNCHANGED <<c2s, s2c>>
    BY <1>0, <1>5, Fields DEF ServerPutOpen, Fails
  <2> QED BY <1>0, <1>p, <2>1 DEF Parsed, Supplied, Expected
<1>6. CASE ServerPutLines
  <2>1. PICK m \in Message :
          /\ ServerTakes(m)
          /\ IF m.kind = "eos" THEN ServerGoes("respond") ELSE UNCHANGED server
    BY <1>0, <1>6, WholeReads DEF ServerPutLines
  <2>2. server.pc = "putLines" /\ server'.pc = IF m.kind = "eos" THEN "respond" ELSE "putLines"
    BY <1>0, <1>6, <2>1, Fields DEF ServerPutLines
  <2>3. /\ Parsed' /\ m.kind \in Expected(server.pc)
        /\ c2s' = <<>> => m = Latest(c2s)
        /\ c2s' # <<>> => Latest(c2s') = Latest(c2s)
    <3>1. \/ m.kind \notin Expected(server.pc)
          \/ EndsPut(m) /\ ~Uploading'
          \/ InPut(m) /\ server'.pc = "putLines"
      BY <2>2 DEF Expected, EndsPut, InPut
    <3> QED BY <1>0, <2>1, <3>1, TakenParsed
  <2>4. c2s # <<>>
    BY <2>1 DEF ServerTakes
  <2> QED BY <1>0, <1>p, <2>2, <2>3, <2>4 DEF Supplied, Expected
<1>7. CASE Respond
  <2>1. PICK m \in Message : s2c' = Append(s2c, m) /\ ServerGoes("read")
    <3>1. server.of \in 0..MaxCmds
      BY <1>0 DEF TypeOK
    <3> QED BY <1>0, <1>7, <3>1, MessageTypes DEF Respond, ServerWrites
  <2>2. server.pc = "respond" /\ server'.pc = "read" /\ c2s' = c2s
    BY <1>0, <1>7, <2>1, Fields DEF Respond
  <2>3. /\ Len(s2c) \in Nat /\ (s2c = <<>> <=> Len(s2c) = 0)
        /\ Len(s2c') = Len(s2c) + 1 /\ s2c' # <<>>
        /\ \A k \in 1..Len(s2c) : s2c'[k] = s2c[k]
    BY <1>0, <2>1, Put
  <2>4. s2c # <<>> /\ Latest(s2c).kind = "eos" =>
          Len(s2c') >= 2 /\ s2c'[Len(s2c')-1].kind = "eos"
    BY <2>3 DEF Latest
  <2>5. Parsed'
    BY <1>0, <1>p, <2>2 DEF Parsed, Expected
  <2> QED BY <1>0, <1>p, <2>2, <2>3, <2>4, <2>5 DEF Supplied
<1> QED BY <1>1, <1>2, <1>3, <1>4, <1>5, <1>6, <1>7 DEF ServerStep

(* A new command, a new client, a death. *)
LEMMA OtherUnstarved ==
  StarveInv /\ TypeOK' /\ ((\E c \in Command : Type(c)) \/ ClientDies \/ Accept \/ BrokenPipe
                           \/ UNCHANGED vars) => Unstarved'
<1> SUFFICES ASSUME StarveInv, TypeOK',
                    (\E c \in Command : Type(c)) \/ ClientDies \/ Accept \/ BrokenPipe
                      \/ UNCHANGED vars
             PROVE  Unstarved'
  OBVIOUS
<1> USE DEF Alive, ClientAt, ServerAt, Uploading
<1>0. TypeOK /\ c2s \in Seq(Message)
  BY DEF StarveInv, TypeOK
<1>1. ASSUME NEW c \in Command, Type(c), "server" \notin failed, ~torn PROVE Parsed' /\ Supplied'
  <2>1. client.pc = "prompt" /\ server' = server /\ c2s' = Append(c2s, Ask(c)) /\ asked < MaxCmds
    BY <1>1 DEF Type, ClientWrites
  <2>2. Ask(c) \in Message /\ Ask(c).kind = "cmd" /\ Ask(c).cmd = c
    BY <1>0, <1>1, <2>1, MessageTypes DEF Ask, TypeOK
  <2>3. /\ c2s' # <<>> /\ Latest(c2s') = Ask(c)
        /\ (c2s # <<>> => c2s'[1] = c2s[1]) /\ (c2s = <<>> => c2s'[1] = Ask(c))
        /\ Followed(c2s) /\ (c2s # <<>> => Follows(Latest(c2s), Ask(c))) => Followed(c2s')
    BY <1>0, <2>1, <2>2, OrderPut
  <2>4. Parsed
    BY <1>1, <2>1 DEF StarveInv, Unstarved
  <2>5. Followed(c2s') /\ c2s'[1].kind \in Expected(server'.pc)
    BY <2>1, <2>2, <2>3, <2>4 DEF Parsed, Expected, Follows
  <2>6. \/ c = "run" /\ client'.pc = "await"
        \/ c = "ls" /\ client'.pc = "ls"
        \/ c = "get" /\ client'.pc = "getFirst"
        \/ c = "put" /\ client'.pc = "putOpen"
    BY <1>1 DEF Type, Command
  <2> QED BY <2>2, <2>3, <2>5, <2>6 DEF Parsed, Supplied, EndsPut, OpensPut
<1>2. CASE \E c \in Command : Type(c)
  BY <1>1, <1>2 DEF Type, Unstarved
<1>3. CASE ClientDies
  BY <1>0, <1>3, Fields DEF ClientDies, Unstarved
<1>4. CASE Accept
  <2>1. client'.pc = "prompt" /\ server'.pc = "read" /\ c2s' = <<>> /\ Len(c2s') = 0
    BY <1>0, <1>4, Fields DEF Accept, ClientGoes
  <2>2. Followed(c2s')
    BY <2>1 DEF Followed
  <2> QED BY <2>1, <2>2 DEF Unstarved, Parsed, Supplied
<1>5. CASE BrokenPipe
  BY <1>5 DEF BrokenPipe, Unstarved
<1>6. CASE UNCHANGED vars
  BY <1>6 DEF vars, StarveInv, Unstarved, Parsed, Supplied
<1> QED BY <1>2, <1>3, <1>4, <1>5, <1>6

(* Every step keeps the invariant of the upload.                             *)
LEMMA UnstarvedInductive == StarveInv /\ [Next]_vars => StarveInv'
<1> SUFFICES ASSUME StarveInv, [Next]_vars PROVE StarveInv' OBVIOUS
<1>1. TypeOK' BY StepType DEF StarveInv
<1>2. Connected' BY StepConnected DEF StarveInv
<1>3. Unstarved' BY <1>1, ClientUnstarved, ServerUnstarved, OtherUnstarved DEF Next
<1> QED BY <1>1, <1>2, <1>3 DEF StarveInv

(* Always: the two sides never wait for each other, unless the server could  *)
(* not open what it was asked for.                                           *)
THEOREM NeverBothWait == Spec => []NeverStarved
<1>1. StarveInv => NeverStarved
  <2> SUFFICES ASSUME StarveInv, Starved, "server" \notin failed, ~torn PROVE FALSE
    BY DEF NeverStarved
  <2>1. Alive
    BY DEF Starved, Alive, ClientAt
  <2>2. Parsed /\ Supplied
    BY <2>1 DEF StarveInv, Unstarved
  <2>3. s2c = <<>> /\ Len(s2c) = 0 /\ c2s = <<>>
    BY DEF Starved
  <2> QED BY <2>2, <2>3 DEF Starved, Parsed, Supplied, Uploading, ClientAt, ServerAt
<1> QED BY InitUnstarved, UnstarvedInductive, <1>1, PTL DEF Spec
=============================================================================
