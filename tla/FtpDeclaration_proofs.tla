------------------------ MODULE FtpDeclaration_proofs ------------------------
(***************************************************************************)
(* Proofs about FtpDeclaration for any number of lists of any length.      *)
(*                                                                         *)
(* The slots of QFtp are operators from records to records, so that the    *)
(* lemmas are about operators: one for each of them says what it makes of  *)
(* the buffer, the command queue and the conversation (Ended, Failed,      *)
(* Resumed, Moved, Passed), and one for each action which of these it is.  *)
(* Talk is what holds between the queue and the two connections, and gives *)
(* the types.  DeclaredInv adds what the one transfer has in hand while no *)
(* list comes too early.                                                   *)
(***************************************************************************)
EXTENDS FtpDeclaration, SequenceTheorems, TLAPS

\* A record QFtp can have; the buffer is told a command only after a list.
Typed(f) == f \in Ftp /\ f.pos <= Len(f.rows) /\ (f.command # NoList => f.task # NoList)

\* g is f with another buffer, other commands or another conversation.
Kept(f, g) ==
    /\ g.task = f.task /\ g.command = f.command /\ g.state = f.state /\ g.kick = f.kick
    /\ g.socket = f.socket /\ g.waitForDtpToConnect = f.waitForDtpToConnect
    /\ g.sent = f.sent /\ g.refused = f.refused /\ g.alive = f.alive

\* The conversation of QFtpPI and QFtpDTP goes on.
SameTalk(f, g) ==
    /\ g.pi = f.pi /\ g.cmds = f.cmds /\ g.cur = f.cur
    /\ g.dtp = f.dtp /\ g.device = f.device /\ g.begun = f.begun

\* The conversation is over.
NoTalk(g) ==
    /\ g.pi = "Idle" /\ g.cmds = <<>> /\ g.cur = "none"
    /\ g.dtp = "none" /\ ~g.device /\ ~g.begun

\* The buffer and what is declared of it.
SameBuffer(f, g) == g.rows = f.rows /\ g.pos = f.pos /\ g.declared = f.declared

\* The command that ends is the one of the buffer.
Mine(f) == Head(f.pending).id # NoList /\ Head(f.pending).id = f.command

\* What the client's slot makes of the buffer when a command ends.
Ended(f, g, failed) ==
    IF Mine(f)
    THEN /\ g.rows = <<>> /\ g.pos = 0
         /\ g.declared = f.declared \cup {[task |-> f.task, written |-> ~failed]}
    ELSE SameBuffer(f, g)

\* The slot changes the buffer only for the buffer's own command.
LEMMA CommandFinishedIs ==
    ASSUME NEW f, Typed(f), f.pending # <<>>, NEW failed \in BOOLEAN
    PROVE  LET g == commandFinished(f, failed)
           IN  /\ Typed(g) /\ Kept(f, g) /\ SameTalk(f, g) /\ Ended(f, g, failed)
               /\ g.pending = f.pending /\ g.dropped = f.dropped
<1>1. CASE Mine(f)
  <2>1. f.command \in Lists /\ f.task \in Lists /\ <<>> \in Seq(Lists)
    BY <1>1 DEF Typed, Ftp, Mine
  <2> DEFINE e == [task |-> f.task, written |-> ~failed]
             d == f.declared \cup {e}
             g == [f EXCEPT !.rows = <<>>, !.pos = 0, !.declared = d]
  <2>2. commandFinished(f, failed) = g
    BY <1>1 DEF commandFinished, Typed, Ftp, Mine
  <2>3. e \in [task : Lists, written : BOOLEAN]
    BY <2>1
  <2> HIDE DEF e
  <2>4. d \in SUBSET [task : Lists, written : BOOLEAN]
    BY <2>3 DEF Typed, Ftp
  <2> HIDE DEF d
  <2>5. g \in Ftp
    BY <2>1, <2>4 DEF Typed, Ftp
  <2>6. /\ g.rows = <<>> /\ g.pos = 0 /\ g.declared = d
        /\ g.pending = f.pending /\ g.dropped = f.dropped /\ Kept(f, g) /\ SameTalk(f, g)
    BY DEF Typed, Ftp, Kept, SameTalk
  <2>7. Typed(g)
    BY <2>1, <2>5, <2>6 DEF Typed, Kept
  <2> HIDE DEF g
  <2>8. QED
    BY <1>1, <2>2, <2>6, <2>7 DEF d, e, Ended
<1>2. CASE ~Mine(f)
  <2>1. commandFinished(f, failed) = f
    BY <1>2 DEF commandFinished, Mine
  <2>2. QED
    BY <1>2, <2>1 DEF Kept, SameTalk, Ended, SameBuffer
<1>3. QED
  BY <1>1, <1>2

\* The transfers behind the command under way.
Behind(f) == {Tail(f.pending)[i].id : i \in 1..Len(Tail(f.pending))} \ {NoList}

\* An error ends the command at the head and leaves nothing under way.
LEMMA PiErrorIs ==
    ASSUME NEW f, Typed(f), f.pending # <<>>, ~(Head(f.pending).kind = "Put" /\ f.cur = "ALLO")
    PROVE  LET g == piError(f)
           IN  /\ Typed(g) /\ Kept(f, g) /\ NoTalk(g) /\ Ended(f, g, TRUE)
               /\ g.pending = <<>> /\ g.dropped = f.dropped \cup Behind(f)
<1> DEFINE c == [f EXCEPT !.cmds = <<>>, !.dtp = "none", !.device = FALSE,
                          !.cur = "none", !.pi = "Idle", !.begun = FALSE]
           h == commandFinished(c, TRUE)
           g == [h EXCEPT !.pending = <<>>, !.dropped = h.dropped \cup Behind(f)]
<1>1. <<>> \in Seq(RawCommands) /\ <<>> \in Seq(Commands)
  OBVIOUS
<1>2. c \in Ftp
  BY <1>1 DEF Typed, Ftp
<1>3. /\ Kept(f, c) /\ NoTalk(c) /\ SameBuffer(f, c)
      /\ c.pending = f.pending /\ c.dropped = f.dropped
  BY DEF Typed, Ftp, Kept, NoTalk, SameBuffer
<1>4. Typed(c)
  BY <1>2, <1>3 DEF Typed, Kept, SameBuffer
<1>5. piError(f) = g
  BY <1>4 DEF piError, Behind, Typed, Ftp
<1> HIDE DEF c
<1>6. /\ Typed(h) /\ Kept(c, h) /\ SameTalk(c, h) /\ Ended(c, h, TRUE)
      /\ h.pending = c.pending /\ h.dropped = c.dropped
  BY <1>3, <1>4, CommandFinishedIs
<1> HIDE DEF h
<1>7. Behind(f) \in SUBSET Lists
  <2>1. Tail(f.pending) \in Seq(Commands)
    BY HeadTailProperties DEF Typed, Ftp
  <2>2. \A i \in 1..Len(Tail(f.pending)) : Tail(f.pending)[i] \in Commands
    BY <2>1, ElementOfSeq
  <2>3. \A x \in Commands : x.id \in Lists \cup {NoList}
    BY DEF Commands
  <2>4. QED
    BY <2>2, <2>3 DEF Behind
<1>8. g \in Ftp
  BY <1>1, <1>6, <1>7 DEF Typed, Ftp
<1>9. /\ Kept(h, g) /\ SameTalk(h, g) /\ SameBuffer(h, g)
      /\ g.pending = <<>> /\ g.dropped = h.dropped \cup Behind(f)
  BY <1>6 DEF Typed, Ftp, Kept, SameTalk, SameBuffer
<1>10. Typed(g)
  BY <1>6, <1>8, <1>9 DEF Typed, Kept, SameBuffer
<1> HIDE DEF g
<1>11. Kept(f, g) /\ NoTalk(g)
  BY <1>3, <1>6, <1>9 DEF Kept, SameTalk, NoTalk
<1>12. Ended(f, g, TRUE)
  BY <1>3, <1>6, <1>9 DEF Ended, Mine, SameBuffer, Kept
<1>13. QED
  BY <1>3, <1>5, <1>6, <1>9, <1>10, <1>11, <1>12

-----------------------------------------------------------------------------
(* The conversation *)

\* The raw commands behind the one under way.
Rest(c) ==
    CASE c = "USER" -> <<"PASS">>
      [] c = "TYPE" -> <<"SIZE", "PASV", "ALLO", "APPE">>
      [] c = "SIZE" -> <<"PASV", "ALLO", "APPE">>
      [] c = "PASV" -> <<"ALLO", "APPE">>
      [] c = "ALLO" -> <<"APPE">>
      [] OTHER -> <<>>

\* The raw commands are sent one after the other.
Follows(c, d) ==
    <<c, d>> \in {<<"USER", "PASS">>, <<"TYPE", "SIZE">>, <<"SIZE", "PASV">>, <<"PASV", "ALLO">>,
                  <<"ALLO", "APPE">>}

\* Where the sequences of raw commands begin, and what is left of them.
LEMMA RawTails ==
    /\ \A c \in RawCommands : Rest(c) \in Seq(RawCommands)
    /\ \A c \in {"PASS", "APPE"} : Rest(c) = <<>>
    /\ \A c \in RawCommands \ {"PASS", "APPE"} :
          /\ Rest(c) # <<>> /\ Head(Rest(c)) \in RawCommands /\ Follows(c, Head(Rest(c)))
          /\ Tail(Rest(c)) = Rest(Head(Rest(c)))
    /\ \A c : /\ RawOf(c) # <<>> /\ RawOf(c) \in Seq(RawCommands)
              /\ Head(RawOf(c)) = IF c.kind = "Login" THEN "USER" ELSE "TYPE"
              /\ Tail(RawOf(c)) = Rest(Head(RawOf(c)))
<1> USE DEF RawCommands
<1>0. /\ Rest("USER") = <<"PASS">> /\ Rest("PASS") = <<>>
      /\ Rest("TYPE") = <<"SIZE", "PASV", "ALLO", "APPE">>
      /\ Rest("SIZE") = <<"PASV", "ALLO", "APPE">>
      /\ Rest("PASV") = <<"ALLO", "APPE">>
      /\ Rest("ALLO") = <<"APPE">> /\ Rest("APPE") = <<>>
  BY DEF Rest
<1>1. \A c \in {"PASS", "APPE"} : Rest(c) = <<>>
  BY <1>0
<1>2. ASSUME NEW c \in RawCommands \ {"PASS", "APPE"}
      PROVE  /\ Rest(c) \in Seq(RawCommands)
             /\ Rest(c) # <<>> /\ Head(Rest(c)) \in RawCommands /\ Follows(c, Head(Rest(c)))
             /\ Tail(Rest(c)) = Rest(Head(Rest(c)))
  <2>1. CASE c = "USER"
    <3>1. Rest(c) = <<"PASS">> /\ Rest("PASS") = <<>>
      BY <1>0, <2>1
    <3>2. Rest(c) \in Seq(RawCommands)
      BY <3>1
    <3>3. Rest(c) # <<>> /\ Head(Rest(c)) = "PASS" /\ Tail(Rest(c)) = Rest("PASS")
      BY <3>1
    <3>4. QED
      BY <2>1, <3>2, <3>3 DEF Follows
  <2>2. CASE c = "TYPE"
    <3>1. Rest(c) = <<"SIZE", "PASV", "ALLO", "APPE">> /\ Rest("SIZE") = <<"PASV", "ALLO", "APPE">>
      BY <1>0, <2>2
    <3>2. Rest(c) \in Seq(RawCommands)
      BY <3>1
    <3>3. Rest(c) # <<>> /\ Head(Rest(c)) = "SIZE" /\ Tail(Rest(c)) = Rest("SIZE")
      BY <3>1
    <3>4. QED
      BY <2>2, <3>2, <3>3 DEF Follows
  <2>3. CASE c = "SIZE"
    <3>1. Rest(c) = <<"PASV", "ALLO", "APPE">> /\ Rest("PASV") = <<"ALLO", "APPE">>
      BY <1>0, <2>3
    <3>2. Rest(c) \in Seq(RawCommands)
      BY <3>1
    <3>3. Rest(c) # <<>> /\ Head(Rest(c)) = "PASV" /\ Tail(Rest(c)) = Rest("PASV")
      BY <3>1
    <3>4. QED
      BY <2>3, <3>2, <3>3 DEF Follows
  <2>4. CASE c = "PASV"
    <3>1. Rest(c) = <<"ALLO", "APPE">> /\ Rest("ALLO") = <<"APPE">>
      BY <1>0, <2>4
    <3>2. Rest(c) \in Seq(RawCommands)
      BY <3>1
    <3>3. Rest(c) # <<>> /\ Head(Rest(c)) = "ALLO" /\ Tail(Rest(c)) = Rest("ALLO")
      BY <3>1
    <3>4. QED
      BY <2>4, <3>2, <3>3 DEF Follows
  <2>5. CASE c = "ALLO"
    <3>1. Rest(c) = <<"APPE">> /\ Rest("APPE") = <<>>
      BY <1>0, <2>5
    <3>2. Rest(c) \in Seq(RawCommands)
      BY <3>1
    <3>3. Rest(c) # <<>> /\ Head(Rest(c)) = "APPE" /\ Tail(Rest(c)) = Rest("APPE")
      BY <3>1
    <3>4. QED
      BY <2>5, <3>2, <3>3 DEF Follows
  <2>6. QED
    BY <1>2, <2>1, <2>2, <2>3, <2>4, <2>5
<1>3. \A c \in RawCommands : Rest(c) \in Seq(RawCommands)
  <2>1. ASSUME NEW c \in RawCommands PROVE Rest(c) \in Seq(RawCommands)
    <3>1. CASE c \in {"PASS", "APPE"}
      BY <1>1, <3>1, EmptySeq
    <3>2. CASE c \notin {"PASS", "APPE"}
      BY <1>2, <3>2
    <3>3. QED
      BY <3>1, <3>2
  <2>2. QED
    BY <2>1
<1>4. ASSUME NEW c
      PROVE  /\ RawOf(c) # <<>> /\ RawOf(c) \in Seq(RawCommands)
             /\ Head(RawOf(c)) = IF c.kind = "Login" THEN "USER" ELSE "TYPE"
             /\ Tail(RawOf(c)) = Rest(Head(RawOf(c)))
  <2>1. CASE c.kind = "Login"
    BY <2>1 DEF RawOf, Rest
  <2>2. CASE c.kind # "Login"
    BY <2>2 DEF RawOf, Rest
  <2>3. QED
    BY <2>1, <2>2
<1>5. QED
  BY <1>1, <1>2, <1>3, <1>4

\* No raw command is under way; those of a command that waits for a data connection which
\* is never made stay.
Silent(f) ==
    /\ f.pi # "Waiting" /\ f.dtp # "connecting" /\ ~f.begun
    /\ f.cmds # <<>> => f.waitForDtpToConnect /\ f.pending # <<>>
                        /\ Head(f.pending).kind # "ConnectToHost"

\* A raw command is under way, or the data connection it asked for is awaited: it belongs
\* to the command at the head, and those that follow it are to be sent.
Speaking(f) ==
    /\ f.pending # <<>>
    /\ Head(f.pending).kind = IF f.cur \in {"USER", "PASS"} THEN "Login" ELSE "Put"
    /\ f.cmds = Rest(f.cur)
    /\ IF f.waitForDtpToConnect THEN f.cur = "PASV" /\ f.pi = "Idle" ELSE f.pi = "Waiting"
    /\ f.begun => f.cur = "APPE"
    /\ f.dtp = "connecting" => f.waitForDtpToConnect
    /\ f.socket # "opening"

\* The connection is being opened, or its greeting awaited, or the attempt has ended with an
\* error that nobody answers.
Opening(f) ==
    \/ f.socket = "opening"
    \/ f.socket = "open" /\ f.pi = "Begin"
    \/ f.socket = "closed" /\ f.state # "Unconnected"

\* A command is kicked only when nothing is under way, and the connection is opened only
\* for the command at the head.
Talk(f) ==
    /\ IF f.cur = "none" THEN Silent(f) ELSE Speaking(f)
    /\ Opening(f) => f.pending # <<>> /\ Head(f.pending).kind = "ConnectToHost" /\ ~f.kick
    /\ f.kick => f.pending # <<>> /\ f.cur = "none" /\ f.cmds = <<>>

\* Nothing is under way, and the next command may begin.
Ready(f) ==
    /\ f.cur = "none" /\ f.cmds = <<>> /\ f.pi # "Waiting"
    /\ f.dtp # "connecting" /\ ~f.begun /\ ~f.kick /\ ~Opening(f)

\* The same lists and transfers, and the same commands.
SameLists(f, g) ==
    /\ SameBuffer(f, g) /\ g.pending = f.pending /\ g.dropped = f.dropped
    /\ g.task = f.task /\ g.command = f.command /\ g.sent = f.sent /\ g.refused = f.refused

\* A command that does not begin is an error.
Failed(f, g) ==
    /\ Kept(f, g) /\ NoTalk(g) /\ Ended(f, g, TRUE)
    /\ g.pending = <<>> /\ g.dropped = f.dropped \cup Behind(f)

\* After an error nothing is under way.
LEMMA ErrorIsTalk ==
    ASSUME NEW f, NEW g, Failed(f, g), f.socket # "opening", ~f.kick,
           f.socket = "closed" => f.state = "Unconnected"
    PROVE  Talk(g)
  BY DEF Failed, Kept, NoTalk, Talk, Silent, Opening

\* The first raw command of a command is sent, or held back for ever.
LEMMA SendIs ==
    ASSUME NEW f, Typed(f), Ready(f), f.pending # <<>>, Head(f.pending).kind # "ConnectToHost"
    PROVE  LET g == sendCommands(f, RawOf(Head(f.pending)))
           IN  /\ Typed(g) /\ Talk(g)
               /\ \/ /\ f.socket = "open" /\ f.pi = "Idle"
                     /\ SameLists(f, g) /\ g.dtp = f.dtp /\ g.device = f.device
                     /\ ~g.begun /\ g.socket = f.socket /\ ~g.kick
                     /\ g.cur \in {"none", IF Head(f.pending).kind = "Login" THEN "USER" ELSE "TYPE"}
                  \/ ~(f.socket = "open" /\ f.pi = "Idle") /\ Failed(f, g)
<1> DEFINE raw == RawOf(Head(f.pending))
           first == IF Head(f.pending).kind = "Login" THEN "USER" ELSE "TYPE"
<1>1. /\ raw # <<>> /\ raw \in Seq(RawCommands)
      /\ Head(raw) = first /\ Tail(raw) = Rest(first)
  BY RawTails
<1>2. first \in RawCommands /\ Rest(first) \in Seq(RawCommands) /\ first # "none"
  BY RawTails DEF RawCommands
<1>3. Head(f.pending).kind \in {"Login", "Put"}
  BY EmptySeq DEF Typed, Ftp, Commands
<1> HIDE DEF raw, first
<1>4. CASE f.socket = "open" /\ f.pi = "Idle"
  <2> DEFINE c == [f EXCEPT !.cmds = raw]
  <2>1. sendCommands(f, raw) = firstCmd(c)
    BY <1>4 DEF sendCommands, Ready
  <2>2. c \in Ftp
    BY <1>1 DEF Typed, Ftp
  <2>3. /\ c.cmds = raw /\ c.cur = "none" /\ c.waitForDtpToConnect = f.waitForDtpToConnect
        /\ SameLists(f, c) /\ c.dtp = f.dtp /\ c.device = f.device /\ c.begun = f.begun
        /\ c.socket = f.socket /\ c.kick = f.kick /\ c.pi = f.pi /\ c.state = f.state
    BY DEF Typed, Ftp, SameLists, SameBuffer, Ready
  <2>4. Typed(c)
    BY <2>2, <2>3 DEF Typed, SameLists, SameBuffer
  <2> HIDE DEF c
  <2>5. CASE f.waitForDtpToConnect
    <3>1. firstCmd(c) = c
      BY <2>3, <2>5 DEF firstCmd
    <3>2. Talk(c)
      BY <1>4, <2>3, <2>5 DEF Talk, Silent, Ready, Opening, SameLists
    <3>3. QED
      BY <1>4, <2>1, <2>3, <2>4, <3>1, <3>2 DEF Ready, raw
  <2>6. CASE ~f.waitForDtpToConnect
    <3> DEFINE g == [c EXCEPT !.cur = first, !.cmds = Rest(first), !.pi = "Waiting"]
    <3>1. firstCmd(c) = g
      BY <1>1, <2>3, <2>6 DEF firstCmd
    <3>2. g \in Ftp
      BY <1>2, <2>2 DEF Ftp
    <3>3. /\ g.cur = first /\ g.cmds = Rest(first) /\ g.pi = "Waiting"
          /\ g.waitForDtpToConnect = c.waitForDtpToConnect
          /\ SameLists(c, g) /\ g.dtp = c.dtp /\ g.device = c.device /\ g.begun = c.begun
          /\ g.socket = c.socket /\ g.kick = c.kick /\ g.state = c.state
      BY <2>2 DEF Ftp, SameLists, SameBuffer
    <3>4. Typed(g)
      BY <2>4, <3>2, <3>3 DEF Typed, SameLists, SameBuffer
    <3> HIDE DEF g
    <3>5. Talk(g)
      <4>1. first \in {"USER", "PASS"} <=> Head(f.pending).kind = "Login"
        BY DEF first
      <4>2. Speaking(g)
        BY <1>2, <1>3, <1>4, <2>3, <2>6, <3>3, <4>1 DEF Speaking, Ready, SameLists
      <4>3. QED
        BY <1>2, <1>4, <2>3, <3>3, <4>2 DEF Talk, Ready, Opening
    <3>6. SameLists(f, g)
      BY <2>3, <3>3 DEF SameLists, SameBuffer
    <3>7. QED
      BY <1>4, <2>1, <2>3, <3>1, <3>3, <3>4, <3>5, <3>6 DEF Ready, raw, first
  <2>7. QED
    BY <2>5, <2>6
<1>5. CASE ~(f.socket = "open" /\ f.pi = "Idle")
  <2>1. sendCommands(f, raw) = piError(f)
    BY <1>5 DEF sendCommands, Ready
  <2>2. Typed(piError(f)) /\ Failed(f, piError(f))
    BY PiErrorIs DEF Ready, Failed
  <2>3. Talk(piError(f))
    BY <2>2, ErrorIsTalk DEF Ready, Opening
  <2>4. QED
    BY <1>5, <2>1, <2>2, <2>3 DEF raw
<1>6. QED
  BY <1>4, <1>5

\* The next command begins, there is none, or it is held back for ever.
Resumed(f, g) ==
    /\ SameLists(f, g) /\ g.dtp = f.dtp /\ ~g.begun /\ ~g.kick
    /\ g.cur \in {"none", "USER", "TYPE"}
    /\ g.cur = "TYPE" => g.device

\* QFtp goes on from a state in which nothing is under way.
Started(f, g) ==
    /\ Typed(g) /\ Talk(g)
    /\ \/ Resumed(f, g)
       \/ /\ f.pending # <<>> /\ Head(f.pending).kind # "ConnectToHost"
          /\ ~(f.socket = "open" /\ f.pi = "Idle")
          /\ Failed(f, g)

\* From a state in which nothing is under way the next command begins or fails.
LEMMA StartIs ==
    ASSUME NEW f, Typed(f), Ready(f)
    PROVE  Started(f, startNextCommand(f))
<1>1. CASE f.pending = <<>>
  <2>1. startNextCommand(f) = f
    BY <1>1 DEF startNextCommand
  <2>2. Talk(f)
    BY DEF Ready, Talk, Silent
  <2>3. QED
    BY <2>1, <2>2 DEF Started, Resumed, SameLists, SameBuffer, Ready
<1>2. CASE f.pending # <<>> /\ Head(f.pending).kind = "ConnectToHost"
  <2> DEFINE s == IF f.socket = "closed" THEN "opening" ELSE f.socket
             g == [f EXCEPT !.state = "Connecting", !.socket = s]
  <2>1. startNextCommand(f) = g
    BY <1>2 DEF startNextCommand, Typed, Ftp
  <2>2. s \in {"opening", "open"}
    BY DEF Ready, Typed, Ftp
  <2> HIDE DEF s
  <2>3. g \in Ftp
    BY <2>2 DEF Typed, Ftp
  <2>4. /\ SameLists(f, g) /\ g.dtp = f.dtp /\ g.begun = f.begun /\ g.kick = f.kick
        /\ g.cur = f.cur /\ g.cmds = f.cmds /\ g.pi = f.pi /\ g.socket = s
    BY DEF Typed, Ftp, SameLists, SameBuffer
  <2>5. Typed(g)
    BY <2>3, <2>4 DEF Typed, SameLists, SameBuffer
  <2> HIDE DEF g
  <2>6. Talk(g)
    BY <1>2, <2>2, <2>4 DEF Talk, Silent, Ready, SameLists
  <2>7. QED
    BY <2>1, <2>4, <2>5, <2>6 DEF Started, Resumed, Ready
<1>3. CASE f.pending # <<>> /\ Head(f.pending).kind = "Login"
  BY <1>3, SendIs DEF startNextCommand, Started, Resumed
<1>4. CASE f.pending # <<>> /\ Head(f.pending).kind = "Put"
  <2> DEFINE c == [f EXCEPT !.device = TRUE]
             g == sendCommands(c, RawOf(Head(c.pending)))
  <2>1. startNextCommand(f) = g
    BY <1>4 DEF startNextCommand, Typed, Ftp
  <2>2. c \in Ftp /\ c.device
    BY DEF Typed, Ftp
  <2>3. /\ SameLists(f, c) /\ Kept(f, c) /\ c.dtp = f.dtp /\ c.begun = f.begun
        /\ c.cur = f.cur /\ c.cmds = f.cmds /\ c.pi = f.pi
    BY DEF Typed, Ftp, SameLists, SameBuffer, Kept
  <2>4. Typed(c)
    BY <2>2, <2>3 DEF Typed, SameLists, SameBuffer
  <2> HIDE DEF c
  <2>5. Ready(c) /\ c.pending = f.pending
    BY <2>3 DEF Ready, Opening, Kept, SameLists
  <2>6. /\ Typed(g) /\ Talk(g)
        /\ \/ /\ c.socket = "open" /\ c.pi = "Idle"
              /\ SameLists(c, g) /\ g.dtp = c.dtp /\ g.device = c.device
              /\ ~g.begun /\ g.socket = c.socket /\ ~g.kick
              /\ g.cur \in {"none", "TYPE"}
           \/ ~(c.socket = "open" /\ c.pi = "Idle") /\ Failed(c, g)
    <3> DEFINE first == IF Head(c.pending).kind = "Login" THEN "USER" ELSE "TYPE"
    <3>1. first = "TYPE"
      BY <1>4, <2>5
    <3> HIDE DEF first
    <3>2. /\ Typed(g) /\ Talk(g)
          /\ \/ /\ c.socket = "open" /\ c.pi = "Idle"
                /\ SameLists(c, g) /\ g.dtp = c.dtp /\ g.device = c.device
                /\ ~g.begun /\ g.socket = c.socket /\ ~g.kick
                /\ g.cur \in {"none", first}
             \/ ~(c.socket = "open" /\ c.pi = "Idle") /\ Failed(c, g)
      BY <1>4, <2>4, <2>5, SendIs DEF first
    <3>3. QED
      BY <3>1, <3>2
  <2> HIDE DEF g
  <2>7. CASE c.socket = "open" /\ c.pi = "Idle"
    <3>1. SameLists(f, g) /\ g.dtp = f.dtp
      BY <2>3, <2>6, <2>7 DEF SameLists, SameBuffer
    <3>2. QED
      BY <2>1, <2>2, <2>6, <2>7, <3>1 DEF Started, Resumed
  <2>8. CASE ~(c.socket = "open" /\ c.pi = "Idle")
    <3>1. Failed(f, g)
      BY <2>3, <2>6, <2>8
      DEF Failed, Kept, SameLists, SameBuffer, Ended, Mine, Behind
    <3>2. QED
      BY <1>4, <2>1, <2>3, <2>6, <2>8, <3>1 DEF Started, Kept
  <2>9. QED
    BY <2>7, <2>8
<1>5. QED
  <2>1. f.pending # <<>> => Head(f.pending).kind \in {"ConnectToHost", "Login", "Put"}
    BY EmptySeq DEF Typed, Ftp, Commands
  <2>2. QED
    BY <1>1, <1>2, <1>3, <1>4, <2>1

\* The command at the head has ended well, the next one has not begun.
Passed(f, h) ==
    /\ Typed(h) /\ Ready(h) /\ Ended(f, h, FALSE)
    /\ h.pending = Tail(f.pending) /\ h.dropped = f.dropped /\ h.dtp = f.dtp
    /\ h.task = f.task /\ h.command = f.command /\ h.sent = f.sent /\ h.refused = f.refused

\* The command at the head has ended well, and QFtp goes on with the next.
Finished(f, g) == \E h : Passed(f, h) /\ Started(h, g)

\* The command at the head ends, and the next begins or fails.
LEMMA FinishIs ==
    ASSUME NEW f, Typed(f), Ready(f), f.pending # <<>>
    PROVE  Finished(f, piFinished(f))
<1> DEFINE c == commandFinished(f, FALSE)
           h == [c EXCEPT !.pending = Tail(c.pending)]
<1>1. /\ Typed(c) /\ Kept(f, c) /\ SameTalk(f, c) /\ Ended(f, c, FALSE)
      /\ c.pending = f.pending /\ c.dropped = f.dropped
  BY CommandFinishedIs
<1>2. piFinished(f) = startNextCommand(h)
  BY <1>1 DEF piFinished, Typed, Ftp
<1>3. Tail(c.pending) \in Seq(Commands)
  BY <1>1, HeadTailProperties DEF Typed, Ftp
<1> HIDE DEF c
<1>4. h \in Ftp
  BY <1>1, <1>3 DEF Typed, Ftp
<1>5. /\ h.pending = Tail(c.pending) /\ Kept(c, h) /\ SameTalk(c, h) /\ SameBuffer(c, h)
      /\ h.dropped = c.dropped
  BY <1>1 DEF Typed, Ftp, Kept, SameTalk, SameBuffer
<1>6. Typed(h)
  BY <1>1, <1>4, <1>5 DEF Typed, Kept, SameBuffer
<1> HIDE DEF h
<1>7. Kept(f, h) /\ SameTalk(f, h)
  BY <1>1, <1>5 DEF Kept, SameTalk
<1>8. Ended(f, h, FALSE)
  BY <1>1, <1>5 DEF Ended, SameBuffer
<1>9. Ready(h)
  BY <1>7 DEF Ready, Opening, Kept, SameTalk
<1>10. Passed(f, h)
  BY <1>1, <1>5, <1>6, <1>7, <1>8, <1>9 DEF Passed, Kept, SameTalk
<1>11. Started(h, startNextCommand(h))
  BY <1>6, <1>9, StartIs
<1>12. QED
  BY <1>2, <1>10, <1>11 DEF Finished

\* A raw command is answered, and the next one of the same command is sent.
Moved(f, g) ==
    /\ Typed(g) /\ Talk(g) /\ SameLists(f, g)
    /\ g.dtp = f.dtp /\ g.device = f.device /\ ~g.begun
    /\ Follows(f.cur, g.cur)

\* As long as raw commands are left, the next of them is sent.
LEMMA MoveIs ==
    ASSUME NEW f, Typed(f), f.cur \in RawCommands \ {"PASS", "APPE"}, f.cmds = Rest(f.cur),
           ~f.waitForDtpToConnect, ~f.begun, f.dtp # "connecting", ~f.kick,
           f.socket # "opening", f.socket = "closed" => f.state = "Unconnected",
           f.pending # <<>>,
           Head(f.pending).kind = IF f.cur = "USER" THEN "Login" ELSE "Put"
    PROVE  Moved(f, startNextCmd(f))
<1> DEFINE d == Head(f.cmds)
           rest == Tail(f.cmds)
           g == [f EXCEPT !.cur = d, !.cmds = rest, !.pi = "Waiting"]
<1>1. f.cmds # <<>> /\ d \in RawCommands /\ Follows(f.cur, d) /\ rest = Rest(d)
  BY RawTails
<1>2. rest \in Seq(RawCommands)
  BY <1>1, RawTails
<1>3. startNextCmd(f) = g
  BY <1>1 DEF startNextCmd, firstCmd
<1> HIDE DEF d, rest
<1>4. g \in Ftp
  BY <1>1, <1>2 DEF Typed, Ftp
<1>5. /\ g.cur = d /\ g.cmds = rest /\ g.pi = "Waiting" /\ SameLists(f, g)
      /\ g.waitForDtpToConnect = f.waitForDtpToConnect /\ g.dtp = f.dtp
      /\ g.device = f.device /\ g.begun = f.begun /\ g.kick = f.kick
      /\ g.socket = f.socket /\ g.state = f.state
  BY DEF Typed, Ftp, SameLists, SameBuffer
<1>6. Typed(g)
  BY <1>4, <1>5 DEF Typed, SameLists, SameBuffer
<1> HIDE DEF g
<1>7. d \in {"USER", "PASS"} <=> f.cur = "USER"
  BY <1>1 DEF Follows
<1>8. Speaking(g)
  BY <1>1, <1>5, <1>7 DEF Speaking, SameLists
<1>9. d # "none"
  BY <1>1 DEF RawCommands
<1>10. Talk(g)
  BY <1>5, <1>8, <1>9 DEF Talk, Opening
<1>11. QED
  BY <1>1, <1>3, <1>5, <1>6, <1>10 DEF Moved

\* When no raw command is left, the command has ended.
LEMMA EndIs ==
    ASSUME NEW f, Typed(f), f.cmds = <<>>, ~f.waitForDtpToConnect, f.pi = "Idle",
           f.dtp # "connecting", ~f.kick, f.socket = "open", f.pending # <<>>
    PROVE  Finished(f, startNextCmd(f))
<1> DEFINE e == [f EXCEPT !.cur = "none", !.begun = FALSE]
<1>1. startNextCmd(f) = piFinished(e)
  BY DEF startNextCmd
<1>2. e \in Ftp
  BY DEF Typed, Ftp
<1>3. /\ e.cur = "none" /\ ~e.begun /\ SameLists(f, e) /\ e.dtp = f.dtp
      /\ e.cmds = f.cmds /\ e.pi = f.pi /\ e.kick = f.kick /\ e.socket = f.socket
  BY DEF Typed, Ftp, SameLists, SameBuffer
<1>4. Typed(e)
  BY <1>2, <1>3 DEF Typed, SameLists, SameBuffer
<1> HIDE DEF e
<1>5. Ready(e) /\ e.pending # <<>>
  BY <1>3 DEF Ready, Opening, SameLists
<1>6. Finished(e, piFinished(e))
  BY <1>4, <1>5, FinishIs
<1>7. PICK h : Passed(e, h) /\ Started(h, piFinished(e))
  BY <1>6 DEF Finished
<1>8. Passed(f, h)
  BY <1>3, <1>7 DEF Passed, Ended, Mine, SameLists, SameBuffer
<1>9. QED
  BY <1>1, <1>7, <1>8 DEF Finished

\* An answer ends the command under way, or the next raw command is sent.
LEMMA SuccessIs ==
    ASSUME NEW f, Typed(f), Talk(f), f.socket = "open", f.pi = "Waiting"
    PROVE  /\ f.cur \in {"PASS", "APPE"} => Finished(f, Success(f))
           /\ f.cur \notin {"PASS", "APPE"} => Moved(f, Success(f))
<1> DEFINE c == [f EXCEPT !.pi = "Idle"]
<1>1. Success(f) = startNextCmd(c)
  BY DEF Success
<1>2. c \in Ftp
  BY DEF Typed, Ftp
<1>3. /\ c.pi = "Idle" /\ SameLists(f, c) /\ c.cur = f.cur /\ c.cmds = f.cmds
      /\ c.waitForDtpToConnect = f.waitForDtpToConnect /\ c.dtp = f.dtp
      /\ c.device = f.device /\ c.begun = f.begun /\ c.kick = f.kick
      /\ c.socket = f.socket /\ c.state = f.state
  BY DEF Typed, Ftp, SameLists, SameBuffer
<1>4. Typed(c)
  BY <1>2, <1>3 DEF Typed, SameLists, SameBuffer
<1> HIDE DEF c
<1>5. f.cur # "none" /\ f.cur \in RawCommands /\ Speaking(f) /\ ~f.kick
  BY DEF Talk, Silent, Typed, Ftp
<1>6. ~f.waitForDtpToConnect /\ f.dtp # "connecting" /\ f.pending # <<>>
  BY <1>5 DEF Speaking
<1>7. CASE f.cur \in {"PASS", "APPE"}
  <2>1. c.cmds = <<>>
    BY <1>3, <1>5, <1>7, RawTails DEF Speaking
  <2>2. Finished(c, startNextCmd(c))
    BY <1>3, <1>4, <1>5, <1>6, <2>1, EndIs DEF SameLists
  <2>3. PICK h : Passed(c, h) /\ Started(h, startNextCmd(c))
    BY <2>2 DEF Finished
  <2>4. Passed(f, h)
    BY <1>3, <2>3 DEF Passed, Ended, Mine, SameLists, SameBuffer
  <2>5. QED
    BY <1>1, <1>7, <2>3, <2>4 DEF Finished
<1>8. CASE f.cur \notin {"PASS", "APPE"}
  <2>1. /\ ~c.begun /\ c.pending # <<>> /\ c.cmds = Rest(c.cur)
        /\ Head(c.pending).kind = IF c.cur = "USER" THEN "Login" ELSE "Put"
    BY <1>3, <1>5, <1>8 DEF Speaking, SameLists
  <2>2. Moved(c, startNextCmd(c))
    BY <1>3, <1>4, <1>5, <1>6, <1>8, <2>1, MoveIs
  <2>3. QED
    BY <1>1, <1>3, <1>8, <2>2 DEF Moved, SameLists, SameBuffer
<1>9. QED
  BY <1>7, <1>8

\* An answer of failure ends the command, but for the one to ALLO.
LEMMA FailureIs ==
    ASSUME NEW f, Typed(f), Talk(f), f.socket = "open", f.pi = "Waiting"
    PROVE  /\ f.cur = "ALLO" => Moved(f, Failure(f))
           /\ f.cur # "ALLO" => Typed(Failure(f)) /\ Talk(Failure(f)) /\ Failed(f, Failure(f))
<1>1. f.cur # "none" /\ f.cur \in RawCommands /\ Speaking(f) /\ ~f.kick
  BY DEF Talk, Silent, Typed, Ftp
<1>2. ~f.waitForDtpToConnect /\ f.dtp # "connecting" /\ f.pending # <<>>
  BY <1>1 DEF Speaking
<1>3. CASE f.cur = "ALLO"
  <2>1. Head(f.pending).kind = "Put"
    BY <1>1, <1>3 DEF Speaking
  <2>2. Failure(f) = Success(f)
    BY <1>3, <2>1 DEF Failure, Success, piError
  <2>3. QED
    BY <1>3, <2>2, SuccessIs
<1>4. CASE f.cur # "ALLO"
  <2> DEFINE g == piError(f)
  <2>1. /\ Typed(g) /\ Kept(f, g) /\ NoTalk(g) /\ Ended(f, g, TRUE)
        /\ g.pending = <<>> /\ g.dropped = f.dropped \cup Behind(f)
    BY <1>2, <1>4, PiErrorIs
  <2>2. Failure(f) = startNextCmd([g EXCEPT !.pi = "Idle"])
    BY DEF Failure
  <2> HIDE DEF g
  <2>3. [g EXCEPT !.pi = "Idle"] = g /\ [g EXCEPT !.cur = "none", !.begun = FALSE] = g
    BY <2>1 DEF Typed, Ftp, NoTalk
  <2>4. startNextCmd(g) = g
    BY <1>2, <2>1, <2>3 DEF startNextCmd, piFinished, NoTalk, Kept
  <2>5. Failed(f, g)
    BY <2>1 DEF Failed
  <2>6. Talk(g)
    BY <1>1, <2>5, ErrorIsTalk
  <2>7. QED
    BY <1>4, <2>1, <2>2, <2>3, <2>4, <2>5, <2>6
<1>5. QED
  BY <1>3, <1>4
-----------------------------------------------------------------------------
(* What the slots of QFtp's thread do *)

\* A record with a conversation that fits its commands.
Sound(f) == Typed(f) /\ Talk(f)

\* The lists, their transfers and the commands of g are those of f, and the conversation
\* stands where it stood.
Quiet(f, g) ==
    /\ Sound(g) /\ SameLists(f, g)
    /\ g.cur = f.cur /\ g.begun = f.begun /\ g.device = f.device

\* The command under way ends with an error, and those behind it are dropped.
Fails(f, g) ==
    /\ Sound(g) /\ NoTalk(g) /\ Ended(f, g, TRUE)
    /\ g.pending = <<>> /\ g.dropped = f.dropped \cup Behind(f)
    /\ g.task = f.task /\ g.command = f.command /\ g.sent = f.sent /\ g.refused = f.refused

\* Changes outside the lists do not matter to what an error does.
LEMMA FailedIsFails ==
    ASSUME NEW f, NEW c, NEW g, SameLists(f, c), Failed(c, g), Sound(g)
    PROVE  Fails(f, g)
  BY DEF Fails, Failed, Kept, SameLists, SameBuffer, Ended, Mine, Behind

\* An attempt that comes to nothing, or a data connection that is refused.
LEMMA ErrorIs ==
    ASSUME NEW f, NEW c, Sound(f), Typed(c), SameLists(f, c), c.cur = f.cur, f.cur # "ALLO",
           f.pending # <<>>, ~c.kick, c.socket # "opening",
           c.socket = "closed" => c.state = "Unconnected"
    PROVE  Fails(f, piError(c))
<1>1. Typed(piError(c)) /\ Failed(c, piError(c))
  BY PiErrorIs DEF SameLists, Failed
<1>2. Talk(piError(c))
  BY <1>1, ErrorIsTalk
<1>3. QED
  BY <1>1, <1>2, FailedIsFails DEF Sound

\* The queued start begins a command only when nothing is under way.
LEMMA KickIs ==
    ASSUME Sound(ftp), Kick
    PROVE  /\ ftp.cur = "none" /\ ftp.pending # <<>>
           /\ \/ Sound(ftp') /\ Resumed(ftp, ftp')
              \/ /\ Head(ftp.pending).kind # "ConnectToHost"
                 /\ ~(ftp.socket = "open" /\ ftp.pi = "Idle")
                 /\ Fails(ftp, ftp')
<1> DEFINE c == [ftp EXCEPT !.kick = FALSE]
<1>1. ftp' = startNextCommand(c)
  BY DEF Kick
<1>2. c \in Ftp
  BY DEF Sound, Typed, Ftp
<1>3. /\ SameLists(ftp, c) /\ c.dtp = ftp.dtp /\ c.cur = ftp.cur /\ c.cmds = ftp.cmds
      /\ c.pi = ftp.pi /\ c.begun = ftp.begun /\ ~c.kick /\ c.socket = ftp.socket
      /\ c.state = ftp.state
  BY DEF Sound, Typed, Ftp, SameLists, SameBuffer
<1>4. Typed(c)
  BY <1>2, <1>3 DEF Sound, Typed, SameLists, SameBuffer
<1> HIDE DEF c
<1>5. ftp.cur = "none" /\ ftp.cmds = <<>> /\ ftp.pending # <<>> /\ Silent(ftp) /\ ~Opening(ftp)
  BY DEF Sound, Talk, Kick
<1>6. Ready(c)
  BY <1>3, <1>5 DEF Ready, Silent, Opening, Sound, Talk
<1>7. Started(c, ftp')
  BY <1>1, <1>4, <1>6, StartIs
<1>8. CASE Resumed(c, ftp')
  <2>1. Resumed(ftp, ftp')
    BY <1>3, <1>8 DEF Resumed, SameLists, SameBuffer
  <2>2. QED
    BY <1>5, <1>7, <2>1 DEF Started, Sound
<1>9. CASE /\ c.pending # <<>> /\ Head(c.pending).kind # "ConnectToHost"
           /\ ~(c.socket = "open" /\ c.pi = "Idle")
           /\ Failed(c, ftp')
  <2>1. Fails(ftp, ftp')
    BY <1>3, <1>7, <1>9, FailedIsFails DEF Started, Sound
  <2>2. QED
    BY <1>3, <1>5, <1>9, <2>1 DEF SameLists
<1>10. QED
  BY <1>7, <1>8, <1>9 DEF Started

\* A connection attempt ends: the greeting is awaited, or the command has failed.
LEMMA ConnectIs ==
    ASSUME Sound(ftp), Connect
    PROVE  \/ Quiet(ftp, ftp') /\ ftp'.dtp = ftp.dtp
           \/ Fails(ftp, ftp')
<1>1. /\ ftp.pending # <<>> /\ Head(ftp.pending).kind = "ConnectToHost" /\ ~ftp.kick
      /\ ftp.cur = "none" /\ Silent(ftp)
  BY DEF Sound, Talk, Opening, Speaking, Connect
<1>2. CASE ftp' = [ftp EXCEPT !.socket = "open", !.state = "Connected", !.pi = "Begin"]
  <2>1. ftp' \in Ftp
    BY <1>2 DEF Sound, Typed, Ftp
  <2>2. /\ SameLists(ftp, ftp') /\ ftp'.cur = ftp.cur /\ ftp'.begun = ftp.begun
        /\ ftp'.device = ftp.device /\ ftp'.dtp = ftp.dtp /\ ftp'.cmds = ftp.cmds
        /\ ftp'.pi = "Begin" /\ ftp'.kick = ftp.kick /\ ftp'.socket = "open"
    BY <1>2 DEF Sound, Typed, Ftp, SameLists, SameBuffer
  <2>3. Typed(ftp')
    BY <2>1, <2>2 DEF Sound, Typed, SameLists, SameBuffer
  <2>4. Talk(ftp')
    BY <1>1, <2>2 DEF Talk, Silent, SameLists
  <2>5. QED
    BY <2>2, <2>3, <2>4 DEF Quiet, Sound
<1>3. CASE ftp' = piError([ftp EXCEPT !.socket = "closed", !.state = "Unconnected"])
  <2> DEFINE c == [ftp EXCEPT !.socket = "closed", !.state = "Unconnected"]
  <2>1. c \in Ftp
    BY DEF Sound, Typed, Ftp
  <2>2. /\ SameLists(ftp, c) /\ c.cur = ftp.cur /\ c.kick = ftp.kick
        /\ c.socket = "closed" /\ c.state = "Unconnected"
    BY DEF Sound, Typed, Ftp, SameLists, SameBuffer
  <2>3. Typed(c)
    BY <2>1, <2>2 DEF Sound, Typed, SameLists, SameBuffer
  <2> HIDE DEF c
  <2>4. Fails(ftp, piError(c))
    BY <1>1, <2>2, <2>3, ErrorIs
  <2>5. QED
    BY <1>3, <2>4 DEF c
<1>4. CASE ftp' = [ftp EXCEPT !.socket = "closed"]
  <2>1. ftp' \in Ftp
    BY <1>4 DEF Sound, Typed, Ftp
  <2>2. /\ SameLists(ftp, ftp') /\ ftp'.cur = ftp.cur /\ ftp'.begun = ftp.begun
        /\ ftp'.device = ftp.device /\ ftp'.dtp = ftp.dtp /\ ftp'.cmds = ftp.cmds
        /\ ftp'.pi = ftp.pi /\ ftp'.kick = ftp.kick
        /\ ftp'.waitForDtpToConnect = ftp.waitForDtpToConnect
    BY <1>4 DEF Sound, Typed, Ftp, SameLists, SameBuffer
  <2>3. Typed(ftp')
    BY <2>1, <2>2 DEF Sound, Typed, SameLists, SameBuffer
  <2>4. Talk(ftp')
    BY <1>1, <2>2 DEF Talk, Silent, SameLists
  <2>5. QED
    BY <2>2, <2>3, <2>4 DEF Quiet, Sound
<1>5. QED
  BY <1>2, <1>3, <1>4 DEF Connect

\* The greeting ends the command that asked for the connection.
LEMMA GreetingIs ==
    ASSUME Sound(ftp), Greeting
    PROVE  /\ ftp.cur = "none" /\ Head(ftp.pending).kind = "ConnectToHost"
           /\ ftp.pending # <<>> /\ Finished(ftp, ftp')
<1> DEFINE c == [ftp EXCEPT !.pi = "Idle"]
<1>1. /\ ftp.pending # <<>> /\ Head(ftp.pending).kind = "ConnectToHost" /\ ~ftp.kick
      /\ ftp.cur = "none" /\ Silent(ftp) /\ ftp.socket = "open"
  BY DEF Sound, Talk, Opening, Speaking, Greeting
<1>2. c \in Ftp
  BY DEF Sound, Typed, Ftp
<1>3. /\ SameLists(ftp, c) /\ c.dtp = ftp.dtp /\ c.cur = ftp.cur /\ c.cmds = ftp.cmds
      /\ c.pi = "Idle" /\ c.begun = ftp.begun /\ c.kick = ftp.kick /\ c.socket = ftp.socket
  BY DEF Sound, Typed, Ftp, SameLists, SameBuffer
<1>4. Typed(c)
  BY <1>2, <1>3 DEF Sound, Typed, SameLists, SameBuffer
<1> HIDE DEF c
<1>5. Ready(c) /\ c.pending # <<>>
  BY <1>1, <1>3 DEF Ready, Silent, Opening, SameLists
<1>6. PICK h : Passed(c, h) /\ Started(h, piFinished(c))
  BY <1>4, <1>5, FinishIs DEF Finished
<1>7. Passed(ftp, h)
  BY <1>3, <1>6 DEF Passed, Ended, Mine, SameLists, SameBuffer
<1>8. ftp' = piFinished(c)
  BY DEF Greeting, c
<1>9. QED
  BY <1>1, <1>6, <1>7, <1>8 DEF Finished

\* Where an answer is awaited, a raw command is under way.
LEMMA WaitingIs ==
    ASSUME Sound(ftp), Waiting
    PROVE  /\ Speaking(ftp) /\ ftp.cur \in RawCommands /\ ~ftp.kick /\ ftp.pending # <<>>
           /\ ftp.socket = "open" /\ ftp.pi = "Waiting" /\ ~ftp.waitForDtpToConnect
           /\ ftp.dtp # "connecting"
  BY DEF Sound, Talk, Silent, Speaking, Typed, Ftp, Waiting

\* A refusal ends the command, but one of ALLO is passed over.
LEMMA ReplyFailureIs ==
    ASSUME Sound(ftp), ReplyFailure
    PROVE  \/ ftp.cur = "ALLO" /\ Moved(ftp, ftp')
           \/ Fails(ftp, ftp')
<1>1. ftp' = Failure(ftp) /\ ftp.socket = "open" /\ ftp.pi = "Waiting"
  BY DEF ReplyFailure, Waiting
<1>2. SameLists(ftp, ftp)
  BY DEF SameLists, SameBuffer
<1>3. QED
  BY <1>1, <1>2, FailureIs, FailedIsFails DEF Sound

\* The login goes on to PASS or has ended.
LEMMA ReplyLoginIs ==
    ASSUME Sound(ftp), ReplyLogin
    PROVE  /\ ftp.cur \in {"USER", "PASS"} /\ Speaking(ftp)
           /\ Finished(ftp, ftp') \/ Moved(ftp, ftp')
<1>1. /\ Speaking(ftp) /\ ~ftp.kick /\ ftp.pending # <<>> /\ ~ftp.waitForDtpToConnect
      /\ ftp.socket = "open" /\ ftp.pi = "Waiting" /\ ftp.dtp # "connecting"
  BY WaitingIs DEF ReplyLogin
<1>2. CASE ftp.cur = "USER" /\ ftp' = Success(ftp)
  BY <1>1, <1>2, SuccessIs DEF Sound
<1>3. ASSUME NEW c, c \in Ftp, SameLists(ftp, c), c.cmds = <<>>, c.dtp = ftp.dtp,
             c.waitForDtpToConnect = ftp.waitForDtpToConnect, c.kick = ftp.kick,
             c.socket = ftp.socket, ftp' = Success(c)
      PROVE  Finished(ftp, ftp')
  <2> DEFINE e == [c EXCEPT !.pi = "Idle"]
  <2>1. e \in Ftp
    BY <1>3 DEF Ftp
  <2>2. /\ SameLists(ftp, e) /\ e.cmds = <<>> /\ e.dtp = ftp.dtp /\ ~e.waitForDtpToConnect
        /\ ~e.kick /\ e.socket = "open" /\ e.pi = "Idle" /\ e.pending # <<>>
    BY <1>1, <1>3 DEF Ftp, SameLists, SameBuffer
  <2>3. Typed(e)
    BY <2>1, <2>2 DEF Sound, Typed, SameLists, SameBuffer
  <2>4. ftp' = startNextCmd(e)
    BY <1>3 DEF Success
  <2> HIDE DEF e
  <2>5. PICK h : Passed(e, h) /\ Started(h, ftp')
    BY <1>1, <2>2, <2>3, <2>4, EndIs DEF Finished
  <2>6. Passed(ftp, h)
    BY <2>2, <2>5 DEF Passed, Ended, Mine, SameLists, SameBuffer
  <2>7. QED
    BY <2>5, <2>6 DEF Finished
<1>4. CASE ftp.cur = "USER" /\ ftp' = Success([ftp EXCEPT !.cmds = <<>>, !.state = "LoggedIn"])
  <2> DEFINE c == [ftp EXCEPT !.cmds = <<>>, !.state = "LoggedIn"]
  <2>1. c \in Ftp
    BY EmptySeq DEF Sound, Typed, Ftp
  <2>2. /\ SameLists(ftp, c) /\ c.cmds = <<>> /\ c.dtp = ftp.dtp /\ c.kick = ftp.kick
        /\ c.waitForDtpToConnect = ftp.waitForDtpToConnect /\ c.socket = ftp.socket
    BY DEF Sound, Typed, Ftp, SameLists, SameBuffer
  <2> HIDE DEF c
  <2>3. ftp' = Success(c)
    BY <1>4 DEF c
  <2>4. QED
    BY <1>1, <1>3, <1>4, <2>1, <2>2, <2>3
<1>5. CASE ftp.cur = "PASS" /\ ftp' = Success([ftp EXCEPT !.state = "LoggedIn"])
  <2> DEFINE c == [ftp EXCEPT !.state = "LoggedIn"]
  <2>1. c \in Ftp
    BY DEF Sound, Typed, Ftp
  <2>2. /\ SameLists(ftp, c) /\ c.cmds = ftp.cmds /\ c.dtp = ftp.dtp /\ c.kick = ftp.kick
        /\ c.waitForDtpToConnect = ftp.waitForDtpToConnect /\ c.socket = ftp.socket
    BY DEF Sound, Typed, Ftp, SameLists, SameBuffer
  <2>3. ftp.cmds = <<>>
    BY <1>1, <1>5, RawTails DEF Speaking
  <2> HIDE DEF c
  <2>4. ftp' = Success(c)
    BY <1>5 DEF c
  <2>5. QED
    BY <1>1, <1>3, <1>5, <2>1, <2>2, <2>3, <2>4
<1>6. QED
  BY <1>2, <1>4, <1>5 DEF ReplyLogin

\* A slot that sets some fields before it reads the next answer as a success.
LEMMA ReplySizeIs ==
    ASSUME Sound(ftp), ReplySize
    PROVE  /\ ftp.cur = "SIZE" /\ Speaking(ftp)
           /\ \/ ~ftp.device /\ Quiet(ftp, ftp') /\ ftp'.dtp = ftp.dtp
              \/ /\ ftp.device
                 /\ \E c : /\ Moved(c, ftp') /\ c.pos = 0 /\ c.cur = "SIZE" /\ c.dtp = ftp.dtp
                           /\ c.device /\ SameLists([ftp EXCEPT !.pos = 0], c)
<1>1. /\ Speaking(ftp) /\ ~ftp.kick /\ ftp.pending # <<>> /\ ~ftp.waitForDtpToConnect
      /\ ftp.socket = "open" /\ ftp.pi = "Waiting" /\ ftp.dtp # "connecting"
      /\ ftp.cur = "SIZE"
  BY WaitingIs DEF ReplySize
<1>2. CASE ~ftp.device
  <2>1. ftp' = [ftp EXCEPT !.alive = FALSE]
    BY <1>2 DEF ReplySize
  <2>2. ftp' \in Ftp
    BY <2>1 DEF Sound, Typed, Ftp
  <2>3. /\ SameLists(ftp, ftp') /\ SameTalk(ftp, ftp') /\ ftp'.kick = ftp.kick
        /\ ftp'.waitForDtpToConnect = ftp.waitForDtpToConnect /\ ftp'.socket = ftp.socket
        /\ ftp'.state = ftp.state
    BY <2>1 DEF Sound, Typed, Ftp, SameLists, SameBuffer, SameTalk
  <2>4. Typed(ftp')
    BY <2>2, <2>3 DEF Sound, Typed, SameLists, SameBuffer
  <2>5. Speaking(ftp')
    BY <1>1, <2>3 DEF Speaking, SameLists, SameTalk
  <2>6. Talk(ftp')
    BY <1>1, <2>3, <2>5 DEF Talk, Opening, SameTalk
  <2>7. QED
    BY <1>1, <1>2, <2>3, <2>4, <2>6 DEF Quiet, Sound, SameTalk
<1>3. CASE ftp.device
  <2> DEFINE c == [ftp EXCEPT !.pos = 0]
  <2>1. ftp' = Success(c)
    BY <1>3 DEF ReplySize
  <2>2. c \in Ftp
    BY DEF Sound, Typed, Ftp
  <2>3. /\ c.pos = 0 /\ c.rows = ftp.rows /\ SameTalk(ftp, c) /\ Kept(ftp, c)
        /\ c.pending = ftp.pending
    BY DEF Sound, Typed, Ftp, SameTalk, Kept
  <2>4. Typed(c)
    <3>1. Len(ftp.rows) \in Nat
      BY LenProperties DEF Sound, Typed, Ftp
    <3>2. QED
      BY <2>2, <2>3, <3>1 DEF Sound, Typed, Kept
  <2>5. SameLists(c, c)
    BY DEF SameLists, SameBuffer
  <2>6. SameLists([ftp EXCEPT !.pos = 0], c)
    BY <2>5
  <2> HIDE DEF c
  <2>7. Speaking(c)
    BY <1>1, <2>3 DEF Speaking, SameTalk, Kept
  <2>8. Talk(c)
    BY <1>1, <2>3, <2>7 DEF Talk, Opening, SameTalk, Kept
  <2>9. Moved(c, Success(c))
    BY <1>1, <2>3, <2>4, <2>8, SuccessIs DEF SameTalk, Kept
  <2>10. QED
    BY <1>1, <1>3, <2>1, <2>3, <2>6, <2>9 DEF SameTalk
<1>4. QED
  BY <1>2, <1>3

\* TYPE and ALLO are followed by the next raw command, PASV waits for its connection.
LEMMA ReplyTransferIs ==
    ASSUME Sound(ftp), ReplyTransfer
    PROVE  \/ ftp.cur \in {"TYPE", "ALLO"} /\ Moved(ftp, ftp')
           \/ ftp.cur = "PASV" /\ Quiet(ftp, ftp') /\ ftp'.dtp = "connecting"
<1>1. /\ Speaking(ftp) /\ ~ftp.kick /\ ftp.pending # <<>> /\ ~ftp.waitForDtpToConnect
      /\ ftp.socket = "open" /\ ftp.pi = "Waiting" /\ ftp.dtp # "connecting"
  BY WaitingIs DEF ReplyTransfer
<1>2. CASE ftp.cur \in {"TYPE", "ALLO"} /\ ftp' = Success(ftp)
  BY <1>1, <1>2, SuccessIs DEF Sound
<1>3. CASE /\ ftp.cur = "PASV"
           /\ ftp' = Success([ftp EXCEPT !.waitForDtpToConnect = TRUE, !.dtp = "connecting"])
  <2> DEFINE c == [ftp EXCEPT !.waitForDtpToConnect = TRUE, !.dtp = "connecting"]
             g == [c EXCEPT !.pi = "Idle"]
  <2>1. c.waitForDtpToConnect /\ g.waitForDtpToConnect
    BY DEF Sound, Typed, Ftp
  <2>2. ftp' = g
    BY <1>3, <2>1 DEF Success, startNextCmd, firstCmd
  <2>3. g \in Ftp
    BY DEF Sound, Typed, Ftp
  <2>4. /\ SameLists(ftp, g) /\ g.cur = ftp.cur /\ g.cmds = ftp.cmds /\ g.pi = "Idle"
        /\ g.begun = ftp.begun /\ g.device = ftp.device /\ g.dtp = "connecting"
        /\ g.kick = ftp.kick /\ g.socket = ftp.socket /\ g.state = ftp.state
    BY DEF Sound, Typed, Ftp, SameLists, SameBuffer
  <2>5. Typed(g)
    BY <2>3, <2>4 DEF Sound, Typed, SameLists, SameBuffer
  <2> HIDE DEF g
  <2>6. Speaking(g)
    BY <1>1, <1>3, <2>1, <2>4 DEF Speaking, SameLists
  <2>7. Talk(g)
    BY <1>1, <1>3, <2>4, <2>6 DEF Talk, Opening
  <2>8. QED
    BY <1>3, <2>2, <2>4, <2>5, <2>7 DEF Quiet, Sound
<1>4. QED
  BY <1>2, <1>3 DEF ReplyTransfer

\* The part of a sequence that begins with its first element is the whole.
LEMMA WholeSubSeq ==
    ASSUME NEW S, NEW s \in Seq(S)
    PROVE  SubSeq(s, 1, Len(s)) = s
<1>1. SubSeq(s, 1, Len(s)) \in Seq(S) /\ Len(SubSeq(s, 1, Len(s))) = Len(s)
  BY LenProperties, SubSeqProperties
<1>2. \A i \in 1..Len(s) : SubSeq(s, 1, Len(s))[i] = s[i]
  BY LenProperties, SubSeqProperties
<1>3. QED
  BY <1>1, <1>2, SeqEqual

\* The transfer sends the whole buffer if it stands at its start.
LEMMA ReplyAppendIs ==
    ASSUME Sound(ftp), ReplyAppend
    PROVE  /\ Sound(ftp') /\ ftp.cur = "APPE" /\ ~ftp.begun /\ Speaking(ftp)
           /\ ftp'.rows = ftp.rows /\ ftp'.declared = ftp.declared
           /\ ftp'.pending = ftp.pending /\ ftp'.dropped = ftp.dropped
           /\ ftp'.task = ftp.task /\ ftp'.command = ftp.command
           /\ ftp'.refused = ftp.refused /\ ftp'.cur = "APPE" /\ ftp'.dtp = ftp.dtp
           /\ ftp'.begun
           /\ ftp.device /\ ftp.pos = 0 => ftp'.sent = ftp'.rows
<1>1. /\ Speaking(ftp) /\ ~ftp.kick /\ ftp.pending # <<>> /\ ~ftp.waitForDtpToConnect
      /\ ftp.socket = "open" /\ ftp.pi = "Waiting" /\ ftp.dtp # "connecting"
      /\ ftp.cur = "APPE" /\ ~ftp.begun
  BY WaitingIs DEF ReplyAppend
<1> DEFINE s == IF ftp.device THEN SubSeq(ftp.rows, ftp.pos + 1, Len(ftp.rows)) ELSE <<>>
           l == Len(ftp.rows)
<1>2. ftp.rows \in Seq(Lists) /\ ftp.pos \in Nat /\ l \in Nat
  BY LenProperties DEF Sound, Typed, Ftp
<1>3. s \in Seq(Lists)
  <2>1. SubSeq(ftp.rows, ftp.pos + 1, Len(ftp.rows)) \in Seq(Lists)
    BY <1>2, SubSeqProperties
  <2>2. QED
    BY <2>1, EmptySeq
<1>4. ftp.device /\ ftp.pos = 0 => s = ftp.rows
  BY <1>2, WholeSubSeq
<1>5. ftp' = [ftp EXCEPT !.begun = TRUE, !.pos = l, !.sent = s]
  BY DEF ReplyAppend
<1>6. l = Len(ftp.rows)
  OBVIOUS
<1> HIDE DEF s, l
<1>7. ftp' \in Ftp
  BY <1>2, <1>3, <1>5 DEF Sound, Typed, Ftp
<1>8. /\ ftp'.begun /\ ftp'.pos = l /\ ftp'.sent = s
      /\ ftp'.rows = ftp.rows /\ ftp'.declared = ftp.declared /\ ftp'.pending = ftp.pending
      /\ ftp'.dropped = ftp.dropped /\ ftp'.task = ftp.task /\ ftp'.command = ftp.command
      /\ ftp'.refused = ftp.refused /\ ftp'.cur = ftp.cur /\ ftp'.cmds = ftp.cmds
      /\ ftp'.pi = ftp.pi /\ ftp'.waitForDtpToConnect = ftp.waitForDtpToConnect
      /\ ftp'.dtp = ftp.dtp /\ ftp'.device = ftp.device /\ ftp'.kick = ftp.kick
      /\ ftp'.socket = ftp.socket /\ ftp'.state = ftp.state
  BY <1>5 DEF Sound, Typed, Ftp
<1>9. Typed(ftp')
  BY <1>2, <1>6, <1>7, <1>8 DEF Sound, Typed
<1>10. Speaking(ftp')
  BY <1>1, <1>8 DEF Speaking
<1>11. Talk(ftp')
  BY <1>1, <1>8, <1>10 DEF Talk, Opening
<1>12. QED
  BY <1>1, <1>4, <1>8, <1>9, <1>11 DEF Sound

\* A file refused by 550 ends the transfer as if it were written.
LEMMA ReplyRefusedIs ==
    ASSUME Sound(ftp), ReplyRefused
    PROVE  /\ ftp.cur = "APPE" /\ Speaking(ftp)
           /\ \E c : /\ Typed(c) /\ Finished(c, ftp') /\ SameBuffer(ftp, c)
                     /\ c.pending = ftp.pending /\ c.dropped = ftp.dropped /\ c.dtp = ftp.dtp
                     /\ c.task = ftp.task /\ c.command = ftp.command
                     /\ c.refused = ftp.refused \cup {Head(ftp.pending).id}
<1>1. /\ Speaking(ftp) /\ ~ftp.kick /\ ftp.pending # <<>> /\ ~ftp.waitForDtpToConnect
      /\ ftp.socket = "open" /\ ftp.pi = "Waiting" /\ ftp.dtp # "connecting"
      /\ ftp.cur = "APPE" /\ ~ftp.begun
  BY WaitingIs DEF ReplyRefused
<1> DEFINE r == ftp.refused \cup {Head(ftp.pending).id}
           c == [ftp EXCEPT !.refused = r]
<1>2. ftp' = Success(c)
  BY DEF ReplyRefused
<1>3. r \in SUBSET Lists
  <2>1. Head(ftp.pending) \in Commands /\ Head(ftp.pending).kind = "Put"
    BY <1>1, HeadTailProperties DEF Sound, Typed, Ftp, Speaking
  <2>2. QED
    BY <2>1 DEF Commands, Sound, Typed, Ftp
<1>4. r = ftp.refused \cup {Head(ftp.pending).id}
  OBVIOUS
<1> HIDE DEF r
<1>5. c \in Ftp
  BY <1>3 DEF Sound, Typed, Ftp
<1>6. /\ SameBuffer(ftp, c) /\ SameTalk(ftp, c) /\ c.pending = ftp.pending
      /\ c.dropped = ftp.dropped /\ c.task = ftp.task /\ c.command = ftp.command
      /\ c.refused = r /\ c.kick = ftp.kick /\ c.socket = ftp.socket /\ c.state = ftp.state
      /\ c.waitForDtpToConnect = ftp.waitForDtpToConnect
  BY DEF Sound, Typed, Ftp, SameBuffer, SameTalk
<1>7. Typed(c)
  BY <1>5, <1>6 DEF Sound, Typed, SameBuffer
<1> HIDE DEF c
<1>8. Speaking(c)
  BY <1>1, <1>6 DEF Speaking, SameTalk
<1>9. Talk(c)
  BY <1>1, <1>6, <1>8 DEF Talk, Opening, SameTalk
<1>10. Finished(c, Success(c))
  BY <1>1, <1>6, <1>7, <1>9, SuccessIs DEF SameTalk
<1>11. QED
  BY <1>1, <1>2, <1>4, <1>6, <1>7, <1>10 DEF SameTalk

\* The confirmation ends the transfer.
LEMMA ReplyDoneIs ==
    ASSUME Sound(ftp), ReplyDone
    PROVE  /\ ftp.cur = "APPE" /\ ftp.begun /\ ftp.dtp = "none" /\ Speaking(ftp)
           /\ Finished(ftp, ftp')
  BY WaitingIs, SuccessIs DEF ReplyDone, Sound

\* With the data connection there, ALLO is sent.
LEMMA DataConnectedIs ==
    ASSUME Sound(ftp), DataConnected
    PROVE  /\ ftp.cur = "PASV" /\ Speaking(ftp)
           /\ \E c : /\ Moved(c, ftp') /\ SameLists(ftp, c) /\ c.cur = "PASV"
                     /\ c.device = ftp.device
<1>1. Speaking(ftp) /\ ftp.cur = "PASV" /\ ftp.waitForDtpToConnect /\ ~ftp.kick
  BY DEF Sound, Talk, Silent, Speaking, DataConnected
<1> DEFINE c == [ftp EXCEPT !.dtp = "open", !.waitForDtpToConnect = FALSE]
<1>2. ftp' = startNextCmd(c)
  BY DEF DataConnected
<1>3. c \in Ftp
  BY DEF Sound, Typed, Ftp
<1>4. /\ SameLists(ftp, c) /\ c.cur = ftp.cur /\ c.cmds = ftp.cmds /\ c.begun = ftp.begun
      /\ c.dtp = "open" /\ c.device = ftp.device /\ ~c.waitForDtpToConnect
      /\ c.kick = ftp.kick /\ c.socket = ftp.socket /\ c.state = ftp.state
  BY DEF Sound, Typed, Ftp, SameLists, SameBuffer
<1>5. Typed(c)
  BY <1>3, <1>4 DEF Sound, Typed, SameLists, SameBuffer
<1> HIDE DEF c
<1>6. c.cmds = Rest(c.cur) /\ ~c.begun /\ c.pending # <<>> /\ Head(c.pending).kind = "Put"
  BY <1>1, <1>4 DEF Speaking, SameLists
<1>7. c.socket # "opening" /\ (c.socket = "closed" => c.state = "Unconnected")
  BY <1>1, <1>4 DEF Speaking, Sound, Talk, Opening
<1>8. c.cur \in RawCommands \ {"PASS", "APPE"} /\ c.cur # "USER"
  BY <1>1, <1>4 DEF RawCommands
<1>9. Moved(c, ftp')
  BY <1>1, <1>2, <1>4, <1>5, <1>6, <1>7, <1>8, MoveIs
<1>10. QED
  BY <1>1, <1>4, <1>9

\* A data connection that is not made ends the command or leaves it waiting.
LEMMA DataFailsIs ==
    ASSUME Sound(ftp), DataFails
    PROVE  \/ Fails(ftp, ftp')
           \/ Quiet(ftp, ftp') /\ ftp'.dtp = "none"
<1>1. Speaking(ftp) /\ ftp.cur = "PASV" /\ ftp.waitForDtpToConnect /\ ~ftp.kick
  BY DEF Sound, Talk, Silent, Speaking, DataFails
<1> DEFINE c == [ftp EXCEPT !.dtp = "none"]
<1>2. ftp' \in {piError(c), c}
  BY DEF DataFails
<1>3. c \in Ftp
  BY DEF Sound, Typed, Ftp
<1>4. /\ SameLists(ftp, c) /\ c.cur = ftp.cur /\ c.cmds = ftp.cmds /\ c.begun = ftp.begun
      /\ c.dtp = "none" /\ c.device = ftp.device /\ c.pi = ftp.pi
      /\ c.waitForDtpToConnect = ftp.waitForDtpToConnect
      /\ c.kick = ftp.kick /\ c.socket = ftp.socket /\ c.state = ftp.state
  BY DEF Sound, Typed, Ftp, SameLists, SameBuffer
<1>5. Typed(c)
  BY <1>3, <1>4 DEF Sound, Typed, SameLists, SameBuffer
<1> HIDE DEF c
<1>6. Speaking(c)
  BY <1>1, <1>4 DEF Speaking, SameLists
<1>7. c.socket # "opening" /\ (c.socket = "closed" => c.state = "Unconnected")
  BY <1>1, <1>4, <1>6 DEF Speaking, Sound, Talk, Opening
<1>8. CASE ftp' = piError(c)
  <2>1. ftp.pending # <<>>
    BY <1>1 DEF Speaking
  <2>2. QED
    BY <1>1, <1>4, <1>5, <1>7, <1>8, <2>1, ErrorIs
<1>9. CASE ftp' = c
  <2>1. Talk(c)
    BY <1>1, <1>4, <1>6, <1>7 DEF Talk, Opening, Speaking
  <2>2. QED
    BY <1>4, <1>5, <1>9, <2>1 DEF Quiet, Sound
<1>10. QED
  BY <1>2, <1>8, <1>9

\* The end of a data connection leaves the commands alone.
LEMMA DataClosedIs ==
    ASSUME Sound(ftp), DataClosed
    PROVE  /\ Sound(ftp') /\ SameLists(ftp, ftp')
           /\ ftp'.cur = ftp.cur /\ ftp'.begun = ftp.begun /\ ftp'.dtp = "none"
<1>1. ftp' = [ftp EXCEPT !.dtp = "none", !.device = FALSE]
  BY DEF DataClosed
<1>2. ftp' \in Ftp
  BY <1>1 DEF Sound, Typed, Ftp
<1>3. /\ SameLists(ftp, ftp') /\ ftp'.cur = ftp.cur /\ ftp'.cmds = ftp.cmds
      /\ ftp'.begun = ftp.begun /\ ftp'.dtp = "none" /\ ftp'.pi = ftp.pi
      /\ ftp'.waitForDtpToConnect = ftp.waitForDtpToConnect
      /\ ftp'.kick = ftp.kick /\ ftp'.socket = ftp.socket /\ ftp'.state = ftp.state
  BY <1>1 DEF Sound, Typed, Ftp, SameLists, SameBuffer
<1>4. Typed(ftp')
  BY <1>2, <1>3 DEF Sound, Typed, SameLists, SameBuffer
<1>5. Talk(ftp')
  <2>1. CASE ftp.cur = "none"
    <3>1. Silent(ftp')
      BY <1>3, <2>1 DEF Sound, Talk, Silent, SameLists
    <3>2. QED
      BY <1>3, <2>1, <3>1 DEF Sound, Talk, Opening, SameLists
  <2>2. CASE ftp.cur # "none"
    <3>1. Speaking(ftp')
      BY <1>3, <2>2 DEF Sound, Talk, Speaking, SameLists
    <3>2. QED
      BY <1>3, <2>2, <3>1 DEF Sound, Talk, Opening, SameLists
  <2>3. QED
    BY <2>1, <2>2
<1>6. QED
  BY <1>3, <1>4, <1>5 DEF Sound

\* The end of the control connection leaves the commands alone.
LEMMA ControlClosedIs ==
    ASSUME Sound(ftp), ControlClosed
    PROVE  Quiet(ftp, ftp') /\ ftp'.dtp = ftp.dtp
<1>1. ftp' = [ftp EXCEPT !.socket = "closed", !.state = "Unconnected"]
  BY DEF ControlClosed
<1>2. ftp' \in Ftp
  BY <1>1 DEF Sound, Typed, Ftp
<1>3. /\ SameLists(ftp, ftp') /\ ftp'.cur = ftp.cur /\ ftp'.cmds = ftp.cmds
      /\ ftp'.begun = ftp.begun /\ ftp'.dtp = ftp.dtp /\ ftp'.pi = ftp.pi
      /\ ftp'.device = ftp.device /\ ftp'.waitForDtpToConnect = ftp.waitForDtpToConnect
      /\ ftp'.kick = ftp.kick /\ ftp'.socket = "closed" /\ ftp'.state = "Unconnected"
  BY <1>1 DEF Sound, Typed, Ftp, SameLists, SameBuffer
<1>4. Typed(ftp')
  BY <1>2, <1>3 DEF Sound, Typed, SameLists, SameBuffer
<1>5. Talk(ftp')
  <2>1. CASE ftp.cur = "none"
    <3>1. Silent(ftp')
      BY <1>3, <2>1 DEF Sound, Talk, Silent, SameLists
    <3>2. QED
      BY <1>3, <2>1, <3>1 DEF Sound, Talk, Opening, SameLists
  <2>2. CASE ftp.cur # "none"
    <3>1. Speaking(ftp')
      BY <1>3, <2>2 DEF Sound, Talk, Speaking, SameLists
    <3>2. QED
      BY <1>3, <2>2, <3>1 DEF Sound, Talk, Opening, SameLists
  <2>3. QED
    BY <2>1, <2>2
<1>6. QED
  BY <1>3, <1>4, <1>5 DEF Quiet, Sound

\* A command that has ended leaves a sound record.
LEMMA FinishedIsSound ==
    ASSUME NEW f, NEW g, Finished(f, g)
    PROVE  Sound(g) /\ g.task = f.task
  BY DEF Finished, Passed, Started, Sound, Resumed, SameLists, Failed, Kept

\* No slot of QFtp's thread makes a record that QFtp cannot have, or changes the property of
\* the buffer that names the list.
LEMMA NetworkIsSound ==
    ASSUME Sound(ftp),
           \/ Kick \/ Connect \/ Greeting \/ Reply
           \/ DataConnected \/ DataFails \/ DataClosed \/ ControlClosed
    PROVE  Sound(ftp') /\ ftp'.task = ftp.task
<1>1. CASE Kick
  BY <1>1, KickIs DEF Resumed, SameLists, Fails
<1>2. CASE Connect
  BY <1>2, ConnectIs DEF Quiet, SameLists, Fails
<1>3. CASE Greeting
  BY <1>3, GreetingIs, FinishedIsSound
<1>4. CASE ReplyFailure
  BY <1>4, ReplyFailureIs DEF Moved, SameLists, Fails, Sound
<1>5. CASE ReplyLogin
  BY <1>5, ReplyLoginIs, FinishedIsSound DEF Moved, SameLists, Sound
<1>6. CASE ReplySize
  <2>1. [ftp EXCEPT !.pos = 0].task = ftp.task
    BY DEF Sound, Typed, Ftp
  <2>2. QED
    BY <1>6, <2>1, ReplySizeIs DEF Moved, Quiet, SameLists, Sound
<1>7. CASE ReplyTransfer
  BY <1>7, ReplyTransferIs DEF Moved, Quiet, SameLists, Sound
<1>8. CASE ReplyAppend
  BY <1>8, ReplyAppendIs
<1>9. CASE ReplyRefused
  BY <1>9, ReplyRefusedIs, FinishedIsSound
<1>10. CASE ReplyDone
  BY <1>10, ReplyDoneIs, FinishedIsSound
<1>11. CASE DataConnected
  BY <1>11, DataConnectedIs DEF Moved, SameLists, Sound
<1>12. CASE DataFails
  BY <1>12, DataFailsIs DEF Fails, Quiet, SameLists
<1>13. CASE DataClosed
  BY <1>13, DataClosedIs DEF SameLists
<1>14. CASE ControlClosed
  BY <1>14, ControlClosedIs DEF Quiet, SameLists
<1>15. QED
  BY <1>1, <1>2, <1>3, <1>4, <1>5, <1>6, <1>7, <1>8, <1>9, <1>10, <1>11, <1>12, <1>13, <1>14
  DEF Reply
-----------------------------------------------------------------------------
(* The main thread *)

\* The rows of a list come first, those left in the buffer stay behind them.
LEMMA NewListIs ==
    ASSUME NEW n \in 1..MaxRows, lists \in 0..MaxLists, lists = ftp.task, Sound(ftp), NewList(n)
    PROVE  /\ Sound(ftp') /\ ftp'.task = lists + 1 /\ lists + 1 \in Lists
           /\ ftp'.pending = ftp.pending /\ ftp'.declared = ftp.declared
           /\ ftp'.dropped = ftp.dropped /\ ftp'.refused = ftp.refused
           /\ ftp'.dtp = ftp.dtp /\ ftp'.cur = ftp.cur /\ ftp'.begun = ftp.begun
           /\ Len(ftp'.rows) >= n
           /\ \A i \in 1..Len(ftp'.rows) :
                 IF i <= n THEN ftp'.rows[i] = lists + 1
                 ELSE i \in 1..Len(ftp.rows) /\ ftp'.rows[i] = ftp.rows[i]
<1> DEFINE l == lists + 1
           new == [i \in 1..n |-> l]
           old == SubSeq(ftp.rows, n + 1, Len(ftp.rows))
           r == new \o old
<1>1. l \in Lists /\ n \in Nat /\ n > 0
  BY BoundsAssumption DEF NewList, Lists
<1>2. ftp.rows \in Seq(Lists) /\ Len(ftp.rows) \in Nat
  BY LenProperties DEF Sound, Typed, Ftp
<1>3. new \in Seq(Lists) /\ Len(new) = n
  BY <1>1
<1>4. /\ old \in Seq(Lists)
      /\ Len(old) = IF n + 1 <= Len(ftp.rows) THEN Len(ftp.rows) - n ELSE 0
      /\ \A i \in 1..Len(old) : old[i] = ftp.rows[n + i]
  BY <1>1, <1>2
<1>5. \A i \in 1..n : new[i] = l
  OBVIOUS
<1>6. ftp' = [ftp EXCEPT !.task = l, !.pos = n, !.rows = r]
  BY DEF NewList
<1> HIDE DEF new, old
<1>7. r \in Seq(Lists) /\ Len(r) = n + Len(old)
  BY <1>3, <1>4, ConcatProperties
<1>8. \A i \in 1..Len(r) : r[i] = IF i <= Len(new) THEN new[i] ELSE old[i - Len(new)]
  BY <1>3, <1>4, ConcatProperties
<1> HIDE DEF r
<1>9. ASSUME NEW i \in 1..Len(r)
      PROVE  IF i <= n THEN r[i] = l ELSE i \in 1..Len(ftp.rows) /\ r[i] = ftp.rows[i]
  <2>1. CASE i <= n
    BY <1>1, <1>3, <1>5, <1>8, <2>1
  <2>2. CASE ~(i <= n)
    <3>1. Len(old) \in Nat /\ i \in Nat
      BY <1>4, LenProperties
    <3>2. i - n \in 1..Len(old) /\ n + (i - n) = i
      BY <1>1, <1>7, <2>2, <3>1
    <3>3. i \in 1..Len(ftp.rows)
      BY <1>1, <1>2, <1>4, <3>1, <3>2
    <3>4. old[i - n] = ftp.rows[i]
      BY <1>4, <3>2
    <3>5. r[i] = old[i - n]
      BY <1>3, <1>8, <2>2
    <3>6. QED
      BY <2>2, <3>3, <3>4, <3>5
  <2>3. QED
    BY <2>1, <2>2
<1>10. Len(r) \in Nat /\ Len(r) >= n
  BY <1>1, <1>4, <1>7, LenProperties
<1>11. ftp' \in Ftp
  BY <1>1, <1>6, <1>7 DEF Sound, Typed, Ftp
<1>12. /\ ftp'.task = l /\ ftp'.pos = n /\ ftp'.rows = r
       /\ ftp'.declared = ftp.declared /\ ftp'.pending = ftp.pending
       /\ ftp'.dropped = ftp.dropped /\ ftp'.command = ftp.command
       /\ ftp'.refused = ftp.refused /\ ftp'.kick = ftp.kick
       /\ ftp'.waitForDtpToConnect = ftp.waitForDtpToConnect
       /\ SameTalk(ftp, ftp') /\ ftp'.socket = ftp.socket /\ ftp'.state = ftp.state
  BY <1>6 DEF Sound, Typed, Ftp, SameTalk
<1>13. Typed(ftp')
  BY <1>1, <1>10, <1>11, <1>12 DEF Typed, Lists, NoList
<1>14. Talk(ftp')
  BY <1>12 DEF Sound, Talk, Silent, Speaking, Opening, SameTalk
<1>15. QED
  BY <1>1, <1>9, <1>10, <1>12, <1>13, <1>14 DEF Sound, SameTalk

\* Commands behind others do not change the one at the head, and those put where there are
\* none wait for the kick.
LEMMA putBufIs ==
    ASSUME Sound(ftp), due \in Lists \cup {NoList}, putBuf
    PROVE  LET put == [kind |-> "Put", id |-> due]
           IN  /\ Sound(ftp') /\ SameBuffer(ftp, ftp')
               /\ ftp'.task = ftp.task /\ ftp'.command = ftp.command
               /\ ftp'.dropped = ftp.dropped /\ ftp'.refused = ftp.refused
               /\ SameTalk(ftp, ftp') /\ ftp'.sent = ftp.sent /\ ftp'.pending # <<>>
               /\ ftp'.pending[Len(ftp'.pending)] = put
               /\ ftp.pending = <<>> =>
                     /\ \A k \in 1..Len(ftp'.pending) :
                           k # Len(ftp'.pending) => ftp'.pending[k].id = NoList
                     /\ \/ Head(ftp'.pending).kind = "ConnectToHost"
                        \/ ftp'.socket = "open" /\ ftp'.pi = "Idle"
<1> DEFINE put == [kind |-> "Put", id |-> due]
           host == [kind |-> "ConnectToHost", id |-> NoList]
           login == [kind |-> "Login", id |-> NoList]
           new == IF ftp.state = "Unconnected" THEN <<host, login, put>> ELSE <<put>>
           p == ftp.pending \o new
           k == (ftp.kick \/ ftp.pending = <<>>)
<1>1. due \in Lists
  BY DEF putBuf
<1>2. put \in Commands /\ host \in Commands /\ login \in Commands
  BY <1>1 DEF Commands
<1>3. host.id = NoList /\ login.id = NoList /\ host.kind = "ConnectToHost"
  OBVIOUS
<1> HIDE DEF put, host, login
<1>4. new \in Seq(Commands) /\ Len(new) \in Nat \ {0} /\ new[Len(new)] = put
  BY <1>2
<1>5. ftp.state = "Unconnected" => Head(new).kind = "ConnectToHost"
  BY <1>3
<1>6. \A i \in 1..Len(new) : i # Len(new) => new[i].id = NoList
  <2>1. CASE ftp.state = "Unconnected"
    <3>1. Len(new) = 3 /\ new[1] = host /\ new[2] = login
      BY <2>1
    <3>2. QED
      BY <1>3, <3>1
  <2>2. CASE ftp.state # "Unconnected"
    <3>1. Len(new) = 1
      BY <2>2
    <3>2. QED
      BY <3>1
  <2>3. QED
    BY <2>1, <2>2
<1>7. ftp' = [ftp EXCEPT !.pending = p, !.kick = k]
  BY DEF putBuf, put, host, login, Sound, Typed, Ftp
<1>8. ftp.pending \in Seq(Commands) /\ Len(ftp.pending) \in Nat
  BY LenProperties DEF Sound, Typed, Ftp
<1> HIDE DEF new
<1>9. /\ p \in Seq(Commands) /\ Len(p) = Len(ftp.pending) + Len(new)
      /\ \A i \in 1..Len(p) : p[i] = IF i <= Len(ftp.pending) THEN ftp.pending[i]
                                     ELSE new[i - Len(ftp.pending)]
  BY <1>4, <1>8, ConcatProperties
<1> HIDE DEF p
<1>10. Len(p) \in Nat \ {0} /\ p # <<>>
  BY <1>4, <1>8, <1>9
<1>11. p[Len(p)] = put
  <2>1. Len(p) \in 1..Len(p) /\ ~(Len(p) <= Len(ftp.pending))
        /\ Len(p) - Len(ftp.pending) = Len(new)
    BY <1>4, <1>8, <1>9
  <2>2. QED
    BY <1>4, <1>9, <2>1
<1>12. ftp.pending # <<>> => Head(p) = Head(ftp.pending)
  BY <1>4, <1>8, <1>9, <1>10
<1>13. ftp.pending = <<>> => p = new
  <2>1. ASSUME ftp.pending = <<>> PROVE p = new
    <3>1. Len(ftp.pending) = 0
      BY <2>1
    <3>2. Len(p) = Len(new) /\ \A i \in 1..Len(p) : p[i] = new[i]
      BY <1>4, <1>9, <3>1
    <3>3. QED
      BY <1>4, <1>9, <3>2, SeqEqual
  <2>2. QED
    BY <2>1
<1>14. k \in BOOLEAN
  BY DEF Sound, Typed, Ftp
<1>15. (k <=> (ftp.kick \/ ftp.pending = <<>>))
  OBVIOUS
<1> HIDE DEF k
<1>16. ftp' \in Ftp
  BY <1>7, <1>9, <1>14 DEF Sound, Typed, Ftp
<1>17. /\ ftp'.pending = p /\ ftp'.kick = k /\ SameBuffer(ftp, ftp') /\ SameTalk(ftp, ftp')
       /\ ftp'.task = ftp.task /\ ftp'.command = ftp.command /\ ftp'.dropped = ftp.dropped
       /\ ftp'.refused = ftp.refused /\ ftp'.sent = ftp.sent /\ ftp'.socket = ftp.socket
       /\ ftp'.waitForDtpToConnect = ftp.waitForDtpToConnect /\ ftp'.state = ftp.state
  BY <1>7 DEF Sound, Typed, Ftp, SameBuffer, SameTalk
<1>18. Typed(ftp')
  BY <1>16, <1>17 DEF Sound, Typed, SameBuffer
<1>19. Talk(ftp')
  <2>1. CASE ftp.pending = <<>>
    <3>1. ftp.cur = "none" /\ ftp.cmds = <<>> /\ Silent(ftp) /\ ~Opening(ftp)
      BY <2>1 DEF Sound, Talk, Speaking, Silent
    <3>2. QED
      BY <1>10, <1>17, <3>1 DEF Sound, Talk, Silent, Opening, SameTalk
  <2>2. CASE ftp.pending # <<>>
    BY <1>10, <1>12, <1>15, <1>17, <2>2 DEF Sound, Talk, Silent, Speaking, Opening, SameTalk
  <2>3. QED
    BY <2>1, <2>2
<1>20. ftp.pending = <<>> =>
          /\ \A i \in 1..Len(p) : i # Len(p) => p[i].id = NoList
          /\ \/ Head(p).kind = "ConnectToHost"
             \/ ftp.socket = "open" /\ ftp.pi = "Idle"
  <2>1. ASSUME ftp.pending = <<>>, ftp.state # "Unconnected"
        PROVE  ftp.socket = "open" /\ ftp.pi = "Idle"
    BY <2>1 DEF Sound, Talk, Speaking, Silent, Opening, Typed, Ftp
  <2>2. QED
    BY <1>5, <1>6, <1>13, <2>1
<1>21. QED
  BY <1>10, <1>11, <1>17, <1>18, <1>19, <1>20 DEF Sound, SameTalk, put

\* The buffer is told its command.
LEMMA SetCommandIs ==
    ASSUME Sound(ftp), setting \in Lists \cup {NoList}, ftp.task # NoList, SetCommand
    PROVE  /\ Sound(ftp') /\ SameBuffer(ftp, ftp') /\ ftp'.command = setting
           /\ ftp'.task = ftp.task /\ ftp'.pending = ftp.pending
           /\ ftp'.dropped = ftp.dropped /\ ftp'.refused = ftp.refused
           /\ SameTalk(ftp, ftp') /\ ftp'.sent = ftp.sent
<1>1. ftp' = [ftp EXCEPT !.command = setting]
  BY DEF SetCommand
<1>2. ftp' \in Ftp
  BY <1>1 DEF Sound, Typed, Ftp
<1>3. /\ ftp'.command = setting /\ SameBuffer(ftp, ftp') /\ SameTalk(ftp, ftp')
      /\ ftp'.task = ftp.task /\ ftp'.pending = ftp.pending /\ ftp'.dropped = ftp.dropped
      /\ ftp'.refused = ftp.refused /\ ftp'.sent = ftp.sent /\ ftp'.socket = ftp.socket
      /\ ftp'.waitForDtpToConnect = ftp.waitForDtpToConnect /\ ftp'.state = ftp.state
      /\ ftp'.kick = ftp.kick
  BY <1>1 DEF Sound, Typed, Ftp, SameBuffer, SameTalk
<1>4. Typed(ftp')
  BY <1>2, <1>3 DEF Sound, Typed, SameBuffer
<1>5. Talk(ftp')
  BY <1>3 DEF Sound, Talk, Silent, Speaking, Opening, SameTalk
<1>6. QED
  BY <1>3, <1>4, <1>5 DEF Sound
-----------------------------------------------------------------------------
(* Types *)

\* What the types rest on: the list is in its property before the buffer is told a command,
\* and what waits to be put is the last list.
TypeInv ==
    /\ TypeOK /\ Sound(ftp) /\ ftp.task = lists
    /\ due # NoList => due = lists
    /\ setting # NoList => setting = lists

\* The invariant of the types is inductive.
LEMMA TypeInit == Init => TypeInv
<1> SUFFICES ASSUME Init PROVE TypeInv
  OBVIOUS
<1>1. <<>> \in Seq(Lists) /\ Len(<<>>) = 0 /\ <<>> \in Seq(Commands) /\ <<>> \in Seq(RawCommands)
  BY EmptySeq
<1>2. ftp \in Ftp
  BY <1>1 DEF Init, Ftp, NoList
<1>3. Sound(ftp)
  BY <1>1, <1>2 DEF Init, Sound, Typed, Talk, Silent, Opening
<1>4. sizes \in [1..lists -> 1..MaxRows]
  BY DEF Init
<1>5. lists \in 0..MaxLists
  BY BoundsAssumption DEF Init
<1>6. DOMAIN files = {}
  BY DEF Init
<1>7. ftp.pos <= Len(ftp.rows) /\ ftp.task = lists
  <2>1. ftp.pos <= Len(ftp.rows)
    BY <1>3 DEF Sound, Typed
  <2>2. ftp.task = NoList /\ lists = 0
    BY DEF Init
  <2>3. QED
    BY <2>1, <2>2 DEF NoList
<1>8. {due, setting} \subseteq Lists \cup {NoList} /\ overrun = FALSE
  BY DEF Init
<1>9. due = NoList /\ setting = NoList
  BY DEF Init
<1>10. QED
  BY <1>2, <1>3, <1>4, <1>5, <1>6, <1>7, <1>8, <1>9 DEF TypeInv, TypeOK

LEMMA TypeStep == TypeInv /\ [Next]_vars => TypeInv'
<1> SUFFICES ASSUME TypeInv, [Next]_vars PROVE TypeInv'
  OBVIOUS
<1>0. /\ lists \in 0..MaxLists /\ sizes \in [1..lists -> 1..MaxRows]
      /\ {due, setting} \subseteq Lists \cup {NoList} /\ Sound(ftp) /\ ftp.task = lists
      /\ DOMAIN files \subseteq Lists /\ \A n \in DOMAIN files : files[n] \in Seq(Lists)
      /\ overrun \in BOOLEAN
      /\ due # NoList => due = lists
      /\ setting # NoList => setting = lists
  BY DEF TypeInv, TypeOK
<1>1. ASSUME Sound(ftp'), ftp'.task = lists, UNCHANGED <<lists, sizes, overrun>>,
             DOMAIN files' \subseteq Lists, \A n \in DOMAIN files' : files'[n] \in Seq(Lists),
             {due', setting'} \subseteq {due, setting, NoList}
      PROVE  TypeInv'
  BY <1>0, <1>1 DEF TypeInv, TypeOK, Sound, Typed
<1>2. ASSUME NEW n \in 1..MaxRows, NewList(n) PROVE TypeInv'
  <2>1. Sound(ftp') /\ ftp'.task = lists + 1 /\ lists + 1 \in Lists
    BY <1>0, <1>2, NewListIs
  <2>2. lists' = lists + 1 /\ lists' \in 0..MaxLists /\ sizes' = Append(sizes, n)
    BY <1>2, <2>1 DEF NewList, Lists
  <2>3. sizes \in Seq(1..MaxRows) /\ Len(sizes) = lists
    BY <1>0, BoundsAssumption
  <2>4. sizes' \in [1..lists' -> 1..MaxRows]
    <3>1. sizes' \in Seq(1..MaxRows) /\ Len(sizes') = lists + 1
      BY <2>2, <2>3, AppendProperties
    <3>2. QED
      BY <2>2, <3>1, LenProperties
  <2>5. /\ due' = lists' /\ UNCHANGED <<setting, files>> /\ setting = NoList
        /\ overrun' \in BOOLEAN
    BY <1>0, <1>2 DEF NewList
  <2>6. QED
    BY <1>0, <2>1, <2>2, <2>4, <2>5 DEF TypeInv, TypeOK, Sound, Typed
<1>3. CASE putBuf
  <2>1. Sound(ftp') /\ ftp'.task = ftp.task
    BY <1>0, <1>3, putBufIs
  <2>2. due' = NoList /\ setting' = due /\ UNCHANGED <<lists, sizes, overrun, files>>
    BY <1>3 DEF putBuf
  <2>3. QED
    BY <1>0, <1>1, <2>1, <2>2
<1>4. CASE SetCommand
  <2>1. ftp.task # NoList
    BY <1>0, <1>4 DEF SetCommand
  <2>2. Sound(ftp') /\ ftp'.task = ftp.task
    BY <1>0, <1>4, <2>1, SetCommandIs
  <2>3. setting' = NoList /\ UNCHANGED <<lists, sizes, due, overrun, files>>
    BY <1>4 DEF SetCommand
  <2>4. QED
    BY <1>0, <1>1, <2>2, <2>3
<1>5. CASE Kick \/ Connect \/ Greeting \/ Reply
           \/ DataConnected \/ DataFails \/ DataClosed \/ ControlClosed
  <2>1. Sound(ftp') /\ ftp'.task = lists
    BY <1>0, <1>5, NetworkIsSound
  <2>2. UNCHANGED mainVars
    BY <1>5 DEF Kick, Connect, Greeting, DataConnected, DataFails, DataClosed, ControlClosed,
                Reply, ReplyFailure, ReplyLogin, ReplySize, ReplyTransfer, ReplyAppend,
                ReplyRefused, ReplyDone
  <2>3. DOMAIN files' \subseteq Lists /\ \A n \in DOMAIN files' : files'[n] \in Seq(Lists)
    <3>1. CASE ReplyDone
      <4>1. Speaking(ftp) /\ ftp.cur = "APPE"
        BY <1>0, <3>1, ReplyDoneIs
      <4>2. Head(ftp.pending) \in Commands /\ Head(ftp.pending).kind = "Put"
        BY <1>0, <4>1, HeadTailProperties DEF Sound, Typed, Ftp, Speaking
      <4>3. Head(ftp.pending).id \in Lists
        BY <4>2 DEF Commands
      <4>4. ftp.sent \in Seq(Lists)
        BY <1>0 DEF Sound, Typed, Ftp
      <4>5. QED
        BY <1>0, <3>1, <4>3, <4>4 DEF ReplyDone
    <3>2. CASE ~ReplyDone
      <4>1. UNCHANGED files
        BY <1>5, <3>2
        DEF Kick, Connect, Greeting, DataConnected, DataFails, DataClosed, ControlClosed,
            Reply, ReplyFailure, ReplyLogin, ReplySize, ReplyTransfer, ReplyAppend,
            ReplyRefused
      <4>2. QED
        BY <1>0, <4>1
    <3>3. QED
      BY <3>1, <3>2
  <2>4. QED
    BY <1>0, <1>1, <2>1, <2>2, <2>3 DEF mainVars
<1>6. CASE UNCHANGED vars
  BY <1>0, <1>1, <1>6 DEF vars
<1>7. QED
  BY <1>2, <1>3, <1>4, <1>5, <1>6 DEF Next

\* The records, the lists and the files stay what they are declared to be; the buffer never
\* stands behind its last row.
THEOREM TypeCorrect == Spec => []TypeOK
<1>1. Spec => []TypeInv
  BY TypeInit, TypeStep, PTL DEF Spec
<1>2. TypeInv => TypeOK
  BY DEF TypeInv
<1>3. QED
  BY <1>1, <1>2, PTL
-----------------------------------------------------------------------------
(* What is declared *)

\* A list has come, and its transfer has not yet ended.
InHand(f) == due # NoList \/ f.pending # <<>>

\* The command that transfers list n.
Put(n) == [kind |-> "Put", id |-> n]

\* There is one transfer at most, that of the last list: its zero timer runs, or it is the
\* last of QFtp's commands, and the buffer knows its command when putBuf() is left.
One(f) ==
    /\ due # NoList => f.pending = <<>> /\ setting = NoList
    /\ setting # NoList => f.pending # <<>>
    /\ f.pending # <<>> =>
          /\ f.pending[Len(f.pending)] = Put(lists)
          /\ \A k \in 1..Len(f.pending) : k # Len(f.pending) => f.pending[k].id = NoList
          /\ setting = NoList => f.command = lists

\* The rows in the buffer are those of the list in hand, and behind them those of lists
\* that were dropped.
RowsOf(f) ==
    /\ InHand(f) => lists # NoList /\ Len(f.rows) >= sizes[lists]
    /\ \A i \in 1..Len(f.rows) :
          IF InHand(f) /\ i <= sizes[lists] THEN f.rows[i] = lists ELSE f.rows[i] \in f.dropped

\* The list in hand is not yet declared.
DeclaredOf(f) ==
    \A d \in f.declared : d.task \in 1..lists /\ (InHand(f) => d.task # lists)

\* What DeclaredIsWritten says of the records f and the files fs.
Whole(f, fs, n) ==
    /\ n \in DOMAIN fs /\ Len(fs[n]) >= sizes[n]
    /\ \A i \in 1..Len(fs[n]) : IF i <= sizes[n] THEN fs[n][i] = n ELSE fs[n][i] \in f.dropped

\* List n is declared, as written or not.
Declares(f, n, w) == [task |-> n, written |-> w] \in f.declared

\* Every declaration made is one the files answer for.
Held(f, fs) ==
    \A n \in Lists : /\ ~(Declares(f, n, TRUE) /\ Declares(f, n, FALSE))
                     /\ Declares(f, n, TRUE) /\ n \notin f.refused => Whole(f, fs, n)

\* Every list that came is in hand, declared, or dropped by an error before its turn.
Answered(f) ==
    \A n \in 1..lists : \/ InHand(f) /\ n = lists
                        \/ Declares(f, n, TRUE) \/ Declares(f, n, FALSE)
                        \/ n \in f.dropped

\* The lists and their transfers agree.
Book(f, fs) == One(f) /\ RowsOf(f) /\ DeclaredOf(f) /\ Held(f, fs) /\ Answered(f)

\* A command put before the buffer knows it does not fail at once.
Kicked(f) ==
    setting # NoList /\ f.kick /\ Head(f.pending).kind # "ConnectToHost" =>
        f.socket = "open" /\ f.pi = "Idle"

\* The transfer has a device, which SIZE has set back to its start, and sends all of it.
SentOf(f) ==
    /\ f.dtp = "open" => ~InHand(f) \/ f.cur \in {"ALLO", "APPE"}
    /\ f.cur \notin {"none", "USER", "PASS"} /\ ~f.begun => f.device
    /\ f.cur \in {"PASV", "ALLO", "APPE"} /\ ~f.begun => f.pos = 0
    /\ f.begun => f.sent = f.rows

\* The inductive invariant for DeclaredIsWritten.
DeclaredInv == ~overrun => Book(ftp, files) /\ Kicked(ftp) /\ SentOf(ftp)

\* The command at the head is the transfer of the last list, or one that the transfer waits
\* for.
LEMMA HeadIs ==
    ASSUME NEW f, Typed(f), One(f), f.pending # <<>>, setting = NoList, lists \in Lists
    PROVE  LET t == Tail(f.pending)
           IN  \/ /\ Head(f.pending).kind = "Put" /\ Head(f.pending).id = lists
                  /\ Mine(f) /\ t = <<>>
               \/ /\ Head(f.pending).kind # "Put" /\ ~Mine(f) /\ lists \in Behind(f)
                  /\ t # <<>> /\ t[Len(t)] = Put(lists)
                  /\ \A k \in 1..Len(t) : k # Len(t) => t[k].id = NoList
<1> DEFINE p == f.pending
           t == Tail(f.pending)
<1>1. /\ p \in Seq(Commands) /\ p # <<>> /\ p[Len(p)] = Put(lists) /\ f.command = lists
      /\ \A k \in 1..Len(p) : k # Len(p) => p[k].id = NoList
  BY DEF Typed, Ftp, One
<1>2. /\ Len(p) \in Nat \ {0} /\ Head(p) = p[1] /\ Head(p) \in Commands
      /\ t \in Seq(Commands) /\ Len(t) = Len(p) - 1 /\ \A k \in 1..Len(t) : t[k] = p[k + 1]
  BY <1>1, HeadTailProperties, LenProperties
<1>3. lists # NoList /\ NoList \notin Lists
  BY DEF Lists, NoList
<1>4. \A c \in Commands : c.kind = "Put" <=> c.id # NoList
  BY <1>3 DEF Commands
<1>5. Put(lists).kind = "Put" /\ Put(lists).id = lists
  BY DEF Put
<1> HIDE DEF p, t
<1>6. CASE Len(p) = 1
  <2>1. Head(p) = Put(lists) /\ Len(t) = 0
    BY <1>1, <1>2, <1>6
  <2>2. t = <<>>
    BY <1>2, <2>1
  <2>3. QED
    BY <1>1, <1>3, <1>5, <2>1, <2>2 DEF Mine, p, t
<1>7. CASE Len(p) # 1
  <2>1. Len(t) \in Nat \ {0} /\ t # <<>> /\ 1 \in 1..Len(p)
    BY <1>2, <1>7
  <2>2. Head(p).id = NoList /\ Head(p).kind # "Put"
    BY <1>1, <1>2, <1>4, <1>7, <2>1
  <2>3. Len(t) \in 1..Len(t) /\ Len(t) + 1 = Len(p)
    BY <1>2, <2>1
  <2>4. t[Len(t)] = Put(lists)
    BY <1>1, <1>2, <2>3
  <2>5. ASSUME NEW k \in 1..Len(t), k # Len(t) PROVE t[k].id = NoList
    <3>1. k + 1 \in 1..Len(p) /\ k + 1 # Len(p)
      BY <1>2, <2>1, <2>5
    <3>2. QED
      BY <1>1, <1>2, <3>1
  <2>6. lists \in Behind(f)
    BY <1>3, <1>5, <2>3, <2>4 DEF Behind, t
  <2>7. QED
    BY <2>1, <2>2, <2>4, <2>5, <2>6 DEF Mine, p, t
<1>8. QED
  BY <1>6, <1>7

\* What is not touched stays as it is.
LEMMA SameBook ==
    ASSUME NEW f, NEW g, NEW fs, Book(f, fs), SameLists(f, g)
    PROVE  Book(g, fs)
<1>1. One(g)
  BY DEF Book, One, SameLists
<1>2. RowsOf(g)
  BY DEF Book, RowsOf, InHand, SameLists, SameBuffer
<1>3. DeclaredOf(g)
  BY DEF Book, DeclaredOf, InHand, SameLists, SameBuffer
<1>4. Held(g, fs)
  BY DEF Book, Held, Declares, Whole, SameLists, SameBuffer
<1>5. Answered(g)
  BY DEF Book, Answered, Declares, InHand, SameLists, SameBuffer
<1>6. QED
  BY <1>1, <1>2, <1>3, <1>4, <1>5 DEF Book

\* The transfer whose list is in hand ends: the buffer is emptied and the list declared, as
\* not written or with the file on the server.
LEMMA MineBook ==
    ASSUME NEW f, NEW g, NEW fs, NEW failed \in BOOLEAN, Typed(f), Book(f, fs),
           lists \in Lists, f.task = lists, due = NoList, setting = NoList, f.pending # <<>>,
           Mine(f), Ended(f, g, failed), g.pending = <<>>,
           f.dropped \subseteq g.dropped, g.refused = f.refused,
           ~failed => lists \in f.refused \/ Whole(f, fs, lists)
    PROVE  Book(g, fs)
<1> DEFINE w == ~failed
           e == [task |-> lists, written |-> w]
<1>1. /\ g.rows = <<>> /\ g.declared = f.declared \cup {e}
      /\ ~InHand(g)
  BY DEF Ended, InHand
<1>2. e.task = lists /\ e.written = w /\ w \in BOOLEAN
  OBVIOUS
<1>3. One(g)
  BY DEF One
<1>4. RowsOf(g)
  <2>1. Len(g.rows) = 0
    BY <1>1
  <2>2. QED
    BY <1>1, <2>1 DEF RowsOf
<1>5. lists \in 1..lists
  BY BoundsAssumption DEF Lists
<1>6. \A d \in f.declared : d.task \in 1..lists /\ d.task # lists
  BY DEF Book, DeclaredOf, InHand
<1>7. DeclaredOf(g)
  BY <1>1, <1>2, <1>5, <1>6 DEF DeclaredOf
<1>8. ~Declares(f, lists, TRUE) /\ ~Declares(f, lists, FALSE)
  BY <1>6 DEF Declares
<1>9. ASSUME NEW n \in Lists, NEW v \in BOOLEAN
      PROVE  Declares(g, n, v) <=> Declares(f, n, v) \/ (n = lists /\ v = w)
  BY <1>1 DEF Declares
<1>10. ASSUME NEW n \in Lists, Whole(f, fs, n) PROVE Whole(g, fs, n)
  BY <1>10 DEF Whole
<1>11. ASSUME NEW n \in Lists
       PROVE  /\ ~(Declares(g, n, TRUE) /\ Declares(g, n, FALSE))
              /\ Declares(g, n, TRUE) /\ n \notin g.refused => Whole(g, fs, n)
  <2>1. /\ ~(Declares(f, n, TRUE) /\ Declares(f, n, FALSE))
        /\ Declares(f, n, TRUE) /\ n \notin f.refused => Whole(f, fs, n)
    BY DEF Book, Held
  <2>2. CASE n = lists
    <3>1. Declares(g, n, TRUE) <=> w = TRUE
      BY <1>2, <1>8, <1>9, <2>2
    <3>2. Declares(g, n, FALSE) <=> w = FALSE
      BY <1>2, <1>8, <1>9, <2>2
    <3>3. w = TRUE => ~failed
      OBVIOUS
    <3>4. QED
      BY <1>10, <2>2, <3>1, <3>2, <3>3
  <2>3. CASE n # lists
    <3>1. Declares(g, n, TRUE) <=> Declares(f, n, TRUE)
      BY <1>9, <2>3
    <3>2. Declares(g, n, FALSE) <=> Declares(f, n, FALSE)
      BY <1>9, <2>3
    <3>3. QED
      BY <1>10, <2>1, <3>1, <3>2
  <2>4. QED
    BY <2>2, <2>3
<1>12. Held(g, fs)
  BY <1>11 DEF Held
<1>13. Answered(g)
  <2>1. Declares(g, lists, TRUE) \/ Declares(g, lists, FALSE)
    BY <1>2, <1>9
  <2>2. ASSUME NEW n \in 1..lists, n # lists
        PROVE  Declares(g, n, TRUE) \/ Declares(g, n, FALSE) \/ n \in g.dropped
    <3>1. Declares(f, n, TRUE) \/ Declares(f, n, FALSE) \/ n \in f.dropped
      BY <2>2 DEF Book, Answered
    <3>2. QED
      BY <1>1, <3>1 DEF Declares
  <2>3. QED
    BY <2>1, <2>2 DEF Answered
<1>14. QED
  BY <1>3, <1>4, <1>7, <1>12, <1>13 DEF Book

\* An error: the list in hand is declared as not written, or dropped without a word.
LEMMA FailsBook ==
    ASSUME NEW f, NEW g, NEW fs, Typed(f), Book(f, fs), lists \in Lists, f.task = lists,
           due = NoList, setting = NoList, f.pending # <<>>,
           Ended(f, g, TRUE), g.pending = <<>>, g.dropped = f.dropped \cup Behind(f),
           g.refused = f.refused
    PROVE  Book(g, fs) /\ ~InHand(g)
<1>1. CASE Mine(f)
  BY <1>1, MineBook DEF InHand
<1>2. CASE ~Mine(f)
  <2>1. lists \in Behind(f)
    BY <1>2, HeadIs DEF Book
  <2>2. SameBuffer(f, g) /\ ~InHand(g) /\ InHand(f)
    BY <1>2 DEF Ended, InHand
  <2>3. One(g)
    BY DEF One
  <2>4. RowsOf(g)
    BY <2>1, <2>2 DEF Book, RowsOf, SameBuffer
  <2>5. DeclaredOf(g)
    BY <2>2 DEF Book, DeclaredOf, SameBuffer
  <2>6. Held(g, fs)
    BY <2>2 DEF Book, Held, Declares, Whole, SameBuffer
  <2>7. Answered(g)
    BY <2>1, <2>2 DEF Book, Answered, Declares, SameBuffer
  <2>8. QED
    BY <2>2, <2>3, <2>4, <2>5, <2>6, <2>7 DEF Book
<1>3. QED
  BY <1>1, <1>2

\* A command that ends well: if it is the transfer, its file is on the server.
LEMMA FinishedBook ==
    ASSUME NEW f, NEW g, NEW fs, Typed(f), Book(f, fs), lists \in Lists, f.task = lists,
           due = NoList, setting = NoList, f.pending # <<>>, Finished(f, g),
           Head(f.pending).kind = "Put" => lists \in f.refused \/ Whole(f, fs, lists),
           f.dtp = "open" => Head(f.pending).kind = "Put"
    PROVE  Book(g, fs) /\ SentOf(g)
<1>1. PICK h : Passed(f, h) /\ Started(h, g)
  BY DEF Finished
<1>2. Book(h, fs) /\ (h.dtp = "open" => ~InHand(h))
  <2>1. CASE Head(f.pending).kind = "Put"
    <3>1. Mine(f) /\ h.pending = <<>>
      BY <1>1, <2>1, HeadIs DEF Book, Passed
    <3>2. Ended(f, h, FALSE) /\ f.dropped \subseteq h.dropped /\ h.refused = f.refused
      BY <1>1 DEF Passed
    <3>3. Book(h, fs)
      BY <2>1, <3>1, <3>2, MineBook
    <3>4. QED
      BY <3>1, <3>3 DEF InHand
  <2>2. CASE Head(f.pending).kind # "Put"
    <3>1. /\ ~Mine(f) /\ h.pending # <<>> /\ h.pending[Len(h.pending)] = Put(lists)
          /\ \A k \in 1..Len(h.pending) : k # Len(h.pending) => h.pending[k].id = NoList
      BY <1>1, <2>2, HeadIs DEF Book, Passed
    <3>2. /\ SameBuffer(f, h) /\ h.dropped = f.dropped /\ h.command = f.command
          /\ h.refused = f.refused /\ h.dtp = f.dtp
      BY <1>1, <3>1 DEF Passed, Ended
    <3>3. InHand(f) /\ InHand(h)
      BY <3>1 DEF InHand
    <3>4. One(h)
      BY <3>1, <3>2 DEF Book, One
    <3>5. RowsOf(h)
      BY <3>2, <3>3 DEF Book, RowsOf, SameBuffer
    <3>6. DeclaredOf(h)
      BY <3>2, <3>3 DEF Book, DeclaredOf, SameBuffer
    <3>7. Held(h, fs)
      BY <3>2 DEF Book, Held, Declares, Whole, SameBuffer
    <3>8. Answered(h)
      BY <3>2, <3>3 DEF Book, Answered, Declares, SameBuffer
    <3>9. QED
      BY <2>2, <3>2, <3>4, <3>5, <3>6, <3>7, <3>8 DEF Book
  <2>3. QED
    BY <2>1, <2>2
<1>3. CASE Resumed(h, g)
  <2>1. Book(g, fs)
    BY <1>2, <1>3, SameBook DEF Resumed
  <2>2. SentOf(g)
    BY <1>2, <1>3 DEF Resumed, SentOf, InHand, SameLists
  <2>3. QED
    BY <2>1, <2>2
<1>4. CASE h.pending # <<>> /\ Failed(h, g)
  <2>1. h.task = lists /\ Typed(h)
    BY <1>1 DEF Passed
  <2>2. Book(g, fs)
    BY <1>2, <1>4, <2>1, FailsBook DEF Failed, Kept
  <2>3. SentOf(g)
    BY <1>4 DEF Failed, NoTalk, SentOf
  <2>4. QED
    BY <2>2, <2>3
<1>5. QED
  BY <1>1, <1>3, <1>4 DEF Started

\* A slot that leaves the lists alone and the conversation where it stands.
LEMMA QuietBook ==
    ASSUME NEW f, NEW g, NEW fs, Book(f, fs), SentOf(f), Quiet(f, g),
           g.dtp = "open" => f.dtp = "open"
    PROVE  Book(g, fs) /\ SentOf(g)
<1>1. Book(g, fs)
  BY SameBook DEF Quiet
<1>2. SentOf(g)
  BY DEF SentOf, Quiet, InHand, SameLists, SameBuffer
<1>3. QED
  BY <1>1, <1>2

\* The next raw command: only one that a data connection has been made for is sent with it,
\* and behind SIZE the buffer stands at its start.
LEMMA MovedBook ==
    ASSUME NEW f, NEW g, NEW fs, Book(f, fs), Moved(f, g),
           f.dtp = "open" => ~InHand(f) \/ f.cur \in {"PASV", "ALLO"},
           f.cur # "USER" => f.device,
           f.cur \in {"SIZE", "PASV", "ALLO"} => f.pos = 0
    PROVE  Book(g, fs) /\ SentOf(g)
<1>1. Book(g, fs)
  BY SameBook DEF Moved
<1>2. <<f.cur, g.cur>> \in {<<"USER", "PASS">>, <<"TYPE", "SIZE">>, <<"SIZE", "PASV">>,
                            <<"PASV", "ALLO">>, <<"ALLO", "APPE">>}
  BY DEF Moved, Follows
<1>3. \/ f.cur = "USER" /\ g.cur = "PASS"
      \/ f.cur = "TYPE" /\ g.cur = "SIZE"
      \/ f.cur = "SIZE" /\ g.cur = "PASV"
      \/ f.cur = "PASV" /\ g.cur = "ALLO"
      \/ f.cur = "ALLO" /\ g.cur = "APPE"
  BY <1>2
<1>4. SentOf(g)
  BY <1>3 DEF SentOf, Moved, InHand, SameLists, SameBuffer
<1>5. QED
  BY <1>1, <1>4

\* The server confirms the file: it holds the rows that were sent, and they are the buffer's.
LEMMA DoneBook ==
    ASSUME Sound(ftp), lists \in Lists, due = NoList, setting = NoList,
           Book(ftp, files), SentOf(ftp), ReplyDone
    PROVE  Book(ftp, files') /\ Whole(ftp, files', lists)
<1>1. /\ ftp.cur = "APPE" /\ ftp.begun /\ ftp.pending # <<>> /\ Head(ftp.pending).kind = "Put"
      /\ InHand(ftp)
  BY ReplyDoneIs DEF Speaking, InHand
<1>2. Head(ftp.pending).id = lists
  BY <1>1, HeadIs DEF Sound, Book
<1>3. /\ DOMAIN files' = DOMAIN files \cup {lists} /\ files'[lists] = ftp.rows
      /\ \A n \in DOMAIN files : n # lists => files'[n] = files[n]
  BY <1>1, <1>2 DEF ReplyDone, SentOf
<1>4. Whole(ftp, files', lists)
  <2>1. /\ Len(ftp.rows) >= sizes[lists]
        /\ \A i \in 1..Len(ftp.rows) :
              IF i <= sizes[lists] THEN ftp.rows[i] = lists ELSE ftp.rows[i] \in ftp.dropped
    BY <1>1 DEF Book, RowsOf
  <2>2. QED
    BY <1>3, <2>1 DEF Whole
<1>5. Held(ftp, files')
  <2>1. ASSUME NEW n \in Lists, Whole(ftp, files, n) PROVE Whole(ftp, files', n)
    <3>1. CASE n = lists
      BY <1>4, <3>1
    <3>2. CASE n # lists
      BY <1>3, <2>1, <3>2 DEF Whole
    <3>3. QED
      BY <3>1, <3>2
  <2>2. QED
    BY <2>1 DEF Book, Held
<1>6. QED
  BY <1>4, <1>5 DEF Book

\* The slots of QFtp's thread, when no list came too early.
LEMMA NetworkBook ==
    ASSUME TypeInv, ~overrun, DeclaredInv,
           \/ Kick \/ Connect \/ Greeting \/ Reply
           \/ DataConnected \/ DataFails \/ DataClosed \/ ControlClosed
    PROVE  /\ Book(ftp', files') /\ SentOf(ftp')
           /\ setting # NoList => ~ftp'.kick
<1>1. /\ Sound(ftp) /\ Typed(ftp) /\ Talk(ftp) /\ ftp.task = lists
      /\ Book(ftp, files) /\ Kicked(ftp) /\ SentOf(ftp)
  BY DEF TypeInv, DeclaredInv, Sound
<1>2. ftp.pending # <<>> => lists \in Lists /\ due = NoList /\ InHand(ftp)
  BY <1>1 DEF TypeInv, TypeOK, Book, One, RowsOf, InHand, Lists, NoList
<1>3. Speaking(ftp) => ftp.pending # <<>>
  BY DEF Speaking
<1>4. ASSUME ftp.pending # <<>>, setting = NoList, Fails(ftp, ftp'), UNCHANGED files
      PROVE  Book(ftp', files') /\ SentOf(ftp')
  <2>1. Book(ftp', files)
    BY <1>1, <1>2, <1>4, FailsBook DEF Fails
  <2>2. SentOf(ftp')
    BY <1>4 DEF Fails, NoTalk, SentOf
  <2>3. QED
    BY <1>4, <2>1, <2>2
<1>5. CASE Kick
  <2>1. UNCHANGED files
    BY <1>5 DEF Kick
  <2>2. /\ ftp.cur = "none" /\ ftp.pending # <<>> /\ ftp.kick
        /\ \/ Sound(ftp') /\ Resumed(ftp, ftp')
           \/ /\ Head(ftp.pending).kind # "ConnectToHost"
              /\ ~(ftp.socket = "open" /\ ftp.pi = "Idle")
              /\ Fails(ftp, ftp')
    BY <1>1, <1>5, KickIs DEF Kick
  <2>3. CASE Resumed(ftp, ftp')
    <3>1. Book(ftp', files)
      BY <1>1, <2>3, SameBook DEF Resumed
    <3>2. SentOf(ftp')
      BY <1>1, <1>2, <2>2, <2>3 DEF Resumed, SentOf, InHand, SameLists
    <3>3. QED
      BY <2>1, <2>3, <3>1, <3>2 DEF Resumed
  <2>4. CASE /\ Head(ftp.pending).kind # "ConnectToHost"
             /\ ~(ftp.socket = "open" /\ ftp.pi = "Idle")
             /\ Fails(ftp, ftp')
    <3>1. setting = NoList
      BY <1>1, <2>2, <2>4 DEF Kicked
    <3>2. QED
      BY <1>4, <2>1, <2>2, <2>4, <3>1
  <2>5. QED
    BY <2>2, <2>3, <2>4
<1>6. ASSUME ~Kick PROVE setting = NoList
  BY <1>6 DEF Connect, Greeting, DataConnected, DataFails, DataClosed, ControlClosed,
              Reply, ReplyFailure, ReplyLogin, ReplySize, ReplyTransfer, ReplyAppend,
              ReplyRefused, ReplyDone, Waiting, Network
<1>7. CASE Connect /\ ~Kick
  <2>1. UNCHANGED files /\ setting = NoList
    BY <1>6, <1>7 DEF Connect
  <2>2. ftp.pending # <<>>
    BY <1>1, <1>7 DEF Connect, Talk, Opening
  <2>3. CASE Quiet(ftp, ftp') /\ ftp'.dtp = ftp.dtp
    BY <1>1, <2>1, <2>3, QuietBook
  <2>4. CASE Fails(ftp, ftp')
    BY <1>4, <2>1, <2>2, <2>4
  <2>5. QED
    BY <1>1, <1>7, <2>3, <2>4, ConnectIs
<1>8. CASE Greeting /\ ~Kick
  <2>1. UNCHANGED files /\ setting = NoList
    BY <1>6, <1>8 DEF Greeting
  <2>2. /\ ftp.cur = "none" /\ Head(ftp.pending).kind = "ConnectToHost"
        /\ ftp.pending # <<>> /\ Finished(ftp, ftp')
    BY <1>1, <1>8, GreetingIs
  <2>3. ftp.dtp # "open"
    BY <1>1, <1>2, <2>2 DEF SentOf
  <2>4. Book(ftp', files) /\ SentOf(ftp')
    BY <1>1, <1>2, <2>1, <2>2, <2>3, FinishedBook
  <2>5. QED
    BY <2>1, <2>4
<1>9. CASE ReplyFailure /\ ~Kick
  <2>1. UNCHANGED files /\ setting = NoList
    BY <1>6, <1>9 DEF ReplyFailure
  <2>2. ftp.pending # <<>> /\ Speaking(ftp)
    BY <1>1, <1>9, WaitingIs DEF ReplyFailure
  <2>3. CASE ftp.cur = "ALLO" /\ Moved(ftp, ftp')
    <3>1. ~ftp.begun
      BY <2>2, <2>3 DEF Speaking
    <3>2. ftp.device /\ ftp.pos = 0
      BY <1>1, <2>3, <3>1 DEF SentOf
    <3>3. QED
      BY <1>1, <2>1, <2>3, <3>2, MovedBook
  <2>4. CASE Fails(ftp, ftp')
    BY <1>4, <2>1, <2>2, <2>4
  <2>5. QED
    BY <1>1, <1>9, <2>3, <2>4, ReplyFailureIs
<1>10. CASE ReplyLogin /\ ~Kick
  <2>1. UNCHANGED files /\ setting = NoList
    BY <1>6, <1>10 DEF ReplyLogin
  <2>2. /\ ftp.cur \in {"USER", "PASS"} /\ Speaking(ftp)
        /\ Finished(ftp, ftp') \/ Moved(ftp, ftp')
    BY <1>1, <1>10, ReplyLoginIs
  <2>3. ftp.pending # <<>> /\ Head(ftp.pending).kind = "Login" /\ ftp.dtp # "open"
    BY <1>1, <1>2, <2>2 DEF Speaking, SentOf
  <2>4. CASE Finished(ftp, ftp')
    <3>1. Book(ftp', files) /\ SentOf(ftp')
      BY <1>1, <1>2, <2>1, <2>3, <2>4, FinishedBook
    <3>2. QED
      BY <2>1, <3>1
  <2>5. CASE Moved(ftp, ftp')
    <3>1. ftp.cur = "USER"
      BY <2>2, <2>5 DEF Moved, Follows
    <3>2. QED
      BY <1>1, <2>1, <2>3, <2>5, <3>1, MovedBook
  <2>6. QED
    BY <2>2, <2>4, <2>5
<1>11. CASE ReplySize /\ ~Kick
  <2>1. UNCHANGED files /\ setting = NoList
    BY <1>6, <1>11 DEF ReplySize
  <2>2. /\ ftp.cur = "SIZE" /\ Speaking(ftp)
        /\ \/ ~ftp.device /\ Quiet(ftp, ftp') /\ ftp'.dtp = ftp.dtp
           \/ /\ ftp.device
              /\ \E c : /\ Moved(c, ftp') /\ c.pos = 0 /\ c.cur = "SIZE" /\ c.dtp = ftp.dtp
                        /\ c.device /\ SameLists([ftp EXCEPT !.pos = 0], c)
    BY <1>1, <1>11, ReplySizeIs
  <2>3. CASE Quiet(ftp, ftp') /\ ftp'.dtp = ftp.dtp
    BY <1>1, <2>1, <2>3, QuietBook
  <2>4. ASSUME NEW c, Moved(c, ftp'), c.pos = 0, c.cur = "SIZE", c.dtp = ftp.dtp, c.device,
               SameLists([ftp EXCEPT !.pos = 0], c)
        PROVE  Book(ftp', files') /\ SentOf(ftp')
    <3> DEFINE b == [ftp EXCEPT !.pos = 0]
    <3>1. /\ b.rows = ftp.rows /\ b.declared = ftp.declared /\ b.pending = ftp.pending
          /\ b.dropped = ftp.dropped /\ b.command = ftp.command /\ b.refused = ftp.refused
      BY <1>1 DEF Typed, Ftp
    <3> HIDE DEF b
    <3>2. Book(b, files)
      BY <1>1, <3>1 DEF Book, One, RowsOf, DeclaredOf, Held, Answered, Declares, Whole, InHand
    <3>3. Book(c, files)
      BY <2>4, <3>2, SameBook DEF b
    <3>4. c.dtp # "open"
      BY <1>1, <1>2, <1>3, <2>2, <2>4 DEF SentOf
    <3>5. Book(ftp', files) /\ SentOf(ftp')
      BY <2>4, <3>3, <3>4, MovedBook
    <3>6. QED
      BY <2>1, <3>5
  <2>5. QED
    BY <2>1, <2>2, <2>3, <2>4
<1>12. CASE ReplyTransfer /\ ~Kick
  <2>1. UNCHANGED files /\ setting = NoList
    BY <1>6, <1>12 DEF ReplyTransfer
  <2>2. Speaking(ftp) /\ ftp.pending # <<>>
    BY <1>1, <1>12, WaitingIs DEF ReplyTransfer
  <2>3. CASE ftp.cur \in {"TYPE", "ALLO"} /\ Moved(ftp, ftp')
    <3>1. ~ftp.begun
      BY <2>2, <2>3 DEF Speaking
    <3>2. ftp.device /\ (ftp.cur = "ALLO" => ftp.pos = 0)
      BY <1>1, <2>3, <3>1 DEF SentOf
    <3>3. ftp.dtp = "open" => ftp.cur = "ALLO"
      BY <1>1, <1>2, <2>2, <2>3 DEF SentOf
    <3>4. QED
      BY <1>1, <2>1, <2>3, <3>2, <3>3, MovedBook
  <2>4. CASE Quiet(ftp, ftp') /\ ftp'.dtp = "connecting"
    BY <1>1, <2>1, <2>4, QuietBook
  <2>5. QED
    BY <1>1, <1>12, <2>3, <2>4, ReplyTransferIs
<1>13. CASE ReplyAppend /\ ~Kick
  <2>1. UNCHANGED files /\ setting = NoList
    BY <1>6, <1>13 DEF ReplyAppend
  <2>2. /\ ftp.cur = "APPE" /\ ~ftp.begun
        /\ ftp'.rows = ftp.rows /\ ftp'.declared = ftp.declared
        /\ ftp'.pending = ftp.pending /\ ftp'.dropped = ftp.dropped
        /\ ftp'.command = ftp.command /\ ftp'.refused = ftp.refused
        /\ ftp'.cur = "APPE" /\ ftp'.begun
        /\ ftp.device /\ ftp.pos = 0 => ftp'.sent = ftp'.rows
    BY <1>1, <1>13, ReplyAppendIs
  <2>3. Book(ftp', files)
    BY <1>1, <2>2 DEF Book, One, RowsOf, DeclaredOf, Held, Answered, Declares, Whole, InHand
  <2>4. SentOf(ftp')
    BY <1>1, <2>2 DEF SentOf
  <2>5. QED
    BY <2>1, <2>3, <2>4
<1>14. CASE ReplyRefused /\ ~Kick
  <2>1. UNCHANGED files /\ setting = NoList
    BY <1>6, <1>14 DEF ReplyRefused
  <2>2. ftp.pending # <<>> /\ Head(ftp.pending).kind = "Put"
    BY <1>1, <1>14, ReplyRefusedIs DEF Speaking
  <2>3. PICK c : /\ Typed(c) /\ Finished(c, ftp') /\ SameBuffer(ftp, c)
                 /\ c.pending = ftp.pending /\ c.dropped = ftp.dropped /\ c.dtp = ftp.dtp
                 /\ c.task = ftp.task /\ c.command = ftp.command
                 /\ c.refused = ftp.refused \cup {Head(ftp.pending).id}
    BY <1>1, <1>14, ReplyRefusedIs
  <2>4. Book(c, files)
    BY <1>1, <2>3 DEF Book, One, RowsOf, DeclaredOf, Held, Answered, Declares, Whole, InHand, SameBuffer
  <2>5. lists \in c.refused
    BY <1>1, <1>2, <2>1, <2>2, <2>3, HeadIs DEF Book
  <2>6. Book(ftp', files) /\ SentOf(ftp')
    BY <1>1, <1>2, <2>1, <2>2, <2>3, <2>4, <2>5, FinishedBook
  <2>7. QED
    BY <2>1, <2>6
<1>15. CASE ReplyDone /\ ~Kick
  <2>1. setting = NoList
    BY <1>6, <1>15
  <2>2. /\ ftp.dtp = "none" /\ ftp.pending # <<>> /\ Finished(ftp, ftp')
    BY <1>1, <1>15, ReplyDoneIs DEF Speaking
  <2>3. Book(ftp, files') /\ Whole(ftp, files', lists)
    BY <1>1, <1>2, <1>15, <2>1, <2>2, DoneBook
  <2>4. Book(ftp', files') /\ SentOf(ftp')
    BY <1>1, <1>2, <2>1, <2>2, <2>3, FinishedBook
  <2>5. QED
    BY <2>1, <2>4
<1>16. CASE DataConnected /\ ~Kick
  <2>1. UNCHANGED files /\ setting = NoList
    BY <1>6, <1>16 DEF DataConnected
  <2>2. PICK c : /\ Moved(c, ftp') /\ SameLists(ftp, c) /\ c.cur = "PASV"
                 /\ c.device = ftp.device
    BY <1>1, <1>16, DataConnectedIs
  <2>3. ftp.device /\ ftp.pos = 0
    BY <1>1, <1>16, DataConnectedIs DEF SentOf, Speaking
  <2>4. Book(c, files) /\ c.device /\ c.pos = 0
    BY <1>1, <2>2, <2>3, SameBook DEF SameLists, SameBuffer
  <2>5. Book(ftp', files) /\ SentOf(ftp')
    BY <2>2, <2>4, MovedBook
  <2>6. QED
    BY <2>1, <2>5
<1>17. CASE DataFails /\ ~Kick
  <2>1. UNCHANGED files /\ setting = NoList
    BY <1>6, <1>17 DEF DataFails
  <2>2. ftp.pending # <<>>
    BY <1>1, <1>17 DEF DataFails, Talk, Silent, Speaking
  <2>3. CASE Quiet(ftp, ftp') /\ ftp'.dtp = "none"
    BY <1>1, <2>1, <2>3, QuietBook
  <2>4. CASE Fails(ftp, ftp')
    BY <1>4, <2>1, <2>2, <2>4
  <2>5. QED
    BY <1>1, <1>17, <2>3, <2>4, DataFailsIs
<1>18. CASE DataClosed /\ ~Kick
  <2>1. UNCHANGED files /\ setting = NoList
    BY <1>6, <1>18 DEF DataClosed
  <2>2. /\ SameLists(ftp, ftp') /\ ftp'.cur = ftp.cur /\ ftp'.begun = ftp.begun
        /\ ftp'.dtp = "none"
    BY <1>1, <1>18, DataClosedIs
  <2>3. Book(ftp', files)
    BY <1>1, <2>2, SameBook
  <2>4. ftp.begun \/ ftp.cur = "none"
    BY <1>1, <1>2, <1>3, <1>18 DEF DataClosed, SentOf, Talk
  <2>5. SentOf(ftp')
    BY <1>1, <2>2, <2>4 DEF SentOf, SameLists, SameBuffer
  <2>6. QED
    BY <2>1, <2>3, <2>5
<1>19. CASE ControlClosed /\ ~Kick
  <2>1. UNCHANGED files /\ setting = NoList
    BY <1>6, <1>19 DEF ControlClosed
  <2>2. Quiet(ftp, ftp') /\ ftp'.dtp = ftp.dtp
    BY <1>1, <1>19, ControlClosedIs
  <2>3. QED
    BY <1>1, <2>1, <2>2, QuietBook
<1>20. QED
  BY <1>5, <1>7, <1>8, <1>9, <1>10, <1>11, <1>12, <1>13, <1>14, <1>15, <1>16, <1>17, <1>18, <1>19
  DEF Reply

\* The invariant of the declarations is inductive, given that of the types.
LEMMA DeclaredInit == Init => DeclaredInv
<1> SUFFICES ASSUME Init PROVE DeclaredInv
  OBVIOUS
<1>1. Book(ftp, files)
  <2>1. One(ftp)
    BY DEF Init, One
  <2>2. ~InHand(ftp) /\ ftp.rows = <<>> /\ ftp.declared = {}
    BY DEF Init, InHand
  <2>3. RowsOf(ftp)
    BY <2>2 DEF RowsOf
  <2>4. DeclaredOf(ftp) /\ Held(ftp, files)
    BY <2>2 DEF DeclaredOf, Held, Declares
  <2>5. Answered(ftp)
    BY DEF Init, Answered
  <2>6. QED
    BY <2>1, <2>3, <2>4, <2>5 DEF Book
<1>2. Kicked(ftp) /\ SentOf(ftp)
  BY DEF Init, Kicked, SentOf
<1>3. QED
  BY <1>1, <1>2 DEF DeclaredInv

LEMMA DeclaredStep == TypeInv /\ DeclaredInv /\ [Next]_vars => DeclaredInv'
<1> SUFFICES ASSUME TypeInv, DeclaredInv, [Next]_vars, ~overrun' PROVE DeclaredInv'
  BY DEF DeclaredInv
<1>0. /\ Sound(ftp) /\ ftp.task = lists /\ lists \in 0..MaxLists
      /\ sizes \in [1..lists -> 1..MaxRows] /\ {due, setting} \subseteq Lists \cup {NoList}
      /\ setting # NoList => setting = lists
      /\ due # NoList => due = lists
  BY DEF TypeInv, TypeOK
<1>1. ASSUME NEW n \in 1..MaxRows, NewList(n) PROVE DeclaredInv'
  <2>1. ~overrun /\ ftp.pending = <<>> /\ due = NoList /\ setting = NoList
    BY <1>1 DEF NewList
  <2>2. Book(ftp, files) /\ SentOf(ftp) /\ ~InHand(ftp)
    BY <2>1 DEF DeclaredInv, InHand
  <2>3. /\ Sound(ftp') /\ lists + 1 \in Lists
        /\ ftp'.pending = ftp.pending /\ ftp'.declared = ftp.declared
        /\ ftp'.dropped = ftp.dropped /\ ftp'.refused = ftp.refused
        /\ ftp'.dtp = ftp.dtp /\ ftp'.cur = ftp.cur /\ ftp'.begun = ftp.begun
        /\ Len(ftp'.rows) >= n
        /\ \A i \in 1..Len(ftp'.rows) :
              IF i <= n THEN ftp'.rows[i] = lists + 1
              ELSE i \in 1..Len(ftp.rows) /\ ftp'.rows[i] = ftp.rows[i]
    BY <1>0, <1>1, NewListIs
  <2>4. /\ lists' = lists + 1 /\ due' = lists + 1 /\ sizes' = Append(sizes, n)
        /\ UNCHANGED <<setting, files>> /\ lists' # NoList
    BY <1>1, <2>3 DEF NewList, Lists, NoList
  <2>5. sizes'[lists'] = n /\ \A k \in 1..lists : sizes'[k] = sizes[k]
    <3>1. sizes \in Seq(1..MaxRows) /\ Len(sizes) = lists
      BY <1>0, BoundsAssumption
    <3>2. QED
      BY <2>4, <3>1, AppendProperties
  <2>6. One(ftp)'
    BY <2>1, <2>3, <2>4 DEF One
  <2>7. RowsOf(ftp)'
    <3>1. \A i \in 1..Len(ftp.rows) : ftp.rows[i] \in ftp.dropped
      BY <2>2 DEF Book, RowsOf
    <3>2. InHand(ftp)'
      BY <2>4 DEF InHand
    <3>3. \A i \in 1..Len(ftp'.rows) :
             IF i <= sizes'[lists'] THEN ftp'.rows[i] = lists' ELSE ftp'.rows[i] \in ftp'.dropped
      BY <2>3, <2>4, <2>5, <3>1
    <3>4. Len(ftp'.rows) >= sizes'[lists'] /\ lists' # NoList
      BY <2>3, <2>4, <2>5
    <3>5. QED
      BY <3>2, <3>3, <3>4 DEF RowsOf
  <2>8. \A d \in ftp.declared : d.task \in 1..lists
    BY <2>2 DEF Book, DeclaredOf
  <2>9. DeclaredOf(ftp)'
    <3>1. \A k \in 1..lists : k \in 1..(lists + 1) /\ k # lists + 1
      BY <1>0, BoundsAssumption
    <3>2. QED
      BY <2>3, <2>4, <2>8, <3>1 DEF DeclaredOf
  <2>10. Held(ftp, files)'
    <3>1. ASSUME NEW m \in Lists, Declares(ftp, m, TRUE), Whole(ftp, files, m)
          PROVE  Whole(ftp, files, m)'
      <4>1. m \in 1..lists
        BY <2>8, <3>1 DEF Declares
      <4>2. sizes'[m] = sizes[m]
        BY <2>5, <4>1
      <4>3. QED
        BY <2>3, <2>4, <3>1, <4>2 DEF Whole
    <3>2. \A m \in Lists, w \in BOOLEAN : Declares(ftp, m, w)' <=> Declares(ftp, m, w)
      BY <2>3 DEF Declares
    <3>3. QED
      BY <2>2, <2>3, <3>1, <3>2 DEF Book, Held
  <2>11. SentOf(ftp)'
    <3>1. ftp.cur = "none"
      BY <1>0, <2>1 DEF Sound, Talk, Speaking
    <3>2. ~ftp.begun /\ ftp.dtp # "open"
      BY <1>0, <1>1, <2>1, <3>1 DEF Sound, Talk, Silent, NewList
    <3>3. QED
      BY <2>3, <3>1, <3>2 DEF SentOf
  <2>12. Kicked(ftp)'
    BY <2>1, <2>4 DEF Kicked
  <2>13. Answered(ftp)'
    <3>1. InHand(ftp)'
      BY <2>4 DEF InHand
    <3>2. \A m \in 1..lists' : m = lists' \/ m \in 1..lists
      BY <1>0, <2>4, BoundsAssumption
    <3>3. \A m, w : Declares(ftp, m, w)' <=> Declares(ftp, m, w)
      BY <2>3 DEF Declares
    <3>4. \A m \in 1..lists : \/ Declares(ftp, m, TRUE) \/ Declares(ftp, m, FALSE)
                               \/ m \in ftp.dropped
      BY <2>2 DEF Book, Answered
    <3>5. QED
      BY <2>3, <3>1, <3>2, <3>3, <3>4 DEF Answered
  <2>14. QED
    BY <2>6, <2>7, <2>9, <2>10, <2>11, <2>12, <2>13 DEF DeclaredInv, Book
<1>2. CASE putBuf
  <2>1. /\ due # NoList /\ due = lists /\ due' = NoList /\ setting' = due
        /\ UNCHANGED <<lists, sizes, overrun, files>>
    BY <1>0, <1>2 DEF putBuf
  <2>2. Book(ftp, files) /\ SentOf(ftp) /\ InHand(ftp) /\ ftp.pending = <<>>
    BY <2>1 DEF DeclaredInv, Book, One, InHand
  <2>3. /\ SameBuffer(ftp, ftp') /\ ftp'.pending # <<>>
        /\ ftp'.dropped = ftp.dropped /\ ftp'.refused = ftp.refused
        /\ SameTalk(ftp, ftp') /\ ftp'.sent = ftp.sent
        /\ ftp'.pending[Len(ftp'.pending)] = Put(lists)
        /\ \A k \in 1..Len(ftp'.pending) : k # Len(ftp'.pending) => ftp'.pending[k].id = NoList
        /\ \/ Head(ftp'.pending).kind = "ConnectToHost"
           \/ ftp'.socket = "open" /\ ftp'.pi = "Idle"
    BY <1>0, <1>2, <2>1, <2>2, putBufIs DEF Put
  <2>4. InHand(ftp)'
    BY <2>3 DEF InHand
  <2>5. One(ftp)'
    <3>1. Put(lists)' = Put(lists)
      BY <2>1 DEF Put
    <3>2. QED
      BY <2>1, <2>3, <3>1 DEF One
  <2>6. RowsOf(ftp)'
    BY <2>1, <2>2, <2>3, <2>4 DEF Book, RowsOf, SameBuffer
  <2>7. DeclaredOf(ftp)'
    BY <2>1, <2>2, <2>3, <2>4 DEF Book, DeclaredOf, SameBuffer
  <2>8. Held(ftp, files)'
    BY <2>1, <2>2, <2>3 DEF Book, Held, Declares, Whole, SameBuffer
  <2>9. SentOf(ftp)'
    BY <2>2, <2>3, <2>4 DEF SentOf, SameBuffer, SameTalk
  <2>10. Kicked(ftp)'
    BY <2>3 DEF Kicked
  <2>11. Answered(ftp)'
    BY <2>1, <2>2, <2>3, <2>4 DEF Book, Answered, Declares, SameBuffer
  <2>12. QED
    BY <2>5, <2>6, <2>7, <2>8, <2>9, <2>10, <2>11 DEF DeclaredInv, Book
<1>3. CASE SetCommand
  <2>1. /\ setting # NoList /\ setting = lists /\ setting' = NoList
        /\ UNCHANGED <<lists, sizes, due, overrun, files>>
    BY <1>0, <1>3 DEF SetCommand
  <2>2. Book(ftp, files) /\ SentOf(ftp)
    BY <2>1 DEF DeclaredInv
  <2>3. /\ SameBuffer(ftp, ftp') /\ ftp'.command = setting /\ ftp'.pending = ftp.pending
        /\ ftp'.dropped = ftp.dropped /\ ftp'.refused = ftp.refused
        /\ SameTalk(ftp, ftp') /\ ftp'.sent = ftp.sent
    BY <1>0, <1>3, <2>1, SetCommandIs
  <2>4. InHand(ftp)' <=> InHand(ftp)
    BY <2>1, <2>3 DEF InHand
  <2>5. One(ftp)'
    <3>1. Put(lists)' = Put(lists)
      BY <2>1 DEF Put
    <3>2. QED
      BY <2>1, <2>2, <2>3, <3>1 DEF Book, One
  <2>6. RowsOf(ftp)'
    BY <2>1, <2>2, <2>3, <2>4 DEF Book, RowsOf, SameBuffer
  <2>7. DeclaredOf(ftp)'
    BY <2>1, <2>2, <2>3, <2>4 DEF Book, DeclaredOf, SameBuffer
  <2>8. Held(ftp, files)'
    BY <2>1, <2>2, <2>3 DEF Book, Held, Declares, Whole, SameBuffer
  <2>9. SentOf(ftp)'
    BY <2>2, <2>3, <2>4 DEF SentOf, SameBuffer, SameTalk
  <2>10. Kicked(ftp)'
    BY <2>1 DEF Kicked
  <2>11. Answered(ftp)'
    BY <2>1, <2>2, <2>3, <2>4 DEF Book, Answered, Declares, SameBuffer
  <2>12. QED
    BY <2>5, <2>6, <2>7, <2>8, <2>9, <2>10, <2>11 DEF DeclaredInv, Book
<1>4. CASE Kick \/ Connect \/ Greeting \/ Reply
           \/ DataConnected \/ DataFails \/ DataClosed \/ ControlClosed
  <2>1. UNCHANGED <<lists, sizes, due, setting, overrun>>
    BY <1>4 DEF Kick, Connect, Greeting, DataConnected, DataFails, DataClosed, ControlClosed,
                Reply, ReplyFailure, ReplyLogin, ReplySize, ReplyTransfer, ReplyAppend,
                ReplyRefused, ReplyDone, mainVars
  <2>2. /\ Book(ftp', files') /\ SentOf(ftp')
        /\ setting # NoList => ~ftp'.kick
    BY <1>4, <2>1, NetworkBook
  <2>3. InHand(ftp)' <=> InHand(ftp')
    BY <2>1 DEF InHand
  <2>4. One(ftp)'
    <3>1. Put(lists)' = Put(lists)
      BY <2>1 DEF Put
    <3>2. QED
      BY <2>1, <2>2, <3>1 DEF Book, One
  <2>5. RowsOf(ftp)'
    BY <2>1, <2>2, <2>3 DEF Book, RowsOf
  <2>6. DeclaredOf(ftp)'
    BY <2>1, <2>2, <2>3 DEF Book, DeclaredOf
  <2>7. Held(ftp, files)'
    BY <2>1, <2>2 DEF Book, Held, Declares, Whole
  <2>8. SentOf(ftp)'
    BY <2>2, <2>3 DEF SentOf
  <2>9. Kicked(ftp)'
    BY <2>1, <2>2 DEF Kicked
  <2>10. Answered(ftp)'
    BY <2>1, <2>2, <2>3 DEF Book, Answered, Declares
  <2>11. QED
    BY <2>4, <2>5, <2>6, <2>7, <2>8, <2>9, <2>10 DEF DeclaredInv, Book
<1>5. CASE UNCHANGED vars
  <2>1. UNCHANGED <<lists, sizes, due, setting, ftp, files, overrun>>
    BY <1>5 DEF vars
  <2>2. Book(ftp, files) /\ Kicked(ftp) /\ SentOf(ftp)
    BY <2>1 DEF DeclaredInv
  <2>3. InHand(ftp)' <=> InHand(ftp)
    BY <2>1 DEF InHand
  <2>4. One(ftp)'
    <3>1. Put(lists)' = Put(lists)
      BY <2>1 DEF Put
    <3>2. QED
      BY <2>1, <2>2, <3>1 DEF Book, One
  <2>5. RowsOf(ftp)' /\ DeclaredOf(ftp)'
    BY <2>1, <2>2, <2>3 DEF Book, RowsOf, DeclaredOf
  <2>6. Held(ftp, files)'
    BY <2>1, <2>2 DEF Book, Held, Declares, Whole
  <2>7. SentOf(ftp)' /\ Kicked(ftp)'
    BY <2>1, <2>2, <2>3 DEF SentOf, Kicked
  <2>8. Answered(ftp)'
    BY <2>1, <2>2, <2>3 DEF Book, Answered, Declares
  <2>9. QED
    BY <2>4, <2>5, <2>6, <2>7, <2>8 DEF DeclaredInv, Book
<1>6. QED
  BY <1>1, <1>2, <1>3, <1>4, <1>5 DEF Next

\* It holds always.
LEMMA DeclaredInvHolds == Spec => []DeclaredInv
<1>1. Spec => []TypeInv
  BY TypeInit, TypeStep, PTL DEF Spec
<1>2. QED
  BY <1>1, DeclaredInit, DeclaredStep, PTL DEF Spec

\* As long as no list comes before the last transfer has ended, each list is declared once,
\* and as written only if its file was refused by 550 or holds all its rows, with nothing
\* behind them but rows of lists that were dropped.
THEOREM DeclaredIsWrittenHolds == Spec => []DeclaredIsWritten
<1>1. DeclaredInv => DeclaredIsWritten
  BY DEF DeclaredInv, Book, Held, Declares, Whole, DeclaredIsWritten, Written, NotWritten
<1>2. QED
  BY <1>1, DeclaredInvHolds, PTL

\* No list is lost without a trace as long as none comes before the last transfer has
\* ended: its timer runs, its command waits, it is declared one way or the other, or an
\* error of a command before it dropped it.
ListsAnswered ==
    ~overrun =>
        \A n \in 1..lists :
            \/ n = lists /\ (due = n \/ ftp.pending # <<>>)
            \/ Written(n) \/ NotWritten(n) \/ n \in ftp.dropped

\* The safety half of PutEnds, whatever connections are lost.
THEOREM ListsAnsweredHolds == Spec => []ListsAnswered
<1>1. Spec => []TypeInv
  BY TypeInit, TypeStep, PTL DEF Spec
<1>2. TypeInv /\ DeclaredInv => ListsAnswered
  BY DEF TypeInv, DeclaredInv, Book, Answered, InHand, Declares, ListsAnswered, Written, NotWritten
<1>3. QED
  BY <1>1, <1>2, DeclaredInvHolds, PTL
-----------------------------------------------------------------------------
(* What is never declared *)

\* When QFtp has stalled nothing of the network is under way, and nothing is queued.
LEMMA StalledIs ==
    ASSUME Sound(ftp), Stalled
    PROVE  /\ ~ftp.kick /\ ftp.socket # "opening" /\ ftp.dtp # "connecting"
           /\ ftp.socket = "open" => ftp.pi \notin {"Begin", "Waiting"}
<1>1. CASE ftp.socket = "closed"
  BY <1>1 DEF Stalled
<1>2. CASE ftp.waitForDtpToConnect /\ Head(ftp.pending).kind # "ConnectToHost"
  <2>1. ~Opening(ftp)
    BY <1>2 DEF Sound, Talk
  <2>2. ftp.pi # "Waiting"
    BY <1>2 DEF Sound, Talk, Silent, Speaking
  <2>3. QED
    BY <2>1, <2>2 DEF Stalled, Opening
<1>3. QED
  BY <1>1, <1>2 DEF Stalled

\* Only what does not end the command under way can still happen.
LEMMA StalledStep ==
    ASSUME TypeInv, Stalled, [Next]_vars
    PROVE  Stalled' /\ ftp'.declared = ftp.declared
<1>1. /\ ~ftp.kick /\ ftp.socket # "opening" /\ ftp.dtp # "connecting"
      /\ ftp.socket = "open" => ftp.pi \notin {"Begin", "Waiting"}
      /\ Sound(ftp) /\ {due, setting} \subseteq Lists \cup {NoList}
  BY StalledIs DEF TypeInv, TypeOK
<1>2. ASSUME ftp'.pending # <<>>, Head(ftp'.pending) = Head(ftp.pending), ftp'.kick = ftp.kick,
             ftp'.socket \in {ftp.socket, "closed"}, ftp'.dtp \in {ftp.dtp, "none"},
             ftp'.waitForDtpToConnect = ftp.waitForDtpToConnect,
             ftp'.declared = ftp.declared
      PROVE  Stalled' /\ ftp'.declared = ftp.declared
  BY <1>2 DEF Stalled
<1>3. CASE \E n \in 1..MaxRows : NewList(n)
  <2>1. /\ ftp'.pending = ftp.pending /\ ftp'.kick = ftp.kick /\ ftp'.socket = ftp.socket
        /\ ftp'.dtp = ftp.dtp /\ ftp'.waitForDtpToConnect = ftp.waitForDtpToConnect
        /\ ftp'.declared = ftp.declared
    BY <1>1, <1>3 DEF NewList, Sound, Typed, Ftp
  <2>2. QED
    BY <1>2, <2>1 DEF Stalled
<1>4. CASE putBuf
  <2> DEFINE put == [kind |-> "Put", id |-> due]
             new == IF ftp.state = "Unconnected"
                    THEN <<[kind |-> "ConnectToHost", id |-> NoList],
                           [kind |-> "Login", id |-> NoList], put>>
                    ELSE <<put>>
             p == ftp.pending \o new
             k == (ftp.kick \/ ftp.pending = <<>>)
  <2>1. ftp' = [ftp EXCEPT !.pending = p, !.kick = k]
    BY <1>1, <1>4 DEF putBuf, Sound, Typed, Ftp
  <2>2. new \in Seq(Commands)
    <3>1. /\ put \in Commands /\ [kind |-> "ConnectToHost", id |-> NoList] \in Commands
          /\ [kind |-> "Login", id |-> NoList] \in Commands
      <4>1. due \in Lists
        BY <1>1, <1>4 DEF putBuf
      <4>2. QED
        BY <4>1 DEF Commands
    <3>2. QED
      BY <3>1
  <2> HIDE DEF new
  <2>3. ftp.pending \in Seq(Commands) /\ ftp.pending # <<>> /\ Len(ftp.pending) \in Nat \ {0}
    BY <1>1, LenProperties, EmptySeq DEF Sound, Typed, Ftp, Stalled
  <2>4. p # <<>> /\ Head(p) = Head(ftp.pending)
    BY <2>2, <2>3, ConcatProperties
  <2>5. k = ftp.kick
    BY <1>1, <2>3 DEF Sound, Typed, Ftp
  <2> HIDE DEF p, k
  <2>6. /\ ftp'.pending = p /\ ftp'.kick = k /\ ftp'.socket = ftp.socket
        /\ ftp'.dtp = ftp.dtp /\ ftp'.waitForDtpToConnect = ftp.waitForDtpToConnect
        /\ ftp'.declared = ftp.declared
    BY <1>1, <2>1 DEF Sound, Typed, Ftp
  <2>7. QED
    BY <1>2, <2>4, <2>5, <2>6
<1>5. CASE SetCommand
  <2>1. /\ ftp'.pending = ftp.pending /\ ftp'.kick = ftp.kick /\ ftp'.socket = ftp.socket
        /\ ftp'.dtp = ftp.dtp /\ ftp'.waitForDtpToConnect = ftp.waitForDtpToConnect
        /\ ftp'.declared = ftp.declared
    BY <1>1, <1>5 DEF SetCommand, Sound, Typed, Ftp
  <2>2. QED
    BY <1>2, <2>1 DEF Stalled
<1>6. ~Kick /\ ~Connect /\ ~Greeting /\ ~Reply /\ ~DataConnected /\ ~DataFails
  BY <1>1 DEF Kick, Connect, Greeting, DataConnected, DataFails, Waiting, Reply, ReplyFailure,
              ReplyLogin, ReplySize, ReplyTransfer, ReplyAppend, ReplyRefused, ReplyDone
<1>7. CASE DataClosed \/ ControlClosed
  <2>1. /\ ftp'.pending = ftp.pending /\ ftp'.kick = ftp.kick
        /\ ftp'.socket \in {ftp.socket, "closed"} /\ ftp'.dtp \in {ftp.dtp, "none"}
        /\ ftp'.waitForDtpToConnect = ftp.waitForDtpToConnect
        /\ ftp'.declared = ftp.declared
    BY <1>1, <1>7 DEF DataClosed, ControlClosed, Sound, Typed, Ftp
  <2>2. QED
    BY <1>2, <2>1 DEF Stalled
<1>8. CASE UNCHANGED vars
  BY <1>8 DEF vars, Stalled
<1>9. QED
  BY <1>3, <1>4, <1>5, <1>6, <1>7, <1>8 DEF Next

\* What PutEnds excepts is no passing state: when a command has stalled nothing ends it, and
\* no list is declared any more, whatever lists follow.
THEOREM StalledForEver == Spec => [][Stalled => Stalled' /\ ftp'.declared = ftp.declared]_vars
<1>1. Spec => []TypeInv
  BY TypeInit, TypeStep, PTL DEF Spec
<1>2. TypeInv /\ [Next]_vars => [Stalled => Stalled' /\ ftp'.declared = ftp.declared]_vars
  BY StalledStep
<1>3. QED
  BY <1>1, <1>2, PTL DEF Spec
=============================================================================
