------------------------- MODULE LidarBringUp_proofs -------------------------
(***************************************************************************)
(* Where the commands of the driver are while one lidar is brought up, for *)
(* any settings, number of io threads and sequence numbers, whatever the   *)
(* network loses, delays or reorders and whenever the timeouts come.       *)
(***************************************************************************)
EXTENDS LidarBringUp, SumLaws

(***************************************************************************)
(* A command is under way in the table, in a handler that has still to     *)
(* send it, or between the halves of SendCommand.                          *)
(***************************************************************************)
InTable(c) == {e \in table : e.cmd = c}
Issuing(c) == {t \in Threads : c \in issue[t]}
Sending(c) == {x \in Threads \X Entries : x[2] \in finish[x[1]] /\ x[2].cmd = c}

Nowhere(c) == InTable(c) = {} /\ Issuing(c) = {} /\ Sending(c) = {}

Types ==
  /\ table \subseteq Entries /\ requests \subseteq Entries /\ acks \subseteq Answers
  /\ issue \in [Threads -> SUBSET Cmds] /\ finish \in [Threads -> SUBSET Entries]
  /\ setBits \subseteq Settings

LEMMA CommandsAre ==
  /\ DriverCmds \subseteq Cmds /\ "update" \notin DriverCmds /\ AddFirst = {"update"}
  /\ \A c \in Cmds : c \in DriverCmds \/ c = "update"
  /\ {"cmd", "detect"} \subseteq Threads
BY BringUpAssumption DEF DriverCmds

(***************************************************************************)
(* The sequence number of a new entry is the least free one.               *)
(***************************************************************************)
LEMMA NewEntryIs ==
  ASSUME NEW c \in Cmds, FreeSeqs(c) # {}
  PROVE  NewEntry(c) \in Entries /\ NewEntry(c).cmd = c
<1>1. FreeSeqs(c) \subseteq Seqs /\ Seqs \subseteq Nat
  BY CmdsAssumption DEF FreeSeqs
<1>2. \E s \in FreeSeqs(c) : \A r \in FreeSeqs(c) : s <= r
  BY <1>1, LeastOf
<1>3. NewEntry(c).seq \in FreeSeqs(c) /\ NewEntry(c).cmd = c
  BY <1>2 DEF NewEntry
<1>4. NewEntry(c) \in [seq : {NewEntry(c).seq}, cmd : {NewEntry(c).cmd}]
  BY DEF NewEntry
<1> QED BY <1>1, <1>3, <1>4 DEF Entries

(***************************************************************************)
(* The moves of one command.                                               *)
(***************************************************************************)
Still(c) ==
  InTable(c)' = InTable(c) /\ Issuing(c)' = Issuing(c) /\ Sending(c)' = Sending(c)

\* An io thread has done the first half of SendCommand.
HalfSent(c) ==
  /\ InTable(c)' = InTable(c)
  /\ \E t \in Issuing(c) : Issuing(c)' = Issuing(c) \ {t}
  /\ \E x \in Threads \X Entries : Sending(c)' = Sending(c) \cup {x}

\* Its callback has called for it again, because sendto failed.
CalledAgain(c) ==
  /\ MayFailSend /\ c = "mode" /\ Issuing(c) # {}
  /\ InTable(c)' = InTable(c) /\ Issuing(c)' = Issuing(c)
  /\ \E x \in Threads \X Entries : Sending(c)' = Sending(c) \cup {x}

\* An io thread has entered it in the table.
Entered(c) ==
  /\ Issuing(c)' = Issuing(c)
  /\ \E x \in Sending(c) : /\ Sending(c)' = Sending(c) \ {x}
                           /\ InTable(c)' = InTable(c) \cup {x[2]}

\* It has timed out, and its callback sends it again, or not.
Expired(c) ==
  /\ Sending(c)' = Sending(c)
  /\ \E es : InTable(c)' = InTable(c) \ es /\ InTable(c) \cap es # {}
  /\ \/ \E t \in Threads : Issuing(c)' = Issuing(c) \cup {t}
     \/ c = "imu" /\ Issuing(c)' = Issuing(c)

Confirmed(c) ==
  /\ Issuing(c)' = Issuing(c) /\ Sending(c)' = Sending(c)
  /\ \E e \in InTable(c) : InTable(c)' = InTable(c) \ {e}

\* LidarInfoChangeCallback has called for it.
Started(c) ==
  /\ InTable(c)' = InTable(c) /\ Sending(c)' = Sending(c)
  /\ \E t \in Threads : Issuing(c)' = Issuing(c) \cup {t}

LEMMA Unmoved ==
  ASSUME NEW c, UNCHANGED <<table, issue, finish>>
  PROVE  Still(c)
BY DEF Still, InTable, Issuing, Sending

LEMMA BeginMoves ==
  ASSUME Types, NEW c \in DriverCmds, NEW t \in Threads, NEW d \in issue[t], Begin(t, d)
  PROVE  IF d = c THEN HalfSent(c) ELSE Still(c)
<1>1. /\ d \in Cmds /\ FreeSeqs(d) # {}
      /\ issue' = [issue EXCEPT ![t] = @ \ {d}]
      /\ finish' = [finish EXCEPT ![t] = @ \cup {NewEntry(d)}]
  BY DEF Types, Begin, MayBegin
<1>2. NewEntry(d) \in Entries /\ NewEntry(d).cmd = d
  BY <1>1, NewEntryIs
<1>3. InTable(c)' = InTable(c)
  <2>1. CASE d \in AddFirst
    <3>1. d # c /\ table' = table \cup {NewEntry(d)}
      BY <2>1, CommandsAre DEF Begin, Register
    <3> QED BY <1>2, <3>1 DEF InTable
  <2>2. CASE d \notin AddFirst
    BY <2>2 DEF Begin, InTable
  <2> QED BY <2>1, <2>2
<1>4. CASE d = c
  <2>1. t \in Issuing(c) /\ Issuing(c)' = Issuing(c) \ {t}
    BY <1>1, <1>4 DEF Types, Issuing
  <2>2. Sending(c)' = Sending(c) \cup {<<t, NewEntry(d)>>}
    BY <1>1, <1>2, <1>4 DEF Types, Sending
  <2>3. <<t, NewEntry(d)>> \in Threads \X Entries
    BY <1>2
  <2> QED BY <1>3, <1>4, <2>1, <2>2, <2>3 DEF HalfSent
<1>5. CASE d # c
  <2>1. Issuing(c)' = Issuing(c)
    BY <1>1, <1>5 DEF Types, Issuing
  <2>2. Sending(c)' = Sending(c)
    BY <1>1, <1>2, <1>5 DEF Types, Sending
  <2> QED BY <1>3, <1>5, <2>1, <2>2 DEF Still
<1> QED BY <1>4, <1>5

LEMMA EndMoves ==
  ASSUME Types, NEW c \in DriverCmds, NEW t \in Threads, NEW e \in finish[t], End(t, e)
  PROVE  IF e.cmd = c THEN Entered(c) ELSE Still(c)
<1>1. e \in Entries /\ issue' = issue /\ finish' = [finish EXCEPT ![t] = @ \ {e}]
  BY DEF Types, End
<1>2. Issuing(c)' = Issuing(c)
  BY <1>1 DEF Issuing
<1>3. CASE e.cmd = c
  <2>1. table' = table \cup {e}
    BY <1>3, CommandsAre DEF End, Register
  <2>2. <<t, e>> \in Sending(c) /\ Sending(c)' = Sending(c) \ {<<t, e>>}
    BY <1>1, <1>3 DEF Types, Sending
  <2>3. InTable(c)' = InTable(c) \cup {<<t, e>>[2]}
    BY <1>3, <2>1 DEF InTable
  <2> QED BY <1>2, <1>3, <2>2, <2>3 DEF Entered
<1>4. CASE e.cmd # c
  <2>1. table' = table \/ table' = table \cup {e}
    BY DEF End, Register, Transmit
  <2>2. InTable(c)' = InTable(c)
    BY <1>4, <2>1 DEF InTable
  <2>3. Sending(c)' = Sending(c)
    BY <1>1, <1>4 DEF Types, Sending
  <2> QED BY <1>2, <1>4, <2>2, <2>3 DEF Still
<1> QED BY <1>3, <1>4

LEMMA FailedSendMoves ==
  ASSUME Types, NEW c \in DriverCmds, NEW t \in Threads, FailedSend(t)
  PROVE  Still(c) \/ HalfSent(c) \/ CalledAgain(c)
<1>1. PICK d \in issue[t] : FailToSend(t, d, OnSendFailed(d))
  BY DEF FailedSend
<1>2. /\ d \in Cmds /\ FreeSeqs(d) # {} /\ MayFailSend
      /\ issue' = [issue EXCEPT ![t] = (@ \ {d}) \cup ({d} \cap {"mode"})]
  BY <1>1 DEF Types, FailedSend, FailToSend, MayBegin, OnSendFailed
<1>3. NewEntry(d) \in Entries /\ NewEntry(d).cmd = d
  BY <1>2, NewEntryIs
<1>4. CASE d # c
  <2>1. Issuing(c)' = Issuing(c)
    BY <1>2, <1>4 DEF Types, Issuing
  <2>2. \/ table' = table \cup {NewEntry(d)} /\ UNCHANGED finish
        \/ finish' = [finish EXCEPT ![t] = @ \cup {NewEntry(d)}] /\ UNCHANGED table
    BY <1>1 DEF FailToSend
  <2>3. InTable(c)' = InTable(c)
    BY <1>3, <1>4, <2>2 DEF InTable
  <2>4. Sending(c)' = Sending(c)
    BY <1>3, <1>4, <2>2 DEF Types, Sending
  <2> QED BY <2>1, <2>3, <2>4 DEF Still
<1>5. CASE d = c
  <2>1. finish' = [finish EXCEPT ![t] = @ \cup {NewEntry(d)}] /\ UNCHANGED table
    BY <1>1, <1>5, CommandsAre DEF FailToSend
  <2>2. InTable(c)' = InTable(c)
    BY <2>1 DEF InTable
  <2>3. Sending(c)' = Sending(c) \cup {<<t, NewEntry(d)>>}
    BY <1>3, <1>5, <2>1 DEF Types, Sending
  <2>4. <<t, NewEntry(d)>> \in Threads \X Entries /\ t \in Issuing(c)
    BY <1>3, <1>5 DEF Issuing
  <2>5. CASE c = "mode"
    <3>1. Issuing(c)' = Issuing(c)
      BY <1>2, <1>5, <2>5 DEF Types, Issuing
    <3> QED BY <1>2, <2>2, <2>3, <2>4, <2>5, <3>1 DEF CalledAgain
  <2>6. CASE c # "mode"
    <3>1. Issuing(c)' = Issuing(c) \ {t}
      BY <1>2, <1>5, <2>6 DEF Types, Issuing
    <3> QED BY <2>2, <2>3, <2>4, <3>1 DEF HalfSent
  <2> QED BY <2>5, <2>6
<1> QED BY <1>4, <1>5

\* An answer takes its entry out of the table; its handler was idle.
LEMMA TakeAckMoves ==
  ASSUME Types, NEW c \in DriverCmds, NEW a \in acks, NEW R \in SUBSET Cmds,
         TakeAck("cmd", a, R)
  PROVE  /\ InTable(c)' = InTable(c) \ {EntryOf(a)} /\ Sending(c)' = Sending(c)
         /\ Issuing(c)' = IF c \in R THEN Issuing(c) \cup {"cmd"} ELSE Issuing(c)
         /\ EntryOf(a).cmd = a.cmd
<1>1. /\ table' = table \ {EntryOf(a)} /\ finish' = finish
      /\ issue["cmd"] = {} /\ issue' = [issue EXCEPT !["cmd"] = R]
  BY DEF TakeAck, Idle
<1>2. InTable(c)' = InTable(c) \ {EntryOf(a)}
  BY <1>1 DEF InTable
<1>3. Sending(c)' = Sending(c)
  BY <1>1 DEF Sending
<1>4. Issuing(c)' = IF c \in R THEN Issuing(c) \cup {"cmd"} ELSE Issuing(c)
  <2>1. \A t \in Threads : issue'[t] = IF t = "cmd" THEN R ELSE issue[t]
    BY <1>1 DEF Types
  <2> QED BY <1>1, <2>1, CommandsAre DEF Issuing
<1>5. EntryOf(a).cmd = a.cmd
  BY DEF EntryOf
<1> QED BY <1>2, <1>3, <1>4, <1>5

\* An answer to another command, or one that has no entry, moves nothing.
LEMMA OtherAckMoves ==
  ASSUME Types, NEW c \in DriverCmds, NEW a \in acks, TakeAck("cmd", a, {}),
         a.cmd # c \/ EntryOf(a) \notin table
  PROVE  Still(c)
<1>1. /\ InTable(c)' = InTable(c) \ {EntryOf(a)} /\ EntryOf(a).cmd = a.cmd
      /\ Sending(c)' = Sending(c) /\ Issuing(c)' = Issuing(c)
  BY TakeAckMoves
<1>2. InTable(c) \ {EntryOf(a)} = InTable(c)
  BY <1>1 DEF InTable
<1> QED BY <1>1, <1>2 DEF Still

LEMMA OwnAckMoves ==
  ASSUME Types, NEW c \in DriverCmds, NEW a \in acks, TakeAck("cmd", a, {}),
         a.cmd = c, EntryOf(a) \in table
  PROVE  Confirmed(c)
<1>1. EntryOf(a) \in InTable(c)
  BY TakeAckMoves DEF InTable
<1> QED BY <1>1, TakeAckMoves DEF Confirmed

\* A timeout takes its entries out of the table together.
LEMMA TimeOutMoves ==
  ASSUME Types, NEW c \in DriverCmds, NEW t \in Threads, TimeOut(t)
  PROVE  Still(c) \/ Expired(c)
<1>1. PICK es \in SUBSET table : Expire(t, es, OnTimeout(es))
  BY DEF TimeOut
<1>2. /\ table' = table \ es /\ finish' = finish
      /\ issue[t] = {} /\ issue' = [issue EXCEPT ![t] = OnTimeout(es)]
  BY <1>1 DEF Expire, Idle
<1>3. InTable(c)' = InTable(c) \ es /\ Sending(c)' = Sending(c)
  BY <1>2 DEF InTable, Sending
<1>4. \A s \in Threads : issue'[s] = IF s = t THEN OnTimeout(es) ELSE issue[s]
  BY <1>2 DEF Types
<1>5. Issuing(c)' = IF c \in OnTimeout(es) THEN Issuing(c) \cup {t} ELSE Issuing(c)
  BY <1>2, <1>4 DEF Issuing
<1>6. c \in OnTimeout(es) <=> c # "imu" /\ InTable(c) \cap es # {}
  <2>1. c \in OnTimeout(es) <=> c # "imu" /\ \E e \in es : e.cmd = c
    BY BringUpAssumption DEF OnTimeout, DriverCmds
  <2>2. (\E e \in es : e.cmd = c) <=> InTable(c) \cap es # {}
    BY DEF InTable
  <2> QED BY <2>1, <2>2
<1>7. CASE InTable(c) \cap es = {}
  BY <1>3, <1>5, <1>6, <1>7 DEF Still
<1>8. CASE InTable(c) \cap es # {}
  BY <1>3, <1>5, <1>6, <1>8 DEF Expired
<1> QED BY <1>7, <1>8

LEMMA DetectMoves ==
  ASSUME Types, NEW c \in DriverCmds, Detect
  PROVE  Still(c)
<1>1. /\ table' = table /\ finish' = finish
      /\ issue["detect"] = {} /\ issue' = [issue EXCEPT !["detect"] = {"update"}]
  BY DEF Detect, Idle
<1>2. InTable(c)' = InTable(c) /\ Sending(c)' = Sending(c)
  BY <1>1 DEF InTable, Sending
<1>3. Issuing(c)' = Issuing(c)
  <2>1. \A t \in Threads : issue'[t] = IF t = "detect" THEN {"update"} ELSE issue[t]
    BY <1>1 DEF Types
  <2> QED BY <1>1, <2>1, CommandsAre DEF Issuing
<1> QED BY <1>2, <1>3 DEF Still

(***************************************************************************)
(* The moves a step may make, with what the driver knows of the command.   *)
(***************************************************************************)
Known(c) == (reported' <=> reported) /\ (c \in answered' <=> c \in answered)

Moved(c) ==
  \/ Known(c) /\ (Still(c) \/ HalfSent(c) \/ CalledAgain(c) \/ Entered(c) \/ Expired(c))
  \/ (reported' <=> reported) /\ c \in answered' /\ Confirmed(c)
  \/ ~reported /\ reported' /\ (c \in answered' <=> c \in answered) /\ Started(c)

LEMMA HandleMoves ==
  ASSUME Types, NEW c \in DriverCmds, NEW a \in acks, DropAck(a) \/ Handle(a)
  PROVE  Moved(c)
<1>1. CASE DropAck(a)
  <2>1. Known(c) /\ TakeAck("cmd", a, {}) /\ EntryOf(a) \notin table
    BY <1>1 DEF DropAck, Known, driverVars
  <2> QED BY <2>1, OtherAckMoves DEF Moved
<1>2. CASE UpdateAnswered(a)
  <2>1. /\ a.cmd = "update" /\ answered' = answered \cup {"update"}
        /\ reported' = (reported \/ a.ok)
        /\ TakeAck("cmd", a, IF a.ok /\ ~reported THEN DriverCmds ELSE {})
    BY <1>2 DEF UpdateAnswered
  <2>2. c # "update" /\ (c \in answered' <=> c \in answered)
    BY <2>1, CommandsAre
  <2>3. CASE a.ok /\ ~reported
    <3>1. TakeAck("cmd", a, DriverCmds) /\ reported' /\ DriverCmds \in SUBSET Cmds
      BY <2>1, <2>3, CommandsAre
    <3>2. /\ InTable(c)' = InTable(c) \ {EntryOf(a)} /\ EntryOf(a).cmd = a.cmd
          /\ Sending(c)' = Sending(c) /\ Issuing(c)' = Issuing(c) \cup {"cmd"}
      BY <3>1, TakeAckMoves
    <3>3. InTable(c) \ {EntryOf(a)} = InTable(c)
      BY <2>1, <2>2, <3>2 DEF InTable
    <3> QED BY <2>2, <2>3, <3>1, <3>2, <3>3, CommandsAre DEF Moved, Started
  <2>4. CASE ~(a.ok /\ ~reported)
    <3>1. TakeAck("cmd", a, {}) /\ Known(c)
      BY <2>1, <2>2, <2>4 DEF Known
    <3> QED BY <2>1, <2>2, <3>1, OtherAckMoves DEF Moved
  <2> QED BY <2>3, <2>4
<1>3. CASE SettingAnswered(a) \/ OtherAnswered(a)
  <2>1. /\ TakeAck("cmd", a, {}) /\ EntryOf(a) \in table /\ reported' = reported
        /\ answered' = answered \cup {a.cmd}
    BY <1>3 DEF SettingAnswered, OtherAnswered, driverVars
  <2>2. CASE a.cmd = c
    BY <2>1, <2>2, OwnAckMoves DEF Moved
  <2>3. CASE a.cmd # c
    <3>1. Known(c)
      BY <2>1, <2>3 DEF Known
    <3> QED BY <2>1, <2>3, <3>1, OtherAckMoves DEF Moved
  <2> QED BY <2>2, <2>3
<1> QED BY <1>1, <1>2, <1>3 DEF Handle

LEMMA Moves ==
  ASSUME Types, [Next]_vars, NEW c \in DriverCmds
  PROVE  Moved(c)
<1>1. CASE Detect
  <2>1. Known(c)
    BY <1>1 DEF Detect, Known, driverVars
  <2> QED BY <1>1, <2>1, DetectMoves DEF Moved
<1>2. ASSUME NEW t \in Threads, Send(t) PROVE Moved(c)
  <2>1. Known(c)
    BY <1>2 DEF Send, Known, driverVars
  <2>2. (\E d \in issue[t] : Begin(t, d)) \/ (\E e \in finish[t] : End(t, e))
    BY <1>2 DEF Send
  <2>3. Still(c) \/ HalfSent(c) \/ Entered(c)
    BY <2>2, BeginMoves, EndMoves
  <2> QED BY <2>1, <2>3 DEF Moved
<1>3. ASSUME NEW t \in Threads, FailedSend(t) PROVE Moved(c)
  <2>1. Known(c)
    BY <1>3 DEF FailedSend, Known
  <2> QED BY <1>3, <2>1, FailedSendMoves DEF Moved
<1>4. ASSUME NEW t \in Threads, TimeOut(t) PROVE Moved(c)
  <2>1. Known(c)
    BY <1>4 DEF TimeOut, Known, driverVars
  <2> QED BY <1>4, <2>1, TimeOutMoves DEF Moved
<1>5. CASE (\E r \in requests : LidarAnswers(r)) \/ LoseDatagram \/ UNCHANGED vars
  <2>1. ASSUME NEW r \in requests, LidarAnswers(r)
        PROVE  UNCHANGED <<table, issue, finish, reported, answered>>
    BY <2>1 DEF LidarAnswers, Answer, driverVars
  <2>2. LoseDatagram \/ UNCHANGED vars => UNCHANGED <<table, issue, finish, reported, answered>>
    BY DEF LoseDatagram, Lose, vars, tableVars, driverVars
  <2>3. UNCHANGED <<table, issue, finish, reported, answered>>
    BY <1>5, <2>1, <2>2
  <2>4. Known(c)
    BY <2>3 DEF Known
  <2> QED BY <2>3, <2>4, Unmoved DEF Moved
<1> QED BY <1>1, <1>2, <1>3, <1>4, <1>5, HandleMoves DEF Next

(***************************************************************************)
(* The types, as far as the moves need them.                               *)
(***************************************************************************)
LEMMA TypesInit == Init => Types
BY DEF Init, TableInit, Types

LEMMA EntryOfIs == ASSUME NEW a \in Answers PROVE EntryOf(a) \in Entries
BY DEF Answers, Entries, EntryOf

LEMMA TransmitTypes ==
  ASSUME Types, NEW e \in Entries, Transmit(e)
  PROVE  requests' \subseteq Entries /\ acks' \subseteq Answers
BY DEF Types, Transmit, Kept

LEMMA TypesStep == Types /\ [Next]_vars => Types'
<1> SUFFICES ASSUME Types, [Next]_vars PROVE Types'
  OBVIOUS
<1>1. CASE Detect
  <2>1. {"update"} \in SUBSET Cmds
    BY BringUpAssumption
  <2> QED BY <1>1, <2>1 DEF Detect, Types, driverVars
<1>2. ASSUME NEW t \in Threads, NEW d \in issue[t], Begin(t, d), UNCHANGED setBits PROVE Types'
  <2>1. NewEntry(d) \in Entries /\ d \in Cmds
    BY <1>2, NewEntryIs DEF Types, Begin, MayBegin
  <2>2. table' \subseteq Entries /\ requests' \subseteq Entries /\ acks' \subseteq Answers
    BY <1>2, <2>1, TransmitTypes DEF Begin, Register, Types
  <2> QED BY <1>2, <2>1, <2>2 DEF Types, Begin
<1>3. ASSUME NEW t \in Threads, NEW e \in finish[t], End(t, e), UNCHANGED setBits PROVE Types'
  <2>1. e \in Entries
    BY DEF Types
  <2>2. table' \subseteq Entries /\ requests' \subseteq Entries /\ acks' \subseteq Answers
    BY <1>3, <2>1, TransmitTypes DEF End, Register, Types
  <2> QED BY <1>3, <2>2 DEF Types, End
<1>4. ASSUME NEW t \in Threads, FailedSend(t) PROVE Types'
  <2>1. PICK d \in issue[t] : FailToSend(t, d, OnSendFailed(d))
    BY <1>4 DEF FailedSend
  <2>2. NewEntry(d) \in Entries /\ d \in Cmds /\ OnSendFailed(d) \subseteq Cmds
    BY <2>1, NewEntryIs DEF Types, FailToSend, MayBegin, OnSendFailed
  <2> QED BY <1>4, <2>1, <2>2 DEF Types, FailToSend, FailedSend
<1>5. ASSUME NEW a \in acks, NEW R \in SUBSET Cmds, TakeAck("cmd", a, R), setBits' \subseteq Settings
      PROVE  Types'
  BY <1>5 DEF TakeAck, Types
<1>6. ASSUME NEW a \in acks, DropAck(a) \/ Handle(a) PROVE Types'
  <2>1. CASE UpdateAnswered(a)
    <3>1. (IF a.ok /\ ~reported THEN DriverCmds ELSE {}) \in SUBSET Cmds
      BY CommandsAre
    <3>2. setBits' \subseteq Settings
      BY <2>1 DEF UpdateAnswered, Types
    <3>3. TakeAck("cmd", a, IF a.ok /\ ~reported THEN DriverCmds ELSE {})
      BY <2>1 DEF UpdateAnswered
    <3> QED BY <1>5, <3>1, <3>2, <3>3
  <2>2. CASE DropAck(a) \/ SettingAnswered(a) \/ OtherAnswered(a)
    <3>1. TakeAck("cmd", a, {}) /\ setBits' \subseteq Settings
      BY <2>2 DEF DropAck, SettingAnswered, OtherAnswered, driverVars, Types
    <3>2. {} \in SUBSET Cmds
      OBVIOUS
    <3> QED BY <1>5, <3>1, <3>2
  <2> QED BY <1>6, <2>1, <2>2 DEF Handle
<1>7. ASSUME NEW t \in Threads, TimeOut(t) PROVE Types'
  <2>1. PICK es \in SUBSET table : Expire(t, es, OnTimeout(es))
    BY <1>7 DEF TimeOut
  <2>2. OnTimeout(es) \subseteq Cmds
    BY DEF OnTimeout, Types, Entries
  <2> QED BY <1>7, <2>1, <2>2 DEF Types, Expire, TimeOut, driverVars
<1>8. ASSUME NEW r \in requests, LidarAnswers(r) PROVE Types'
  <2>1. PICK ok \in BOOLEAN : Answer(r, ok)
    BY <1>8 DEF LidarAnswers
  <2>2. r \in Entries /\ [seq |-> r.seq, cmd |-> r.cmd, ok |-> ok] \in Answers
    BY DEF Types, Entries, Answers
  <2> QED BY <1>8, <2>1, <2>2 DEF Types, Answer, LidarAnswers, driverVars
<1>9. CASE LoseDatagram
  BY <1>9 DEF LoseDatagram, Lose, Types, driverVars
<1>10. CASE UNCHANGED vars
  BY <1>10 DEF Types, vars, tableVars, driverVars
<1>11. ASSUME NEW t \in Threads, Send(t) PROVE Types'
  BY <1>2, <1>3, <1>11 DEF Send, driverVars
<1> QED BY <1>1, <1>4, <1>6, <1>7, <1>8, <1>9, <1>10, <1>11 DEF Next

LEMMA TypesHold == Spec => []Types
BY TypesInit, TypesStep, PTL DEF Spec

(***************************************************************************)
(* The inductive invariants.                                               *)
(***************************************************************************)
\* Before the lidar is reported the driver has sent it nothing.
Quiet == ~reported => \A c \in DriverCmds : Nowhere(c) /\ c \notin answered

Traced == reported => \A c \in DriverCmds \ {"imu"} : c \in answered \/ ~Nowhere(c)

One(c) ==
  \/ Nowhere(c)
  \/ (\E e : InTable(c) = {e}) /\ Issuing(c) = {} /\ Sending(c) = {}
  \/ InTable(c) = {} /\ (\E t : Issuing(c) = {t}) /\ Sending(c) = {}
  \/ InTable(c) = {} /\ Issuing(c) = {} /\ (\E x : Sending(c) = {x})

Single == \A c \in DriverCmds : One(c) /\ (c \in answered => Nowhere(c))

LEMMA NowhereAtFirst == Init => \A c \in DriverCmds : Nowhere(c) /\ c \notin answered
<1> SUFFICES ASSUME Init, NEW c \in DriverCmds PROVE Nowhere(c) /\ c \notin answered
  OBVIOUS
<1>1. /\ table = {} /\ answered = {}
      /\ issue = [t \in Threads |-> {}] /\ finish = [t \in Threads |-> {}]
  BY DEF Init, TableInit
<1>2. InTable(c) = {} /\ Issuing(c) = {}
  BY <1>1 DEF InTable, Issuing
<1>3. Sending(c) = {}
  BY <1>1 DEF Sending
<1> QED BY <1>1, <1>2, <1>3 DEF Nowhere

LEMMA QuietStep == Types /\ Quiet /\ [Next]_vars => Quiet'
<1> SUFFICES ASSUME Types, Quiet, [Next]_vars, ~reported', NEW c \in DriverCmds
             PROVE  Nowhere(c)' /\ c \notin answered'
  BY DEF Quiet
<1>1. Moved(c)
  BY Moves
<1>2. ~reported /\ Nowhere(c) /\ c \notin answered
  BY <1>1 DEF Quiet, Moved, Known
<1>3. Still(c) /\ c \notin answered'
  BY <1>1, <1>2
     DEF Moved, Known, Nowhere, HalfSent, CalledAgain, Entered, Expired, Confirmed, Started
<1> QED BY <1>2, <1>3 DEF Still, Nowhere

LEMMA TracedStep == Types /\ Traced /\ [Next]_vars => Traced'
<1> SUFFICES ASSUME Types, Traced, [Next]_vars, reported', NEW c \in DriverCmds \ {"imu"},
                    c \notin answered'
             PROVE  ~Nowhere(c)'
  BY DEF Traced
<1>1. Moved(c)
  BY Moves
<1>2. CASE Started(c)
  BY <1>2 DEF Started, Nowhere
<1>3. CASE ~Started(c)
  <2>1. ~Nowhere(c) /\ Known(c)
    BY <1>1, <1>3 DEF Traced, Moved, Known
  <2>2. Still(c) \/ HalfSent(c) \/ CalledAgain(c) \/ Entered(c) \/ Expired(c)
    BY <1>1, <1>3, <2>1 DEF Moved, Known
  <2>3. CASE Still(c)
    BY <2>1, <2>3 DEF Still, Nowhere
  <2>4. CASE HalfSent(c)
    BY <2>4 DEF HalfSent, Nowhere
  <2>5. CASE CalledAgain(c)
    BY <2>5 DEF CalledAgain, Nowhere
  <2>6. CASE Entered(c)
    BY <2>6 DEF Entered, Nowhere
  <2>7. CASE Expired(c)
    BY <2>7 DEF Expired, Nowhere
  <2> QED BY <2>2, <2>3, <2>4, <2>5, <2>6, <2>7
<1> QED BY <1>2, <1>3

LEMMA SingleStep ==
  ASSUME MayFailSend => "mode" \notin Further
  PROVE  Types /\ Quiet /\ Single /\ [Next]_vars => Single'
<1> SUFFICES ASSUME Types, Quiet, Single, [Next]_vars, NEW c \in DriverCmds
             PROVE  One(c)' /\ (c \in answered' => Nowhere(c)')
  BY DEF Single
<1>1. Moved(c) /\ One(c) /\ (c \in answered => Nowhere(c))
  BY Moves DEF Single
<1>2. ~CalledAgain(c)
  BY BringUpAssumption DEF CalledAgain, DriverCmds
<1>3. CASE Known(c) /\ Still(c)
  BY <1>1, <1>3 DEF Known, Still, One, Nowhere
<1>4. CASE Known(c) /\ HalfSent(c)
  BY <1>1, <1>4 DEF Known, HalfSent, One, Nowhere
<1>5. CASE Known(c) /\ Entered(c)
  <2>1. PICK x \in Sending(c) : /\ Issuing(c)' = Issuing(c)
                                /\ Sending(c)' = Sending(c) \ {x}
                                /\ InTable(c)' = InTable(c) \cup {x[2]}
    BY <1>5 DEF Entered
  <2>2. InTable(c) = {} /\ Issuing(c) = {} /\ Sending(c) = {x} /\ c \notin answered
    BY <1>1 DEF One, Nowhere
  <2> QED BY <1>5, <2>1, <2>2 DEF Known, One
<1>6. CASE Known(c) /\ Expired(c)
  <2>1. /\ Sending(c)' = Sending(c) /\ InTable(c) # {}
        /\ \E es : InTable(c)' = InTable(c) \ es /\ InTable(c) \cap es # {}
        /\ (\E t \in Threads : Issuing(c)' = Issuing(c) \cup {t}) \/ Issuing(c)' = Issuing(c)
    BY <1>6 DEF Expired
  <2>2. /\ \E e : InTable(c) = {e}
        /\ Issuing(c) = {} /\ Sending(c) = {} /\ c \notin answered
    BY <1>1, <2>1 DEF One, Nowhere
  <2>3. InTable(c)' = {} /\ Sending(c)' = {}
    BY <2>1, <2>2
  <2>4. Issuing(c)' = {} \/ \E t : Issuing(c)' = {t}
    BY <2>1, <2>2
  <2> QED BY <1>6, <2>2, <2>3, <2>4 DEF Known, One, Nowhere
<1>7. CASE Confirmed(c)
  <2>1. PICK e \in InTable(c) : InTable(c)' = InTable(c) \ {e}
    BY <1>7 DEF Confirmed
  <2>2. Issuing(c)' = Issuing(c) /\ Sending(c)' = Sending(c)
    BY <1>7 DEF Confirmed
  <2>3. InTable(c) = {e} /\ Issuing(c) = {} /\ Sending(c) = {}
    BY <1>1 DEF One, Nowhere
  <2> QED BY <2>1, <2>2, <2>3 DEF One, Nowhere
<1>8. CASE ~reported /\ (c \in answered' <=> c \in answered) /\ Started(c)
  <2>1. Nowhere(c) /\ c \notin answered
    BY <1>8 DEF Quiet
  <2> QED BY <1>8, <2>1 DEF Started, One, Nowhere
<1> QED BY <1>1, <1>2, <1>3, <1>4, <1>5, <1>6, <1>7, <1>8 DEF Moved

(***************************************************************************)
(* How many copies that is.                                                *)
(***************************************************************************)
LEMMA FiniteCopies ==
  /\ IsFiniteSet(Threads) /\ IsFiniteSet(Entries) /\ IsFiniteSet(Threads \X Entries)
<1> DEFINE f == [e \in Entries |-> <<e.seq, e.cmd>>]
<1>1. IsFiniteSet(Threads) /\ IsFiniteSet(Seqs \X Cmds)
  BY CmdsAssumption, FS_Product
<1>2. f \in Injection(Entries, Seqs \X Cmds)
  BY DEF Entries, Injection, IsInjective
<1>3. IsFiniteSet(Entries)
  BY <1>1, <1>2, FS_Injection
<1> QED BY <1>1, <1>3, FS_Product

\* The entries half sent that are not in the table, as Copies counts them.
Counted(c) == {x \in Threads \X Entries :
                 x[2] \in finish[x[1]] /\ x[2] \notin table /\ x[2].cmd = c}

LEMMA CopiesAre ==
  ASSUME Types, NEW c
  PROVE  /\ Copies(c) = Cardinality(InTable(c)) + Cardinality(Issuing(c)) + Cardinality(Counted(c))
         /\ IsFiniteSet(InTable(c)) /\ IsFiniteSet(Issuing(c)) /\ IsFiniteSet(Counted(c))
         /\ Counted(c) = {x \in Sending(c) : x[2] \notin InTable(c)}
<1>1. InTable(c) \in SUBSET Entries /\ Issuing(c) \in SUBSET Threads
      /\ Counted(c) \in SUBSET (Threads \X Entries)
  BY DEF Types, InTable, Issuing, Counted
<1>2. IsFiniteSet(InTable(c)) /\ IsFiniteSet(Issuing(c)) /\ IsFiniteSet(Counted(c))
  BY <1>1, FiniteCopies, FS_Subset
<1>3. Counted(c) = {x \in Sending(c) : x[2] \notin InTable(c)}
  BY DEF Counted, Sending, InTable
<1> QED BY <1>2, <1>3 DEF Copies, InTable, Issuing, Counted

LEMMA SomeCopies ==
  ASSUME Types, NEW c, ~Nowhere(c)
  PROVE  Copies(c) > 0
<1>1. InTable(c) # {} \/ Issuing(c) # {} \/ Counted(c) # {}
  BY CopiesAre DEF Nowhere
<1>2. /\ Cardinality(InTable(c)) \in Nat /\ Cardinality(Issuing(c)) \in Nat
      /\ Cardinality(Counted(c)) \in Nat
  BY CopiesAre, FS_CardinalityType
<1>3. \/ Cardinality(InTable(c)) # 0 \/ Cardinality(Issuing(c)) # 0
      \/ Cardinality(Counted(c)) # 0
  BY <1>1, CopiesAre, FS_EmptySet
<1> QED BY <1>2, <1>3, CopiesAre

LEMMA NoCopies ==
  ASSUME Types, NEW c, Nowhere(c)
  PROVE  Copies(c) = 0
<1>1. InTable(c) = {} /\ Issuing(c) = {} /\ Counted(c) = {}
  BY CopiesAre DEF Nowhere
<1> QED BY <1>1, CopiesAre, FS_EmptySet

LEMMA OneCopyIs ==
  ASSUME Types, NEW c, One(c)
  PROVE  Copies(c) <= 1
<1>1. CASE Nowhere(c)
  BY <1>1, NoCopies
<1>2. CASE (\E e : InTable(c) = {e}) /\ Issuing(c) = {} /\ Sending(c) = {}
  <2>1. Counted(c) = {}
    BY <1>2, CopiesAre
  <2> QED BY <1>2, <2>1, CopiesAre, FS_EmptySet, FS_Singleton
<1>3. CASE InTable(c) = {} /\ (\E t : Issuing(c) = {t}) /\ Sending(c) = {}
  <2>1. Counted(c) = {}
    BY <1>3, CopiesAre
  <2> QED BY <1>3, <2>1, CopiesAre, FS_EmptySet, FS_Singleton
<1>4. CASE InTable(c) = {} /\ Issuing(c) = {} /\ (\E x : Sending(c) = {x})
  <2>1. Counted(c) = Sending(c)
    BY <1>4, CopiesAre
  <2> QED BY <1>4, <2>1, CopiesAre, FS_EmptySet, FS_Singleton
<1> QED BY <1>1, <1>2, <1>3, <1>4 DEF One

(***************************************************************************)
(* The theorems.                                                           *)
(***************************************************************************)
\* Once LidarInfoChangeCallback has run, every setting, the attitude and the
\* work mode is confirmed or still under way, also when sendto fails: no
\* answer that comes before its own table entry, and no timeout that comes
\* with it, makes the driver forget one.
THEOREM NoCommandForgotten == Spec => []NothingForgotten
<1>1. Init => Traced
  BY DEF Init, Traced
<1>2. Spec => []Traced
  BY <1>1, TracedStep, TypesHold, PTL DEF Spec
<1>3. Types /\ Traced => NothingForgotten
  BY SomeCopies DEF Traced, NothingForgotten
<1> QED BY <1>2, <1>3, TypesHold, PTL

\* Retries never pile up: of each command the driver has one copy under way at
\* most, and none once it is confirmed, if no failed send lets
\* WorkModeChangedCallback call for the work mode twice.
THEOREM NoCommandDoubled ==
  ASSUME MayFailSend => "mode" \notin Further
  PROVE  Spec => []OneCopy
<1>1. Init => Quiet /\ Single
  BY NowhereAtFirst DEF Quiet, Single, One
<1>2. Spec => [](Types /\ Quiet /\ Single)
  BY <1>1, QuietStep, SingleStep, TypesInit, TypesStep, PTL DEF Spec
<1>3. Types /\ Quiet /\ Single => OneCopy
  BY NoCopies, OneCopyIs DEF Single, OneCopy
<1> QED BY <1>2, <1>3, PTL

(***************************************************************************)
(* What sampling tells, while the lidar rejects nothing.                   *)
(***************************************************************************)
Accepted ==
  /\ \A a \in acks : a.cmd \in applied
  /\ reported => Settings \ setBits \subseteq applied
  /\ sampling => Settings \subseteq applied

LEMMA AcceptedStep ==
  ASSUME MayReject = FALSE
  PROVE  Types /\ Quiet /\ Accepted /\ [Next]_vars => Accepted'
<1> SUFFICES ASSUME Types, Quiet, Accepted, [Next]_vars PROVE Accepted'
  OBVIOUS
<1>1. ASSUME acks' \subseteq acks, UNCHANGED <<driverVars, applied>> PROVE Accepted'
  BY <1>1 DEF Accepted, driverVars
<1>2. \A e : Transmit(e) => acks' \subseteq acks
  BY DEF Transmit, Kept
<1>3. CASE Detect \/ LoseDatagram \/ UNCHANGED vars
  <2>1. acks' \subseteq acks /\ UNCHANGED <<driverVars, applied>>
    BY <1>3 DEF Detect, LoseDatagram, Lose, vars, tableVars
  <2> QED BY <1>1, <2>1
<1>4. ASSUME NEW t \in Threads, Send(t) PROVE Accepted'
  <2>1. acks' \subseteq acks /\ UNCHANGED <<driverVars, applied>>
    BY <1>2, <1>4 DEF Send, Begin, End, Register
  <2> QED BY <1>1, <2>1
<1>5. ASSUME NEW t \in Threads, FailedSend(t) PROVE Accepted'
  BY <1>5 DEF FailedSend, FailToSend, Accepted
<1>6. ASSUME NEW t \in Threads, TimeOut(t) PROVE Accepted'
  <2>1. acks' \subseteq acks /\ UNCHANGED <<driverVars, applied>>
    BY <1>6 DEF TimeOut, Expire
  <2> QED BY <1>1, <2>1
<1>7. ASSUME NEW r \in requests, LidarAnswers(r) PROVE Accepted'
  <2>1. /\ acks' = acks \cup {[seq |-> r.seq, cmd |-> r.cmd, ok |-> TRUE]}
        /\ applied' = applied \cup {r.cmd} /\ UNCHANGED driverVars
    BY <1>7 DEF LidarAnswers, Answer
  <2> QED BY <2>1 DEF Accepted, driverVars
<1>8. ASSUME NEW a \in acks, DropAck(a) \/ OtherAnswered(a) PROVE Accepted'
  <2>1. acks' \subseteq acks /\ UNCHANGED <<driverVars, applied>>
    BY <1>8 DEF DropAck, OtherAnswered, TakeAck
  <2> QED BY <1>1, <2>1
<1>9. ASSUME NEW a \in acks, UpdateAnswered(a) PROVE Accepted'
  <2>1. /\ acks' \subseteq acks /\ UNCHANGED <<applied, sampling>>
        /\ setBits' = IF a.ok /\ ~reported THEN Settings ELSE setBits
        /\ reported' = (reported \/ a.ok)
    BY <1>9 DEF UpdateAnswered, TakeAck
  <2>2. reported' => Settings \ setBits' \subseteq applied
    BY <2>1 DEF Accepted
  <2> QED BY <2>1, <2>2 DEF Accepted
<1>10. ASSUME NEW a \in acks, SettingAnswered(a) PROVE Accepted'
  <2>1. /\ acks' \subseteq acks /\ UNCHANGED <<applied, reported>>
        /\ a.cmd \in Settings /\ EntryOf(a) \in table
        /\ setBits' = setBits \ {a.cmd} /\ sampling' = (sampling \/ setBits' = {})
    BY <1>10 DEF SettingAnswered, TakeAck
  <2>2. EntryOf(a) \in InTable(a.cmd) /\ a.cmd \in DriverCmds
    BY <2>1 DEF InTable, EntryOf, DriverCmds
  <2>3. reported
    BY <2>2 DEF Quiet, Nowhere
  <2>4. Settings \ setBits' \subseteq applied
    BY <2>1, <2>3 DEF Accepted
  <2> QED BY <2>1, <2>4 DEF Accepted
<1> QED BY <1>3, <1>4, <1>5, <1>6, <1>7, <1>8, <1>9, <1>10 DEF Next, Handle

\* A lidar that rejects nothing is reported as sampling only after it has
\* accepted every setting, also when sendto fails, or answers overtake their
\* own table entries: no answer to another command clears a setting's bit.
THEOREM SamplingAfterSettings ==
  ASSUME MayReject = FALSE
  PROVE  Spec => []SamplingMeansApplied
<1>1. Init => Quiet /\ Accepted
  BY NowhereAtFirst DEF Init, TableInit, Quiet, Accepted
<1>2. Spec => [](Types /\ Quiet /\ Accepted)
  BY <1>1, QuietStep, AcceptedStep, TypesInit, TypesStep, PTL DEF Spec
<1>3. Accepted => SamplingMeansApplied
  BY DEF Accepted, SamplingMeansApplied
<1> QED BY <1>2, <1>3, PTL
=============================================================================
