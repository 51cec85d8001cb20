----------------------------- MODULE CommandTable -----------------------------
(***************************************************************************)
(* How Livox-SDK2 sends a command and matches its answer: the commands_    *)
(* table of GeneralCommandHandler, the datagrams in flight to and from one *)
(* lidar, and the io threads that send.  What a command's callback does is *)
(* a parameter of the operators: the set of commands it sends.             *)
(*                                                                         *)
(* GeneralCommandHandler::SendCommand sends the datagram and then enters   *)
(* the command in the table; Mid360CommandHandler's own commands (AddFirst)*)
(* enter it first.                                                         *)
(*                                                                         *)
(* Sequence numbers are told apart per command and reused once nothing     *)
(* carries them: the code's 16-bit counter wraps long after that.  At most *)
(* Capacity datagrams of a command are in flight: sending one more loses   *)
(* the older ones.                                                         *)
(***************************************************************************)
EXTENDS Naturals, FiniteSets

CONSTANTS
  Cmds,      \* the commands sent to the lidar
  AddFirst,  \* those entered in the table before they are sent
  Threads,   \* the io threads whose handlers and timers run callbacks
  Seqs,      \* the sequence numbers one command uses
  Capacity   \* bound on the datagrams of one command in flight

ASSUME CmdsAssumption ==
  /\ AddFirst \subseteq Cmds /\ Capacity \in Nat
  /\ Seqs \subseteq Nat /\ Seqs # {}
  /\ IsFiniteSet(Cmds) /\ IsFiniteSet(Threads) /\ IsFiniteSet(Seqs)

VARIABLES
  table,     \* commands_: entries [seq, cmd] awaiting an answer
  requests,  \* datagrams on their way to the lidar
  acks,      \* answers on their way back: [seq, cmd, ok]
  issue,     \* by thread: commands its running handler has still to send
  finish     \* by thread: entries whose SendCommand has done its first half

tableVars == <<table, requests, acks, issue, finish>>

TableInit ==
  /\ table = {} /\ requests = {} /\ acks = {}
  /\ issue = [t \in Threads |-> {}] /\ finish = [t \in Threads |-> {}]

Entries == [seq : Seqs, cmd : Cmds]
Answers == [seq : Seqs, cmd : Cmds, ok : BOOLEAN]

FreeSeqs(c) ==
  Seqs \ {e.seq : e \in {x \in table \cup requests \cup acks
                               \cup UNION {finish[t] : t \in Threads} : x.cmd = c}}

NewEntry(c) == [seq |-> CHOOSE s \in FreeSeqs(c) : \A r \in FreeSeqs(c) : s <= r,
                cmd |-> c]

InFlight(c) == {d \in requests \cup acks : d.cmd = c}
Kept(datagrams, c) == IF Cardinality(InFlight(c)) < Capacity
                        THEN datagrams ELSE datagrams \ InFlight(c)

\* sendto puts the datagram on its way.
Transmit(e) ==
  /\ requests' = Kept(requests, e.cmd) \cup {e}
  /\ acks' = Kept(acks, e.cmd)

Register(e) == table' = table \cup {e} /\ UNCHANGED <<requests, acks>>

\* A handler runs to its end: the thread takes up nothing else before.
Idle(t) == issue[t] = {} /\ finish[t] = {}

\* A command is sent when the one before is done; one sent again by its own
\* callback, called from within SendCommand, before the outer one is.
MayBegin(t, c) ==
  /\ c \in issue[t] /\ FreeSeqs(c) # {}
  /\ \A e \in finish[t] : e.cmd = c

\* The first half of SendCommand: the datagram goes out, or for the SDK's own
\* configuration command the table entry is made.
Begin(t, c) ==
  /\ MayBegin(t, c)
  /\ IF c \in AddFirst
       THEN Register(NewEntry(c))
       ELSE Transmit(NewEntry(c)) /\ UNCHANGED table
  /\ issue' = [issue EXCEPT ![t] = @ \ {c}]
  /\ finish' = [finish EXCEPT ![t] = @ \cup {NewEntry(c)}]

\* The second half.
End(t, e) ==
  /\ e \in finish[t] /\ e.cmd \notin issue[t]
  /\ IF e.cmd \in AddFirst
       THEN Transmit(e) /\ UNCHANGED table
       ELSE Register(e)
  /\ finish' = [finish EXCEPT ![t] = @ \ {e}]
  /\ UNCHANGED issue

FailToSend_NoEntry(t, c, reaction) ==
  /\ MayBegin(t, c)
  /\ issue' = [issue EXCEPT ![t] = (@ \ {c}) \cup reaction]
  /\ UNCHANGED <<table, finish, requests, acks>>

\* sendto fails: the callback is called on the spot, and the command is in
\* the table all the same.
FailToSend(t, c, reaction) ==
  /\ MayBegin(t, c)
  /\ issue' = [issue EXCEPT ![t] = (@ \ {c}) \cup reaction]
  /\ IF c \in AddFirst
       THEN table' = table \cup {NewEntry(c)} /\ UNCHANGED finish
       ELSE finish' = [finish EXCEPT ![t] = @ \cup {NewEntry(c)}] /\ UNCHANGED table
  /\ UNCHANGED <<requests, acks>>

EntryOf(a) == [seq |-> a.seq, cmd |-> a.cmd]

\* Handler: the answer's entry leaves the table and its callback runs; an
\* answer without an entry is dropped (its reaction is empty).
TakeAck(t, a, reaction) ==
  /\ Idle(t) /\ a \in acks
  /\ acks' = acks \ {a}
  /\ table' = table \ {EntryOf(a)}
  /\ issue' = [issue EXCEPT ![t] = reaction]
  /\ UNCHANGED <<requests, finish>>

Expire_EntriesKept(t, es, reaction) ==
  /\ Idle(t) /\ es # {} /\ es \subseteq table
  /\ issue' = [issue EXCEPT ![t] = reaction]
  /\ UNCHANGED <<table, requests, acks, finish>>

\* CommandsHandle: the entries past their time leave the table together,
\* then their callbacks run one after the other.
Expire(t, es, reaction) ==
  /\ Idle(t) /\ es # {} /\ es \subseteq table
  /\ table' = table \ es
  /\ issue' = [issue EXCEPT ![t] = reaction]
  /\ UNCHANGED <<requests, acks, finish>>

\* The lidar answers a request, or a datagram is lost either way.
Answer(r, ok) ==
  /\ r \in requests
  /\ requests' = requests \ {r}
  /\ acks' = acks \cup {[seq |-> r.seq, cmd |-> r.cmd, ok |-> ok]}
  /\ UNCHANGED <<table, issue, finish>>

Lose ==
  /\ \/ \E r \in requests : requests' = requests \ {r} /\ UNCHANGED acks
     \/ \E a \in acks : acks' = acks \ {a} /\ UNCHANGED requests
  /\ UNCHANGED <<table, issue, finish>>

\* How many times a command is being sent or awaits its answer or timeout.
Copies(c) ==
  Cardinality({e \in table : e.cmd = c})
    + Cardinality({t \in Threads : c \in issue[t]})
    + Cardinality({x \in Threads \X Entries :
                     x[2] \in finish[x[1]] /\ x[2] \notin table /\ x[2].cmd = c})
=============================================================================
