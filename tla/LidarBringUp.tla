----------------------------- MODULE LidarBringUp -----------------------------
(***************************************************************************)
(* How livox_ros_driver2 brings one lidar up: the SDK configures the lidar *)
(* it has detected (Mid360CommandHandler), reports it once, and the driver *)
(* (LivoxLidarCallback) sends its settings and retries them until the      *)
(* lidar may stream (connect_state = kConnectStateSampling).               *)
(*                                                                         *)
(* Answers arrive at the command socket and are handled, callbacks         *)
(* included, by the command io thread; every io thread runs the timeouts.  *)
(***************************************************************************)
EXTENDS CommandTable

CONSTANTS
  Settings,      \* the settings the user's configuration gives a value
  Further,       \* of the commands sent to every lidar, those a run follows
  MayReject,     \* whether the lidar may answer with a non-zero ret_code
  MayFailSend,   \* whether sendto may fail
  MaxUpdates     \* bound on the SDK's configuration commands outstanding

\* What LidarInfoChangeCallback sends.
DriverCmds == Settings \cup Further

ASSUME BringUpAssumption ==
  /\ Settings \subseteq {"type", "pattern", "blind", "emit"}
  /\ Further \subseteq {"attitude", "mode", "imu"}
  /\ Cmds = DriverCmds \cup {"update"} /\ AddFirst = {"update"}
  /\ {"cmd", "detect"} \subseteq Threads
  /\ MayReject \in BOOLEAN /\ MayFailSend \in BOOLEAN /\ MaxUpdates \in Nat

VARIABLES
  reported,  \* the handle is in devices_, is_update_cfg and is_callback
  setBits,   \* livox_config.set_bits: settings not confirmed yet
  sampling,  \* connect_state = kConnectStateSampling
  crashed,   \* a callback has dereferenced the null response
  applied,   \* what the lidar has accepted
  answered   \* history: commands whose success callback has run

driverVars == <<reported, setBits, sampling, crashed>>
vars == <<tableVars, driverVars, applied, answered>>

Init ==
  /\ TableInit
  /\ reported = FALSE /\ setBits = {} /\ sampling = FALSE /\ crashed = FALSE
  /\ applied = {} /\ answered = {}

-----------------------------------------------------------------------------
\* LidarInfoChangeCallback sends the settings, the attitude, the work mode
\* and the IMU enable.  A timeout's callback sends its command again, but it
\* is given a null answer, which EnableLivoxLidarImuDataCallback tests first.
OnTimeout_ModeForgotten(es) ==
  {e.cmd : e \in es} \cap (Settings \cup {"attitude"})

OnTimeout(es) == {e.cmd : e \in es} \cap (Settings \cup {"attitude", "mode"})

\* On a failed send only WorkModeChangedCallback tries again.
OnSendFailed(c) == {c} \cap {"mode"}

\* HandleDetectionData, once a second while the lidar is not configured.
Detect ==
  /\ ~crashed /\ ~reported /\ Idle("detect")
  /\ Cardinality({e \in table : e.cmd = "update"}) < MaxUpdates
  /\ issue' = [issue EXCEPT !["detect"] = {"update"}]
  /\ UNCHANGED <<table, requests, acks, finish, driverVars, applied, answered>>

Send(t) ==
  /\ ~crashed
  /\ (\E c \in issue[t] : Begin(t, c)) \/ (\E e \in finish[t] : End(t, e))
  /\ UNCHANGED <<driverVars, applied, answered>>

\* The settings' callbacks take a failure for an answer and read its
\* ret_code through the null response.
FailedSend(t) ==
  /\ MayFailSend /\ ~crashed
  /\ \E c \in issue[t] :
       /\ FailToSend(t, c, OnSendFailed(c))
       /\ crashed' = (c \in Settings)
  /\ UNCHANGED <<reported, setBits, sampling, applied, answered>>

\* An answer to a command that is not in the table is dropped.
DropAck(a) ==
  /\ ~crashed /\ EntryOf(a) \notin table
  /\ TakeAck("cmd", a, {})
  /\ UNCHANGED <<driverVars, applied, answered>>

\* UpdateLidarCallback; LivoxLidarInfoChange reports a lidar once.
UpdateAnswered_EveryTime(a) ==
  /\ ~crashed /\ a.cmd = "update" /\ EntryOf(a) \in table
  /\ TakeAck("cmd", a, IF a.ok THEN DriverCmds ELSE {})
  /\ reported' = (reported \/ a.ok)
  /\ setBits' = IF a.ok THEN Settings ELSE setBits
  /\ answered' = answered \cup {"update"}
  /\ UNCHANGED <<sampling, crashed, applied>>

UpdateAnswered(a) ==
  /\ ~crashed /\ a.cmd = "update" /\ EntryOf(a) \in table
  /\ LET first == a.ok /\ ~reported
     IN /\ TakeAck("cmd", a, IF first THEN DriverCmds ELSE {})
        /\ setBits' = IF first THEN Settings ELSE setBits
  /\ reported' = (reported \/ a.ok)
  /\ answered' = answered \cup {"update"}
  /\ UNCHANGED <<sampling, crashed, applied>>

SettingAnswered_AnyBit(a) ==
  /\ ~crashed /\ a.cmd \in Settings /\ EntryOf(a) \in table
  /\ TakeAck("cmd", a, {})
  /\ setBits' = setBits \ {a.cmd}
  /\ sampling' = TRUE
  /\ answered' = answered \cup {a.cmd}
  /\ UNCHANGED <<reported, crashed, applied>>

\* SetDataTypeCallback and its like: any answer clears the setting's bit.
SettingAnswered(a) ==
  /\ ~crashed /\ a.cmd \in Settings /\ EntryOf(a) \in table
  /\ TakeAck("cmd", a, {})
  /\ setBits' = setBits \ {a.cmd}
  /\ sampling' = (sampling \/ setBits' = {})
  /\ answered' = answered \cup {a.cmd}
  /\ UNCHANGED <<reported, crashed, applied>>

\* The attitude, work-mode and IMU callbacks only log a success.
OtherAnswered(a) ==
  /\ ~crashed /\ a.cmd \in Further /\ EntryOf(a) \in table
  /\ TakeAck("cmd", a, {})
  /\ answered' = answered \cup {a.cmd}
  /\ UNCHANGED <<driverVars, applied>>

TimeOut(t) ==
  /\ ~crashed
  /\ \E es \in SUBSET table : Expire(t, es, OnTimeout(es))
  /\ UNCHANGED <<driverVars, applied, answered>>

LidarAnswers(r) ==
  /\ \E ok \in IF MayReject THEN BOOLEAN ELSE {TRUE} :
       /\ Answer(r, ok)
       /\ applied' = IF ok THEN applied \cup {r.cmd} ELSE applied
  /\ UNCHANGED <<driverVars, answered>>

LoseDatagram == Lose /\ UNCHANGED <<driverVars, applied, answered>>

Handle(a) == UpdateAnswered(a) \/ SettingAnswered(a) \/ OtherAnswered(a)

Next ==
  \/ Detect
  \/ \E t \in Threads : Send(t) \/ FailedSend(t) \/ TimeOut(t)
  \/ \E a \in acks : DropAck(a) \/ Handle(a)
  \/ \E r \in requests : LidarAnswers(r)
  \/ LoseDatagram

Spec == Init /\ [][Next]_vars

\* A step of a network and of timers that keep their time: nothing is lost, the
\* configuration is repeated only after its timeout (both one second), no
\* entry expires while its command is being sent or answered, no answer is handled
\* before the entry of its command is made.
Timely ==
  /\ ~LoseDatagram
  /\ Detect => \A e \in table : e.cmd # "update"
  /\ \A e \in table \ table' :
       e \notin requests \cup {EntryOf(a) : a \in acks'} \cup UNION {finish[t] : t \in Threads}
  /\ \A a \in acks \ acks' : \A t \in Threads : EntryOf(a) \notin finish[t]

\* The io threads keep running, timeouts come due, the lidar answers, and from
\* some time on the round trip is shorter than a command's timeout.
Fairness ==
  /\ WF_vars(Detect)
  /\ \A t \in Threads : WF_vars(Send(t))
  /\ WF_vars(\E t \in Threads : TimeOut(t))
  /\ WF_vars(\E a \in acks : DropAck(a) \/ Handle(a))
  /\ \A c \in Cmds : WF_vars(\E r \in requests : r.cmd = c /\ LidarAnswers(r))
  /\ <>[][Timely]_vars

FairSpec == Spec /\ Fairness
-----------------------------------------------------------------------------
(***************************************************************************)
(* Properties.                                                             *)
(***************************************************************************)
\* The SDK's table and the driver's configuration state keep their types, and
\* only the detection thread sends the SDK's configuration.
TypeOK ==
  /\ table \subseteq Entries /\ requests \subseteq Entries
  /\ \A c \in Cmds : Cardinality(InFlight(c)) <= Capacity
  /\ acks \subseteq Answers
  /\ issue \in [Threads -> SUBSET Cmds] /\ finish \in [Threads -> SUBSET Entries]
  /\ \A t \in Threads \ {"detect"} : "update" \notin issue[t]
  /\ reported \in BOOLEAN /\ setBits \subseteq Settings
  /\ sampling \in BOOLEAN /\ crashed \in BOOLEAN
  /\ applied \subseteq Cmds /\ answered \subseteq Cmds

\* However answers, losses and timeouts interleave, the driver never has two
\* copies of one command under way, and none once it is answered.
OneCopy ==
  \A c \in DriverCmds : Copies(c) <= (IF c \in answered THEN 0 ELSE 1)

\* Once a lidar is reported, each setting, the attitude and the work mode is
\* answered or still being tried: no race of an answer with its own table
\* entry or with a timeout loses one.
NothingForgotten ==
  reported => \A c \in DriverCmds \ {"imu"} :
                c \in answered \/ Copies(c) > 0

\* A lidar is drained as sampling only after every setting was accepted.
SamplingMeansApplied == sampling => Settings \subseteq applied

\* "enable Livox Lidar imu timeout, ... try again...": the IMU command too is
\* answered or still being tried.
ImuNotForgotten == reported => "imu" \in answered \/ Copies("imu") > 0

\* The lidar comes up: it is sampling, in its work mode and attitude.
BringUpDone == <>[](sampling /\ DriverCmds \subseteq answered)
=============================================================================
