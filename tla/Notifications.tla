---------------------------- MODULE Notifications ----------------------------
(***************************************************************************)
(* The notification manager (infrastructure/alerting/notifications.go):    *)
(* channels that are added and removed while callers send through them,    *)
(* with retries.  A channel is looked up once, under the lock, and used    *)
(* for all attempts after the lock is released.                            *)
(*                                                                         *)
(* What an attempt does depends on the kind of channel: mail and HTTP may  *)
(* fail, also after the notification has arrived (the QUIT of the mail, a  *)
(* timeout, a status of 400 and above); the console never fails.           *)
(***************************************************************************)
EXTENDS Naturals, Sequences, SequencesExt

CONSTANTS
  Channels,       \* channel names
  Callers,        \* goroutines that send
  Absent,         \* no channel, no result
  RetryAttempts,  \* config.RetryAttempts
  MaxChanges      \* bound: channels added or removed while callers send

Kinds == {"email", "webhook", "slack", "console"}
NotFound == "channel not found"
GaveUp == "failed after all attempts"

VARIABLES
  channels,   \* m.channels
  send,       \* per caller, its call of SendToAll or Send
  changes

vars == <<channels, send, changes>>

\* A channel as its Config makes it; mail without a recipient indexes an
\* empty slice (formatting the To header).
Made == {c \in [kind : Kinds, enabled : BOOLEAN, addressed : BOOLEAN] : c.addressed \/ c.kind = "email"}
Idle == [at |-> "idle", names |-> << >>, channel |-> Absent, attempt |-> 0, delivered |-> 0, results |-> << >>]

Init ==
  /\ channels \in [Channels -> {Absent} \cup Made]
  /\ send = [c \in Callers |-> Idle]
  /\ changes = 0

-----------------------------------------------------------------------------
\* The channel a ChannelConfig describes, Absent when none can be made: its
\* type is unknown, or its Config cannot be decoded, which only the console
\* forgives.  Whether the channel is enabled is what Config says: the Enabled
\* of the ChannelConfig itself is not looked at.
Built(kind, decodes, made) ==
  IF kind \notin Kinds THEN Absent
  ELSE IF decodes THEN made
  ELSE IF kind = "console" THEN [kind |-> kind, enabled |-> TRUE, addressed |-> TRUE]
  ELSE Absent

\* AddChannelFromConfig and AddChannel: an error for a channel that could not
\* be made and for a name that is taken.
AddChannelFromConfig(name, decodes, made) ==
  LET channel == Built(made.kind, decodes, made)
  IN  /\ changes < MaxChanges
      /\ channels[name] = Absent /\ channel # Absent
      /\ channels' = [channels EXCEPT ![name] = channel]
      /\ changes' = changes + 1
      /\ UNCHANGED send

RemoveChannel(name) ==
  /\ changes < MaxChanges
  /\ channels[name] # Absent
  /\ channels' = [channels EXCEPT ![name] = Absent]
  /\ changes' = changes + 1
  /\ UNCHANGED send

-----------------------------------------------------------------------------
\* Send names one channel, as sendNotification of the alerting engine does.
Send(c, name) ==
  /\ send[c] = Idle
  /\ send' = [send EXCEPT ![c] = [Idle EXCEPT !.at = "lookup", !.names = <<name>>]]
  /\ UNCHANGED <<channels, changes>>

\* SendToAll copies the names, in the order of a map, under the lock.
SendToAll(c) ==
  /\ send[c] = Idle
  /\ \E order \in SetToSeqs({n \in Channels : channels[n] # Absent}) :
       send' = [send EXCEPT ![c] = [Idle EXCEPT !.at = "lookup", !.names = order]]
  /\ UNCHANGED <<channels, changes>>

Result(name, of, error, delivered) == [name |-> name, channel |-> of, error |-> error, delivered |-> delivered]

\* The call for the channel in turn is over, and the next one's begins.
Answered(c, of, error, delivered) ==
  send' = [send EXCEPT ![c] = [Idle EXCEPT
             !.at = "lookup", !.names = Tail(send[c].names),
             !.results = Append(send[c].results, Result(Head(send[c].names), of, error, delivered))]]

Lookup(c) ==
  /\ send[c].at = "lookup" /\ send[c].names # << >>
  /\ LET found == channels[Head(send[c].names)]
     IN  IF found = Absent THEN Answered(c, Absent, NotFound, 0)
         ELSE IF ~found.enabled THEN Answered(c, found, Absent, 0)
         ELSE IF RetryAttempts = 0 THEN Answered(c, found, GaveUp, 0)
         ELSE send' = [send EXCEPT ![c].at = "attempt", ![c].channel = found]
  /\ UNCHANGED <<channels, changes>>

\* How an attempt may end: whether it returned an error, and whether the
\* notification arrived.
Endings(channel) ==
  {[failed |-> FALSE, arrived |-> TRUE]}
    \cup (IF channel.kind = "console" THEN {} ELSE [failed : {TRUE}, arrived : BOOLEAN])

Panics(channel) == channel.kind = "email" /\ ~channel.addressed

\* A retry loop that takes the last attempt for a success.
AttemptForgiving(c) ==
  /\ send[c].at = "attempt" /\ ~Panics(send[c].channel)
  /\ \E e \in Endings(send[c].channel) :
       LET delivered == send[c].delivered + (IF e.arrived THEN 1 ELSE 0)
       IN  IF ~e.failed \/ send[c].attempt + 1 = RetryAttempts
           THEN Answered(c, send[c].channel, Absent, delivered)
           ELSE send' = [send EXCEPT ![c].attempt = @ + 1, ![c].delivered = delivered]
  /\ UNCHANGED <<channels, changes>>

\* One turn of the retry loop: the first success ends it, and so does the
\* last attempt.
Attempt(c) ==
  /\ send[c].at = "attempt" /\ ~Panics(send[c].channel)
  /\ \E e \in Endings(send[c].channel) :
       LET delivered == send[c].delivered + (IF e.arrived THEN 1 ELSE 0)
       IN  IF ~e.failed THEN Answered(c, send[c].channel, Absent, delivered)
           ELSE IF send[c].attempt + 1 = RetryAttempts THEN Answered(c, send[c].channel, GaveUp, delivered)
           ELSE send' = [send EXCEPT ![c].attempt = @ + 1, ![c].delivered = delivered]
  /\ UNCHANGED <<channels, changes>>

\* A panic ends the process, whatever else it was doing.
AttemptPanics(c) ==
  /\ send[c].at = "attempt" /\ Panics(send[c].channel)
  /\ send' = [x \in Callers |-> [Idle EXCEPT !.at = "panicked"]]
  /\ UNCHANGED <<channels, changes>>

Return(c) ==
  /\ send[c].at = "lookup" /\ send[c].names = << >>
  /\ send' = [send EXCEPT ![c].at = "returned"]
  /\ UNCHANGED <<channels, changes>>

Next ==
  \/ \E n \in Channels : RemoveChannel(n)
  \/ \E n \in Channels, decodes \in BOOLEAN, made \in Made : AddChannelFromConfig(n, decodes, made)
  \/ \E c \in Callers :
       \/ SendToAll(c) \/ Lookup(c) \/ Attempt(c) \/ AttemptPanics(c) \/ Return(c)
       \/ \E n \in Channels : Send(c, n)

Spec == Init /\ [][Next]_vars

-----------------------------------------------------------------------------
\* What a call answers of a channel is true of it: without an error the
\* notification arrived, or the channel was disabled; with one it may have
\* arrived, at most once for each attempt; and a channel is reported missing
\* only if it was missing when its turn came, whatever was removed meanwhile.
SendsAreTrue ==
  \A c \in Callers : \A i \in DOMAIN send[c].results :
    LET r == send[c].results[i]
    IN  /\ r.error = Absent => r.channel # Absent /\ (r.channel.enabled => r.delivered >= 1)
        /\ r.error = NotFound <=> r.channel = Absent
        /\ r.delivered <= RetryAttempts
        /\ r.channel # Absent /\ r.channel.kind = "console" /\ RetryAttempts > 0 => r.error = Absent
        /\ \A j \in DOMAIN send[c].results : i # j => send[c].results[j].name # r.name
=============================================================================
