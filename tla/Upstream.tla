------------------------------ MODULE Upstream ------------------------------
(***************************************************************************)
(* The connection of an agent to its parent: GrpcUpstreamAgentActor        *)
(* (communication/upstream/grpc.rs) between the gRPC streams on one side   *)
(* and the agent core and its notifier (agent/actor.rs,                    *)
(* notifier_actor.rs) on the other.                                        *)
(*                                                                         *)
(* The actor connects when it starts, and again each time the command      *)
(* stream ends; a failure is retried after a pause, for ever.  Commands    *)
(* that come on the stream go to the agent core through a channel that the *)
(* actor makes when its first connection is there; updates of the notifier *)
(* go out on the stream of the connection.                                 *)
(***************************************************************************)
EXTENDS Integers, Sequences, SequencesExt

CONSTANTS
    MaxCommands,    \* bound on the commands the parent sends
    MaxBreaks,      \* bound on how often the parent or the link fails
    MaxAttempt,     \* the attempt number beyond which it is not told apart
    Channel,        \* capacity of the channel to the core (128), a bound
    CoreMayBeFull   \* whether the mailbox of the agent core may be full

ASSUME UpstreamAssumption ==
    /\ {MaxCommands, MaxBreaks, MaxAttempt} \subseteq Nat
    /\ Channel \in Nat \ {0}
    /\ CoreMayBeFull \in BOOLEAN

VARIABLES
    parent,         \* whether the parent accepts connections
    stream,         \* the command stream the actor reads
    wire,           \* commands on their way on the stream
    request,        \* for each requester of a connection, how far it is
    attempt,        \* the attempt number of its EstablishConnection
    connection,     \* where the actor's UpstreamConnection sends commands
    registered,     \* whether the core and the notifier know the actor
    channel,        \* commands in the channel to the core
    handled,        \* history: the commands the core received, in order
    sent,           \* how many commands the parent sent, to number them
    breaks,         \* how many failures there were, to bound them
    joins,          \* history: how many connections were made
    reported        \* history: the parent got an update on this connection

vars == <<parent, stream, wire, request, attempt, connection, registered,
          channel, handled, sent, breaks, joins, reported>>

(* EstablishConnection is sent by `started' and by `finished'. *)
Requesters == {"started", "finished"}

Phases == {"none", "connecting", "joining", "pause", "answered"}

Trying(r) == request[r] \in {"connecting", "joining", "pause"}

Init ==
    /\ parent \in {"up", "down"}
    /\ stream = "none"
    /\ wire = <<>>
    /\ request = [r \in Requesters |-> IF r = "started" THEN "connecting" ELSE "none"]
    /\ attempt = [r \in Requesters |-> 0]
    /\ connection = "None"
    /\ registered = FALSE
    /\ channel = <<>>
    /\ handled = <<>>
    /\ sent = 0 /\ breaks = 0 /\ joins = 0
    /\ reported = FALSE

-----------------------------------------------------------------------------
(* The parent and the network. *)

(* A failure loses some of the last commands on the way and ends the stream. *)
StreamBreaks ==
    /\ breaks < MaxBreaks
    /\ breaks' = breaks + 1
    /\ \/ stream = "open" /\ stream' = "ended"
          /\ \E arrived \in 0 .. Len(wire) : wire' = SubSeq(wire, 1, arrived)
       \/ stream # "open" /\ UNCHANGED <<stream, wire>>

ParentGoesDown ==
    /\ parent = "up"
    /\ parent' = "down"
    /\ StreamBreaks
    /\ UNCHANGED <<request, attempt, connection, registered, channel, handled, sent, joins, reported>>

LinkBreaks ==
    /\ stream = "open"
    /\ StreamBreaks
    /\ UNCHANGED <<parent, request, attempt, connection, registered, channel, handled, sent, joins, reported>>

ParentComesUp ==
    /\ parent = "down"
    /\ parent' = "up"
    /\ UNCHANGED <<stream, wire, request, attempt, connection, registered, channel, handled, sent, breaks, joins, reported>>

ParentSends ==
    /\ stream = "open"
    /\ sent < MaxCommands
    /\ sent' = sent + 1
    /\ wire' = Append(wire, sent')
    /\ UNCHANGED <<parent, stream, request, attempt, connection, registered, channel, handled, breaks, joins, reported>>

-----------------------------------------------------------------------------
(* The handler of EstablishConnection. *)

Goes(r, phase) == request' = [request EXCEPT ![r] = phase]

(* HailstormServiceClient::connect succeeds. *)
Connect(r) ==
    /\ request[r] = "connecting"
    /\ parent = "up"
    /\ Goes(r, "joining")
    /\ UNCHANGED <<parent, stream, wire, attempt, connection, registered, channel, handled, sent, breaks, joins, reported>>

(***************************************************************************)
(* join succeeds: a connection whose command sender has no receiver takes  *)
(* the place of the former one, whose senders are dropped with it, and the *)
(* command stream is attached.  `started' gets its answer; `finished' only *)
(* logs it.  (The future of `started' is polled before a second join, a    *)
(* round trip later, can be answered.)                                     *)
(***************************************************************************)
Join(r) ==
    /\ request[r] = "joining"
    /\ parent = "up"
    /\ r = "finished" => request["started"] # "answered"
    /\ connection' = "dummy"
    /\ stream' = "open"
    /\ wire' = <<>>
    /\ joins' = IF joins < 2 THEN joins + 1 ELSE joins
    /\ reported' = FALSE
    /\ Goes(r, IF r = "started" THEN "answered" ELSE "none")
    /\ attempt' = [attempt EXCEPT ![r] = 0]
    /\ UNCHANGED <<parent, registered, channel, handled, sent, breaks>>

(* A failed connection gives the actor up, as an answer with an error would. *)
FailAndForget(r) ==
    /\ request[r] \in {"connecting", "joining"}
    /\ parent = "down"
    /\ Goes(r, "none")
    /\ UNCHANGED <<parent, stream, wire, attempt, connection, registered, channel, handled, sent, breaks, joins, reported>>

(* connect or join fails: the handler sleeps before it tries again. *)
Fail(r) ==
    /\ request[r] \in {"connecting", "joining"}
    /\ parent = "down"
    /\ Goes(r, "pause")
    /\ UNCHANGED <<parent, stream, wire, attempt, connection, registered, channel, handled, sent, breaks, joins, reported>>

(* The pause of truncated_exponential_backoff is over. *)
TryAgain(r) ==
    /\ request[r] = "pause"
    /\ Goes(r, "connecting")
    /\ attempt' = [attempt EXCEPT ![r] = IF @ < MaxAttempt THEN @ + 1 ELSE @]
    /\ UNCHANGED <<parent, stream, wire, connection, registered, channel, handled, sent, breaks, joins, reported>>

(***************************************************************************)
(* The continuation of `started': the connection gets a channel, whose     *)
(* other end goes to the core, which adds the actor to the notifier's      *)
(* clients.  With the core's mailbox full, try_send fails and the channel  *)
(* has no reader.                                                          *)
(***************************************************************************)
RegisterAtCore ==
    /\ request["started"] = "answered"
    /\ Goes("started", "none")
    /\ connection' = "core"
    /\ registered' \in (IF CoreMayBeFull THEN BOOLEAN ELSE {TRUE})
    /\ UNCHANGED <<parent, stream, wire, attempt, channel, handled, sent, breaks, joins, reported>>

(* A stream that broke while `started' waits is connected for a second time. *)
FinishedTwice ==
    /\ stream = "ended"
    /\ wire = <<>>
    /\ Goes("finished", "connecting")
    /\ attempt' = [attempt EXCEPT !["finished"] = 0]
    /\ UNCHANGED <<parent, stream, wire, connection, registered, channel, handled, sent, breaks, joins, reported>>

(* StreamHandler::finished, once the commands that arrived are handled. *)
Finished ==
    /\ stream = "ended"
    /\ wire = <<>>
    /\ stream' = "none"
    /\ Goes("finished", "connecting")
    /\ attempt' = [attempt EXCEPT !["finished"] = 0]
    /\ UNCHANGED <<parent, wire, connection, registered, channel, handled, sent, breaks, joins, reported>>

-----------------------------------------------------------------------------
(* Commands and updates. *)

(* The command leaves the stream only when the core has taken it. *)
ForwardKeeping ==
    /\ wire # <<>>
    /\ IF connection = "core" /\ registered /\ Len(channel) < Channel
       THEN channel' = Append(channel, Head(wire))
       ELSE channel' = channel
    /\ \/ wire' = Tail(wire)
       \/ wire' = wire /\ channel' # channel
    /\ UNCHANGED <<parent, stream, request, attempt, connection, registered, handled, sent, breaks, joins, reported>>

(* The command is put into the channel, however many there are. *)
ForwardUnbounded ==
    /\ wire # <<>>
    /\ wire' = Tail(wire)
    /\ channel' = IF connection = "core" /\ registered
                  THEN Append(channel, Head(wire)) ELSE channel
    /\ UNCHANGED <<parent, stream, request, attempt, connection, registered, handled, sent, breaks, joins, reported>>

(* The channel's last place stays free. *)
ForwardWithRoomToSpare ==
    /\ wire # <<>>
    /\ wire' = Tail(wire)
    /\ channel' = IF connection = "core" /\ registered /\ Len(channel) + 1 < Channel
                  THEN Append(channel, Head(wire)) ELSE channel
    /\ UNCHANGED <<parent, stream, request, attempt, connection, registered, handled, sent, breaks, joins, reported>>

(***************************************************************************)
(* StreamHandler::handle: try_send of the command to the connection's      *)
(* channel.  It fails, and the command is lost, when the channel has no    *)
(* reader or is full.                                                      *)
(***************************************************************************)
ForwardCommand ==
    /\ wire # <<>>
    /\ wire' = Tail(wire)
    /\ channel' = IF connection = "core" /\ registered /\ Len(channel) < Channel
                  THEN Append(channel, Head(wire)) ELSE channel
    /\ UNCHANGED <<parent, stream, request, attempt, connection, registered, handled, sent, breaks, joins, reported>>

(* The agent core handles a ConnectedClientMessage. *)
CoreHandles ==
    /\ channel # <<>>
    /\ channel' = Tail(channel)
    /\ handled' = Append(handled, Head(channel))
    /\ UNCHANGED <<parent, stream, wire, request, attempt, connection, registered, sent, breaks, joins, reported>>

(* An update goes out on the stream of the first connection only. *)
SendUpdateOnFirstStream ==
    /\ registered
    /\ joins = 1
    /\ stream = "open"
    /\ ~reported
    /\ reported' = TRUE
    /\ UNCHANGED <<parent, stream, wire, request, attempt, connection, registered, channel, handled, sent, breaks, joins>>

(***************************************************************************)
(* The notifier's round: SendAgentMessage to the actor, which sends it on  *)
(* the connection it has, open or not.                                     *)
(***************************************************************************)
SendUpdate ==
    /\ registered
    /\ connection # "None"
    /\ stream = "open"
    /\ ~reported
    /\ reported' = TRUE
    /\ UNCHANGED <<parent, stream, wire, request, attempt, connection, registered, channel, handled, sent, breaks, joins>>

-----------------------------------------------------------------------------
Next ==
    \/ ParentGoesDown \/ LinkBreaks \/ ParentComesUp \/ ParentSends
    \/ \E r \in Requesters : Connect(r) \/ Join(r) \/ Fail(r) \/ TryAgain(r)
    \/ RegisterAtCore \/ Finished
    \/ ForwardCommand \/ CoreHandles \/ SendUpdate

Spec == Init /\ [][Next]_vars

(***************************************************************************)
(* The futures of the actor are polled, pauses end (300 s at most), an     *)
(* attempt succeeds or fails, and the timer of the notifier fires.         *)
(***************************************************************************)
Fairness ==
    /\ \A r \in Requesters :
          /\ WF_vars(Connect(r) \/ Fail(r))
          /\ WF_vars(Join(r))
          /\ WF_vars(TryAgain(r))
    /\ WF_vars(RegisterAtCore)
    /\ WF_vars(Finished)
    /\ WF_vars(ForwardCommand)
    /\ WF_vars(CoreHandles)
    /\ WF_vars(SendUpdate)

FairSpec == Spec /\ Fairness

-----------------------------------------------------------------------------
(* Phases, channels and histories have their types. *)
TypeOK ==
    /\ parent \in {"up", "down"}
    /\ stream \in {"none", "open", "ended"}
    /\ wire \in Seq(1 .. MaxCommands)
    /\ request \in [Requesters -> Phases]
    /\ attempt \in [Requesters -> 0 .. MaxAttempt]
    /\ connection \in {"None", "dummy", "core"}
    /\ registered \in BOOLEAN
    /\ channel \in Seq(1 .. MaxCommands)
    /\ Len(channel) <= Channel
    /\ handled \in Seq(1 .. MaxCommands)
    /\ sent \in 0 .. MaxCommands
    /\ breaks \in 0 .. MaxBreaks
    /\ joins \in 0 .. 2
    /\ reported \in BOOLEAN

(***************************************************************************)
(* The actor reads one stream or makes one connection, whatever the order  *)
(* of failures, answers and ends of streams: it never has two streams, or  *)
(* a stream and an attempt that would replace it.                          *)
(***************************************************************************)
OneConnectionAtATime ==
    /\ ~ (Trying("started") /\ Trying("finished"))
    /\ stream # "none" => ~Trying("started") /\ ~Trying("finished")

(***************************************************************************)
(* To the core, all of this is one stream of commands, of which some may   *)
(* be lost, but none is reordered, repeated or taken back: a break drops   *)
(* those on the wire, a connection that was made again or a full channel   *)
(* those that come.                                                        *)
(***************************************************************************)
Stream == INSTANCE CommandStream
ImplementsCommandStream == Stream!Spec

(***************************************************************************)
(* Once failures stop, the actor is connected and stays so: it never has   *)
(* no stream without trying for one, with an answer or the end of a stream *)
(* to come.                                                                *)
(***************************************************************************)
ComesBack == <>[](parent = "up") => <>[](stream = "open")

(***************************************************************************)
(* Once the notifier knows the actor, the parent hears from the agent on   *)
(* every connection that lasts, those made after a failure too.            *)
(***************************************************************************)
UpdatesFlow == <>[](stream = "open" /\ registered) => <>[]reported

(* The core reads the channel of the connection. *)
Forwards == connection = "core" /\ registered

(***************************************************************************)
(* Commands are lost by a break, or because the channel is full: one that  *)
(* finds room behind all that come before it, in the channel and on the    *)
(* wire, reaches the core, however fast others follow, unless the stream   *)
(* ends.                                                                   *)
(***************************************************************************)
CommandsArrive ==
    \A n \in 1 .. MaxCommands :
        (Forwards /\ \E i \in DOMAIN wire : wire[i] = n /\ Len(channel) + i <= Channel)
        ~> (Contains(handled, n) \/ stream # "open")

(***************************************************************************)
(* UpstreamAgentActor (upstream/contract.rs): implementors establish and   *)
(* maintain a connection, `forwarding commands downstream'.  A connection  *)
(* that lasts comes to forward commands to the core.                       *)
(***************************************************************************)
ConnectionForwards == <>[](stream = "open") => <>[]Forwards
=============================================================================
