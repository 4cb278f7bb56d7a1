-------------------------------- MODULE Mqtt --------------------------------
(* PubSubClient: its session and timers, the packets that it writes and    *)
(* the packets that it reads, each by itself.                              *)
EXTENDS PubSubClient, Integers

CONSTANTS
  Base, Word, TopicLen, Plength, Size, writer_MaxCalls,
  BufferSize, Topic, Payload, MaxPackets

VARIABLES
  part,  \* the component that runs: it is chosen at the start
  bufferSize, wire, accepted, left, torn, abused, over, calls,
  hasStream, coming, available, sent, rd, packet, took, stream, ret, stalled

W == INSTANCE MqttWriter WITH MaxCalls <- writer_MaxCalls
R == INSTANCE MqttReader

ASSUME MqttAssumption == W!ConstantsOK /\ R!ConstantsOK

writerVars == <<
  bufferSize, wire, accepted, left, torn, abused, over, calls>>
readerVars == <<
  hasStream, coming, available, sent, rd, packet, took, stream, ret, stalled>>

Part == {"session", "writer", "reader"}
allVars == <<part, vars, writerVars, readerVars>>

PartsInit ==
  /\ part \in Part
  /\ Init /\ W!Init /\ R!Init
  /\ part # "writer" => bufferSize = CHOOSE n \in Size : n # 0
  /\ part # "reader" => hasStream

\* One component moves, with its own steps; the others rest.
PartsNext ==
  \/ part = "session" /\ Next /\ UNCHANGED <<part, writerVars, readerVars>>
  \/ part = "writer" /\ W!Next /\ UNCHANGED <<part, vars, readerVars>>
  \/ part = "reader" /\ R!Next /\ UNCHANGED <<part, vars, writerVars>>

PartsSpec ==
  /\ PartsInit /\ [][PartsNext]_allVars
  /\ WF_vars(part = "session" /\ Tick)
  /\ WF_vars(part = "session" /\ (connectTimeout \/ connectAccepted \/ connectRefused))

\* The broker finds exactly the packets that publish(), subscribe() and the
\* streaming calls reported as sent, unless the client took a part of one, the
\* sketch streamed other than it announced, or a length needs more than an
\* uint16_t.  publish() and unsubscribe() put none together past the buffer;
\* subscribe(), publish_P() and beginPublish() may (SubscribeFits).
WholePackets == part = "writer" => W!WholePackets /\ W!BufferHolds

\* readPacket() begins where the broker began a packet, and has the whole of it
\* when it returns, its payload and no more in the Stream.
PacketIsWhole == part = "reader" => R!StaysAligned /\ R!PacketIsWhole
=============================================================================
