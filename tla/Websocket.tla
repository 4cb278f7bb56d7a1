----------------------------- MODULE Websocket -----------------------------
(* HttpClient and WebSocketClient of the Websocket library, each by        *)
(* itself: the frames start where the upgrade has ended.                   *)
EXTENDS WsHttpClient

CONSTANTS
  Frame, TxBufferSize, TxSizeWidth, WriteSize, MaxFrames, MaxMessages

VARIABLES
  part,  \* the component that runs: it is chosen at the start
  up, ws_conn, ws_rx, ws_wire, iTxStarted, iTxType, txBuf, iRxOp, iRxFinal,
  iRxSize, iRxMasked, iRxMaskIndex, fragment, ws_pc, payload, accepted, sent,
  decoded, overrun, frames, messages, ws_excuse

W == INSTANCE WebSocketClient WITH
  conn <- ws_conn, rx <- ws_rx, wire <- ws_wire, pc <- ws_pc,
  excuse <- ws_excuse

ASSUME WebsocketAssumption == W!ConstantsOK

wsVars == <<
  up, ws_conn, ws_rx, ws_wire, iTxStarted, iTxType, txBuf, iRxOp, iRxFinal,
  iRxSize, iRxMasked, iRxMaskIndex, fragment, ws_pc, payload, accepted, sent,
  decoded, overrun, frames, messages, ws_excuse>>

Part == {"http", "ws"}
allVars == <<part, vars, wsVars>>

PartsInit ==
  /\ part \in Part
  /\ Init /\ W!Init

\* One component moves, with its own steps; the others rest.
PartsNext ==
  \/ part = "http" /\ Next /\ UNCHANGED <<part, wsVars>>
  \/ part = "ws" /\ W!Next /\ UNCHANGED <<part, vars>>

PartsSpec ==
  /\ PartsInit /\ [][PartsNext]_allVars
  /\ WF_vars(part = "http" /\ Step)

\* The status and the body that HttpClient returns are the server's answer to
\* the last request, and the body all of it if its length was announced.
AnswerIsServers == StatusIsOwn /\ BodyIsServers

\* WebSocketClient starts each parseMessage() on the header of a frame,
\* unmasks each byte with its own byte of the key, sends messages and pongs that
\* hold what they should and keeps the type of a message over its fragments,
\* unless the stream was lost (a torn header, a read() past the frame, a begin()
\* on an open connection) or a control frame came between two fragments.
FramesIntact == part = "ws" => W!FramesIntact
============================================================================
