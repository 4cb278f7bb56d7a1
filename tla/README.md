# Verification of arduino-beken

arduino-beken is the Arduino core and library set for Beken Wi-Fi/BLE chips. A
*sketch* (`setup()`, `loop()`) runs in one RTOS task, the *loop task*; the
library code it calls shares state with interrupt handlers, with the RTOS timer
task, with service threads, with the SDK's event and BLE tasks and with peers on
the network. This directory holds TLA+ models of the parts of the repository in
which that sharing, a failure half way, or a boundary in the handling of text
and packets decides whether the code is right; TLC configurations that check
them; and proofs that TLAPS checks.

The vendored SDK under `dist/sdk`, the FreeRTOS wrappers, lwIP and mbedTLS are
not modelled as such. Where the code of the repository calls them, the model has
the effect that the caller relies on, and `PROJECT.json` marks the definition as
external.

## 1. Inventory

Paths are relative to `src/`; `core` is `components/arduino-beken-core`, `api`
is `core/include/api`.

| Component | State it keeps | Operations | Second actor | What is hard | Module |
|---|---|---|---|---|---|
| HardwareSerial receive path, RingBufferN (`core/src/HardwareSerial.cpp`, `api/RingBuffer.h`) | ring `_aucBuffer`, `_iHead`, `_iTail`, `_numElems`; `m_started`; table `s_serialByUart` | `begin`, `end`, `available`, `read`, `peek`, `write` | UART RX interrupt | unlocked read-modify-write of the count, `clear()` under fire, order in `end()` | SerialRx, BoundedFifo |
| Ticker (`core/src/Ticker.cpp`) | `m_callback`, `m_repeat`, `m_active`, RTOS timer | `attach(_ms)`, `once_ms`, `detach`, `active` | RTOS timer task | the thunk between two statements of a call; a callback that calls the Ticker again | Ticker |
| HardwareTimer (`core/src/HardwareTimer.cpp`) | table `g_hardware_timers`, `m_initialized`, `m_running` | `begin`, `attachInterrupt`, `start`, `stop`, destructor | timer interrupt | dead or replaced object in the table | HardwareTimer |
| GPIO interrupts (`core/src/wiring_digital.cpp`) | callback slot, armed edge, pull | `pinMode`, `attachInterrupt(Param)`, `detachInterrupt` | GPIO interrupt | slot written field by field, edge toggling of CHANGE | Gpio |
| Wire (`core/src/Wire.cpp`) | buffers, slave thread, event queue | master transfers, `onReceive`, `onRequest`, `begin`, `end` | slave thread | pairing events with transfers, `end()` against the thread | Wire |
| Wi-Fi mode, station, soft AP (`libraries/WiFi/src/WiFiGeneric.cpp`, `WiFiSTA.cpp`, `WiFiAP.cpp`) | `_mode`, `_useStaticIp`, registration flags, `s_apIpConfigured` | `mode`, `begin`, `reconnect`, `disconnect`, `config`, `softAP`, `softAPConfig`, `softAPdisconnect` | SDK event task | events handled late, SDK state that is cleared behind the library's back, `_mode` as a cache | WiFiStation |
| Wi-Fi scan (`WiFiScan.cpp`) | semaphore, `_aps`, `_ap_num` | `scanNetworks`, `scanDelete`, SCAN_DONE handler | SDK event task | timeout against a late SCAN_DONE | WiFiScan |
| WiFiMulti (`WiFiMulti.cpp`) | list of networks | `addAP`, `run` | driver | choice, `int8_t` counter, wait | WiFiMulti |
| BLE (`libraries/BLE/src`) | attribute registry, bindings, flags set by callbacks, values | `addService`, `advertise`, `stopAdvertise`, `writeValue`, callbacks | BLE task, peer | completions that come late or never, two host stacks | Ble |
| WiFiUDP (`WiFiUdp.cpp`) | socket, tx and rx buffer, one remote address, group | `begin`, `beginMulticast`, `stop`, `beginPacket`, `write`, `endPacket`, `parsePacket`, `read`, `flush` | network | every call may fail half way; two packets share the object | WiFiUdp |
| WiFiClient, WiFiServer (`WiFiClient.cpp`, `WiFiServer.cpp`) | descriptors, `_connected`, `_listening` | `connect`, `stop`, `write`, `read`, `available`; `begin`, `hasClient`, `available`, `end` | lwIP, peer | descriptor reuse, leaks, blocking calls, close and reset | WiFiSockets, WiFiStream |
| WiFiClientSecure (`libraries/WiFiClientSecure/src`) | socket, TLS contexts, peeked byte, certificate bundle | `connect`, `stop`, `read`, `peek`, `available`, `write`, assignment | lwIP, mbedTLS, peer | failure at every point of `connect()`, numbers used again | WiFiClientSecure |
| PubSubClient (`libraries/PubSubClient/src`) | `_state`, activity times, `pingOutstanding`, `nextMsgId`, shared buffer | `connect`, `loop`, `publish`, `beginPublish`, `write`, `subscribe`, `unsubscribe`, `disconnect`, `setBufferSize` | broker | keepalive timing, callback inside `loop()`, id wrap; the header built backwards, packets longer than the buffer | PubSubClient, MqttWriter, MqttReader |
| HTTPClient (`libraries/HTTPClient/src`) | `_client`, `_tcpDeprecated`, host and port, `_reuse`, `_canReuse`, `_size`, `_transferEncoding`, `_location`; cookie jar | `begin`, `end`, `sendRequest`, `writeToStream`; `setCookie`, `generateCookieString` | server | a connection that outlives a request, redirects, two APIs over one pointer, bodies cut short; cookies that run out | HTTPClient, CookieJar |
| Websocket (`libraries/Websocket/src`) | `iState`, header flags, chunk and body counters; frame, mask, transmit buffer | `startRequest`, `responseStatusCode`, `skipResponseHeaders`, `read`; `begin`, `beginMessage`, `ping`, `parseMessage`, `read` | server | stalls half way, reconnection in the middle of a frame | WsHttpClient, WebSocketClient |
| DNSServer (`libraries/DNSServer/src`) | domain, error code, TTL | `start`, `stop`, `processNextRequest` | clients | what is answered to whom; packets left in the UDP buffer | DNSServer |
| String (`api/String.cpp`) | buffer, capacity, length | construction, assignment, `concat`, comparison, search, `substring`, `replace`, `remove`, case, `trim` | heap | offsets at the ends, self-assignment, failed allocation | ArduinoString |
| Stream (`api/Stream.cpp`) | nothing between calls | `find`, `findUntil`, `parseInt`, `parseFloat`, `readBytes(Until)`, `readString(Until)` | device | no byte can be put back | Stream |
| IPAddress (`api/IPAddress.cpp`) | type, 16 bytes | `fromString`, `toString`, `printTo`, index, assignment | none | `::` anywhere, empty fields, failed parses | IPAddress |
| Print (`api/Print.cpp`) | nothing | integers in any base | device | widths, the smallest number, 64 bits by 16-bit arithmetic | PrintNumbers |
| SPI, PWM, ADC; base64; URL parser; SDK, build files | | | none | | not modelled |

How they interact: PubSubClient, HTTPClient and WebSocketClient drive a
`Client`, which is WiFiClient or WiFiClientSecure; WiFiServer hands out
WiFiClients; WiFiMulti calls the scan and the station; the station, the scan and
`onEvent()` register callbacks with the same SDK event loop; DNSServer reads
from a WiFiUDP; `Stream::timedRead()` polls `WiFiClient::read()`; WebSocketClient
derives from the Websocket library's HttpClient.

For each component, what makes it correct:

- *Serial*: bytes come out in the order in which they came in; `available()`
  promises nothing that is not there; a full ring loses new bytes, not old ones.
- *Ticker, HardwareTimer, GPIO*: a one-shot fires once; only live objects are
  called; a callback gets its own parameter; no timer runs that the sketch cannot
  stop; the edge that comes next is the one waited for.
- *Wire*: a slave gets the master's messages with their lengths; `end()` returns
  and nothing uses the queue after it.
- *Station*: what runs can be stopped; a static address stays static.
- *Scan, Multi*: results are those of the call; the strongest network is joined;
  the calls return.
- *BLE*: what the library believes is what the stack does; the calls return.
- *UDP*: nothing leaks on any failure; packets are whole and go where they were
  meant to.
- *Client, Server, TLS*: one holder per descriptor, no leak, nobody else's socket
  closed; no byte lost or out of order; no call hangs; a close is noticed.
- *MQTT*: a dead broker is noticed in time, a live one never given up; PUBACKs
  carry the right id; what is written is what was reported, what is read is what
  the broker sent.
- *HTTP, Websocket*: a request goes to its own site and gets its own response; a
  body reported as complete is complete; frames stay aligned; cookies are current.
- *DNS, text*: results equal a reference definition, for every small input.

## 2. Modules and the code

Every action is named after the function it models, or after the function and
the place in it where another actor may step in. `PROJECT.json` maps each
definition to its lines. Definitions marked `mutant:` are wrong on purpose: each
is what a plausible slip would have made of the definition that follows it, and
is there to show that a property notices.

### Board core

**SerialRx.** The task's position `pc` splits `read_char()`, `peek()`,
`begin()` and `end()` at the memory accesses the handler can tell apart:
`_numElems--` is `ReadLoad` and `ReadStore`, `clear()` is three stores. The
handler (`RxIsr`) stores one byte and is never interrupted. `IsrPreempts` says
whether it may run inside a call. `stored` and `taken` are history.
`BoundedFifo` is the abstract specification: put, get, look, reset.

**Ticker.** `start()` and `detach()` statement by statement (`user`), the thunk
in three steps (`Fire`, the callback, `ThunkReturn`). What the callback does to
its own Ticker is part of it (`Script`). The timer task has the higher priority:
unless the callback blocks it is not interrupted by the sketch.

**HardwareTimer.** `TimerId` gives each object its timer; two may share one.
`start()`, `stop()` and the destructor are split where the driver is called, and
the interrupt runs the thunk between any two statements. `excuse` collects the
timers that two objects have begun, for which nothing is promised.

**Gpio.** `attachInterrupt()` and its kin store by store (`pc`, with the local
copies of mode and type in `arg`), the handler (`ipc`) at any point while the interrupt is enabled, an input whose edges raise
the flag of the armed kind.

**Wire.** The loop task in `begin()` and `end()`, the slave thread in its loop
(`tpc`): wait for a transfer, pop an event, call back. A message is its length.
`left` and `due` say what the master has sent and what the sketch is owed.

### Radio

**WiFiStation.** `_mode` is the set of interfaces whose bit is set. Calls are
split at the SDK calls they make. The SDK posts events to a queue; the event
task gives each first to the SDK's netif callback (which sets the address and
clears the static-IP flag on a disconnect) and then to
`wifiGenericWifiEventCb()`, which arms the flag again.

**WiFiScan.** The loop task's position in `scanNetworks()`, a binary semaphore,
a driver that completes, fails, or is stopped by the timeout with or without a
SCAN_DONE. Scans are numbered so that results can be told apart.

**WiFiMulti.** `run()` with its scan loop step by step and the counter's wrap
(`IntMax` is 127 in the code).

**Ble.** `advertise()` as its commands, each with a completion, a refusal or a
timeout; `stopAdvertise()`; the restart after a disconnect. The registry builds
the attribute table of the services once and hands it to one of two stacks
(`ethermind`), which number the attributes their own way; peers subscribe, write
and read.

### Network

**WiFiUdp.** A packet is its length. `heap`, `sockets` and `joined` count what
the object has taken from the system; `lost` and `crossed` are history, and name
the exceptions that the properties make.

**WiFiSockets.** Which object holds which entry of lwIP's table, over
construction, `connect()`, `stop()`, destruction, `begin()`, `hasClient()`,
`available()` and `end()`, with every failure. **WiFiStream.** One connection:
the retry loop of `write()`, `read()`, `available()`, and
`Stream::timedRead()` above them.

**WiFiClientSecure.** `connect()` as socket, configuration, certificates,
handshake and verification, each of which may fail; two objects over one socket
table that others use too; the bytes of a connection carry its number, and the end
of the stream reads as one more byte (`Phantom`). `held` is what the context has in
the heap, `conf` what the configuration knows of, and with it `stop_ssl_socket()`.

**PubSubClient.** Time in ticks; packets are their kind and id; `buffer` is the
id in the shared buffer. The callback may publish and subscribe inside `loop()`.
**MqttWriter.** The bytes of a packet in the buffer, the length field digit by
digit, and a client that takes fewer than it is given. **MqttReader.**
`readByte()` and `readPacket()` byte by byte as the network delivers, with and
without a Stream for payloads.

**HTTPClient.** A response travels as pieces (head, data, size lines, CRLFs),
each marked as own or as left over from an older request. `client`, `tcp` and
`traits` are the three pointers that the two APIs share; `conn`, `inbox` and
`wire` the connection. `pc` splits `sendRequest()` where the code waits or asks
the connection: the head is read line by line (the status, the fields as one, the
empty line), the payload of a stream is sent by a loop of its own. The server
answers, stalls or closes at any point, and a stall inside a line tears it
(`Stall`): `readStringUntil()` returns the first half. `late`, `torn` and
`strayed` are history and name the exceptions of section 4. **CookieJar.** The
vector behind `_cookieJar`, and its two loops one round at a time, with `erase(c);
c--` inside them; a host is its labels. `line` is the Cookie line of `_headers`,
which outlives the request, `oldSecure` a `_secure` that outlives its `begin()`.

**WsHttpClient.** The states of `iState`; a response as tokens, a line or a byte
of the body. **WebSocketClient.** A frame as tokens, payload bytes with their
position in the mask; the transmit buffer of a message. `read()` takes what is there,
of the frame or behind it; `begin()` may be called at any time. `excuse` is history:
`astray` once the stream has lost its frames, `between` after a control frame between
two fragments.

### Text

**ArduinoString.** Buffer, capacity and length; each call with and without
memory, and with arguments that are Strings with and without a buffer
(`argument`). **Stream.** Byte by byte with a timeout between any two. **IPAddress.**
Texts as numbers, dots and colons. **PrintNumbers.** The loops over the digits,
the widths as constants. **DNSServer.** Queries as records, the receive buffer of
WiFiUDP behind them; what a datagram that ends too early leaves open is any value
(`asSeen`). Each states its result twice: as the code computes it, and
as a reference definition that does not follow the code.

## 3. Runs

Components that do not share state are checked in one run, as a sum: a module
(`Board`, `Wireless`, `Sockets`, `Mqtt`, `Http`, `Websocket`) EXTENDS one component
and INSTANCEs the others (`Parsing` INSTANCEs all of its five), the variable `part`
says which of them runs, and the others rest in their initial state. `PartsSpec` is the specification of the sum; the
properties of the runs, and the theorems of section 5, are about it. The MC modules
(`MCBoard`, `MCWireless`, `MCHttp`, `MCWebsocket`, `MCParsing`) only give the constants
values; the runs `sockets` and `mqtt` need none. The parts of a
run are independent in the code as well (different objects, with no variable in
common); what one asks of another is in its model as what the other may answer
(`WiFiMulti` gets any scan result, `DNSServer` datagrams of every form, `MqttReader` bytes
in any pieces). Behaviours and properties of the sum are those of its parts.

| Run | Parts | Checks |
|---|---|---|
| `serial_sequential` | SerialRx | `ImplementsFifo`: with the handler between calls only, the ring is a bounded FIFO (refinement of BoundedFifo), over wrap-around, overflow, `begin()` on a started port and `end()` |
| `serial_preempted` | SerialRx | with the handler between any two accesses: `CountNeverAhead`, `available()` promises nothing that was not received; `StoppedIsEmpty`, `end()` leaves an empty ring |
| `board` | HardwareTimer, Ticker, Gpio, Wire | `TimersAgree`: no destroyed object is invoked, `m_running` is true; `OnceAtMostOnce`; `InterruptIsOwn`: parameter, next edge and pull; `MessageDelivered`: whole messages, queue alive; `WaitsEnd`: one-shots do not stay armed, Wire's `end()` returns |
| `wireless` | WiFiStation, WiFiScan, WiFiMulti, Ble | `RunningStationInMode`; `StaticIpSurvives`; `ResultsAreOwn`; `JoinsTheStrongest`; `StackAgrees`: radio and attribute bindings; `CallsReturn` |
| `sockets` | WiFiSockets, WiFiStream, WiFiUdp, WiFiClientSecure | `HolderIsUnique`; `OnlyEndLeaks`; `PacketsKept`; `BytesAccounted`; `SocketsKept`; `BytesInOrder`; `CallsReturn` |
| `mqtt` | PubSubClient, MqttWriter, MqttReader | `SilenceNoticed`; `AckMatches`; `HealthyBrokerKept`; `ConnectReturns`; `WholePackets`; `PacketIsWhole` |
| `http` | HTTPClient, CookieJar | `ResponseIsOwn`; `RequestToItsSite`; `BodyIsWhole`; `RequestReturns`; `CookiesAreCurrent` |
| `websocket` | WsHttpClient, WebSocketClient | `AnswerIsServers`; `FramesIntact`; `CallReturns` |
| `parsing` | Stream, ArduinoString, IPAddress, PrintNumbers, DNSServer | `StreamIsExact`; `StringIsExact`; `AddressesAgree`; `TextIsNumber`; `AnswersItsDomain` |
| `serial_overwrite` | SerialRx | `NoOverwrite`, **violated**: a byte that arrives between load and store of `_numElems` is not counted, and later ones overwrite unread bytes (one byte stored, the second comes inside `read()`, two more follow) |
| `ble_value` | Ble | `ValueKept`, **violated**: a value written before `advertise()`, as manual and example do, is gone after it |
| `string_replace` | ArduinoString | `ReplaceFits`, **violated**: `"aaA".replace("aA", "AaA")` outgrows the buffer that `replace()` has reserved |

The comment above each property says what it means for the code. `TypeOK` of
SerialRx and of WiFiSockets is proved (section 5); that of the other modules that
state one holds on the same instances and is left out of the runs, which are for
the properties that could be wrong.

### Bounds

- *Serial*: a ring of 2 or 3 bytes and twice as many on the wire: it fills,
  overflows and wraps. Which byte is where depends on indices modulo `N` only,
  and the theorems of section 5 hold for every `N`.
- *HardwareTimer*: two objects on one timer and 3 calls in a row; the theorem
  holds for any number. *Ticker*: three armings: the old one, the one that
  replaces it in the sketch, and the one that a callback makes in between.
- *Gpio*: 3 calls and 6 edges: attach, replace, detach, each met by an edge, and
  the edges after which the armed one is right again.
  *Wire*: a buffer of 2, messages of 1 to 3 (one is cut), 2 messages, 4 calls.
- *Station*: 7 calls and 4 waiting events: a complete `config()`, `begin()`,
  loss, `disconnect()` and `begin()` again with the events of the first
  association still waiting.
- *Scan*: 4 scans: one that times out, one that meets its SCAN_DONE, two that
  follow. *Multi*: 2 entries, 2 networks, `IntMax` 2; the run shows that up to
  `IntMax` networks the loop ends.
- *BLE*: three services of five characteristics, one with notifications, one
  with a 128-bit UUID, both stacks, 4 calls: advertise, stop, advertise again and
  one between.
- *Sockets*: 3 clients and a server over 4 sockets: the table runs out and every
  entry is used again. *UDP*: a buffer of 2 bytes, packets of up to 3 (one
  split), two datagrams of 0, 1 or 3 bytes (empty, short, truncated). *Stream*:
  2 attempts, writes of 1 or 2 bytes: partly taken, then stalled. *TLS*: two
  objects and one other user over 3 numbers, two connections of 2 bytes.
- *MQTT*: `KeepAlive` 3, `SocketTimeout` 2, at most 2 packets waiting, ids modulo
  3. `HealthyBrokerKept` needs `(MaxBacklog + 1) * MaxGap <= KeepAlive`: see
  sections 4 and 5. The
  length field has digits to the base 4 (128 in the code) and a word 4 bits, so
  that small packets reach a second digit and the wrap; buffers of 8, 10 and 15.
- *HTTP*: two hosts, three sites (a URL that does not parse sets port 443), four
  responses (a body with a length; one in chunks that redirects to a path; a redirect
  to the other site with an encoding the client does not know; one that also closes),
  bodies of at most one piece, one redirect per request: enough for a redirect
  whose response is unread and whose target answers. The number of calls is not
  bounded. After a request whose response was mixed with an older one (`late`) or
  had a torn line (`torn`) the next begins once that connection is gone
  (`Unmixed`), and the answer is on its way once the request is sent (`Answer`):
  the properties claim nothing of such a request, and what it leaves is garbage.
  Redirects are followed for GET (`strict`). *Cookies*: a host and its parent
  domain, ages 0 and 1, an uninitialised date before or after the clock, two
  headers over two ticks.
- *Websocket*: two requests, bodies with a length, in chunks and until the close;
  two frames of each kind, two messages, a transmit buffer of 3.
- *Text*: strings of up to 4 characters over two letters and a blank; streams of
  4 bytes over five characters, with targets that begin again inside themselves;
  addresses with zero and non-zero octets at every place; numbers around zero,
  the limits of the widths and the powers of the bases; three DNS packets of
  nine kinds.

### Fairness

- *Ticker*: a call that was made runs to its end; the RTOS goes on expiring a
  running timer. *Wire*: the thread runs, `end()` looks again. Nothing makes the
  sketch call, or the master send.
- *Scan, Multi, BLE*: the loop task and the event task get to run; the timeout
  passes. Nothing is asked of driver and stack. `EventTaskFirst` says that a
  posted event is handled before the loop task goes on: the event task has the
  higher priority. `ResultsAreOwn` rests on it.
- *UDP*: the sketch polls and empties its packets with `read(buffer, n)`, and
  the heap is not exhausted for ever.
- *Stream*: a call in progress goes on where its socket has a timeout
  (`connect()` sets one), and the sketch polls `available()` and reads what is
  there. *TLS*: the timeouts of `select()` and the handshake expire; the peer
  need not answer.
- *MQTT*: time passes, and `connect()` looks at it; the guard of `Tick` holds
  the sketch to calling `loop()` at least every `MaxGap` ticks.
- *HTTP, Websocket*: the loop task runs and the timeouts of `connect()`,
  `write()` and the wait for the next line of the head expire. Nothing is asked of
  the server, nor of the stream that a payload is read from (`RequestReturns` does
  not speak of it while the connection is up).

Deadlock is checked in `serial_*`. The other systems may stop: the bounds on
calls, scans, datagrams or bytes run out, a client is stopped for good.

## 4. Known deviations

Three are runs (`serial_overwrite`, `ble_value`, `string_replace`). The others
show when a constant is changed or the property named is checked of the module;
where no property is named the line is explained in the module or only here.
Lines are under `src/`.

### Board core

- `Ticker.cpp:35`: `timerThunk()` calls `detach()` after a one-shot's callback
  has returned, so an arming that the callback made with `once_ms()` is dropped
  unfired. `NoArmingDropped`.
- `Ticker.cpp:33,61`: a callback that blocks lets the sketch into the middle of
  the thunk; the thunk's `detach()` can then leave a timer that runs with
  `m_active` false. `CallbackBlocks = TRUE`: `ActiveIsRunning` fails.
- `Ticker.cpp:43-45`: the results of `rtos_init_timer()` and
  `rtos_start_timer()` are ignored. `InitMayFail = TRUE`: `ActiveIsRunning`
  fails.
- `HardwareTimer.cpp`: of two objects that begin on one id the second takes the
  place in the table, and either can stop the other's timer (`excuse`); a
  destroyed object stays in the table, harmless while its timer does not count.
- `wiring_digital.cpp:75`: replacing one `attachInterruptParam()` by another lets
  the handler call the one function with the other's parameter (an exception of
  `ParamIsOwn`). Two edges faster than the handler are one, and
  `enableGpioInterrupt()` gives the driver the type it has computed, not the one
  that the handler may have toggled to since: CHANGE then waits for the edge that
  has passed. `NextEdgeArmed` says when it is right again.
- `Wire.cpp:161`: `end()` called from a callback waits for its own thread.
  `Wire.cpp:349`: an event later than 100 ms is paired with the next transfer,
  and the lengths stay shifted (`late`). `onRequest()` is also polled when nobody
  asked. `available()` is negative after `m_rx_index` passed a shorter message
  (`AvailableIsCount`). `begin()` twice leaves the first driver state;
  `beginTransmission()` stores the target where a slave keeps its own address
  (not modelled).

### Radio

- `WiFiSTA.cpp:109`: `disconnect(true)` sets `_mode` to off while a soft AP goes
  on; `mode(WIFI_OFF)` does not stop it then. `OffMeansOff`.
- `WiFiSTA.cpp:125`: `config()` does not look at whether the event callback could
  be registered. `RegisterMayFail = TRUE`: `StaticIpSurvives` fails.
- `WiFiGeneric.cpp:95`: the vector of user callbacks is iterated in the event task
  and changed in the loop task without a lock. Not modelled: what an invalidated
  iterator does is undefined, so that any model of it fails at the first step.
- `WiFiScan.cpp:69`: `scanNetworks(async)` ignores its first argument.
- `WiFiMulti.cpp:84`: with more than 127 networks in range the counter wraps and
  the loop never ends (`IntMax` smaller than `MaxNets`).
- BLE: a disconnect while `stopAdvertise()` or `advertise()` waits starts
  advertising again; a start that timed out leaves the radio on; a confirmation of
  the database that comes late confirms a later attempt; `m_notify_enabled`
  survives the connection; services added after the database was built are never
  registered.

### Sockets

- `WiFiUdp.cpp:175,215,217`: `write()` discards the failure of the part it sends;
  `parsePacket()` overwrites the destination of a packet under construction; an
  empty datagram stays the current packet. `lost`, `crossed` and `rx_len = 0`
  are the exceptions of `WholePacketSent` and `NextPacketStarts`.
- `WiFiUdp.cpp:234`: a packet read to its end with the single-byte `read()` stays
  the current one, so `parsePacket()` answers 0 although datagrams wait, and
  `Udp.h:65` says 0 means that there is none. `ZeroMeansNone`.
- `WiFiServer.cpp:119`: `end()` forgets the connection `hasClient()` accepted.
  `lost` in `OnlyEndLeaks`.
- `WiFiServer.cpp:47`: an accepted socket has no receive timeout; `read()`, and
  with it `Stream::timedRead()`, may never return. `Accepted = TRUE`:
  `CallReturns` fails.
- `WiFiClient.cpp:135`: with an lwIP that implements FIONREAD, `available()` does
  not notice a close. `Fionread = TRUE`: `CloseNoticed` fails.
- `ssl_client.cpp`: `stop_ssl_socket()` clears the context, so that the socket's
  number becomes 0, and a second `stop()` closes descriptor 0 (`"zero"`). It frees
  certificate and key only if the configuration has them: when
  `mbedtls_ssl_conf_own_cert()` finds no memory, which goes unnoticed, they are
  lost (`unlinked`). `connect()` of a
  connected client forgets the old socket. A failed `connect()` without a socket
  leaves `_connected`. `read()` on an idle connection waits for the timeout and
  then tears it down; at the end of the stream it gives 255, which `peek()` keeps and
  `read(buf, 1)` hands out; `connected()` does not
  notice a close. `setCACertBundle(NULL)` detaches the bundle of every client.
  `operator=` shares the socket.

### MQTT, HTTP, Websocket

- `PubSubClient.cpp:374`: `loop()` reads one packet per call; a PINGRESP behind
  more packets than there are calls in a keepalive interval comes too late.
  `MaxBacklog = 4`: `HealthyBrokerKept` fails.
- `PubSubClient.cpp`: after a short write the connection stays open and the broker
  takes the next packet for the rest of this one; `beginPublish()` cuts the length
  to 16 bits; `publish_P()` and `beginPublish()` do not check that the topic fits;
  the check of `subscribe()` is one byte short (`SubscribeFits`); another packet
  in the middle of a streamed one mixes with it. `PubSubClient.cpp:350`: a packet
  that stalls for longer than `socketTimeout` leaves its rest for the next
  `readPacket()`.
- `HTTPClient.cpp:1138`: `connect()` drains what has arrived of an unread body (and
  the CRLF that `writeToStream()` leaves behind the last chunk); what arrives
  later is parsed as the head of the next response. `late`.
- `HTTPClient.cpp:171,309,297`: `begin()` by parts, and a URL or redirect that
  differs in the port only, keep a connection that leads elsewhere. `strayed`.
- `HTTPClient.cpp:1131`: `connected()` is true while unread data waits on a
  connection that the server has closed; after the drain `sendHeader()` fails and
  the request is not tried on a new connection. `setURL()` sets `_canReuse`
  although the server announced the close.
- `HTTPClient.cpp:657`: `_location` is never cleared: a 302 without a Location
  follows that of an earlier response.
- `HTTPClient.cpp:1380,765`: neither `writeToStreamDataBlock()` nor the upload
  from a stream has a timeout; a second `getString()` on a kept connection waits
  for `_size` bytes that will not come. `HTTPClient.cpp:1261`: every line of the head
  starts the timeout anew, so that a server that goes on sending lines holds
  `sendRequest()` for as long as it likes.
- `HTTPClient.cpp:928,1258`: `readStringUntil()` returns what it has when its
  timeout passes (`Stream.cpp:246-256`): a size line `1F` that stalls after the `1` is
  a chunk of one byte, half a header another value. `writeToStream()` may then
  report success for a body that is not the server's. `torn`.
- `HTTPClient.cpp:389`: `disconnect(false)` on a connection that is already closed
  leaves `_client` and `_tcpDeprecated`; the next `begin()` of the other API then
  works with the old client, or verifies the user's client with stale traits.
- Cookies: `parseHttpTime()` never reads a date (no `strptime()` in the build), so
  that `expires` has no effect and `Max-Age` counts from 0; a `Set-Cookie` without
  `;` is ignored; a domain matches as a substring; erasing the first element while
  iterating steps before the vector; a cookie set again without `Max-Age` is erased
  (`SetAgainKept`, against the comment at `HTTPClient.cpp:1657`). `Cookie.date`
  (`HTTPClient.h:133`) is not initialised, so that what `Max-Age` counts from is
  whatever the stack held. `HTTPClient.cpp:614-616`: a request for which there are no
  cookies goes out with the Cookie line of an earlier one, which only `clear()`
  removes: after a redirect to a URL or a `begin(client, url)`, to another host.
  `HTTPClient.cpp:223-248`: `begin(url)` of an http URL leaves `_secure` as it was, and
  secure cookies go out in the clear (`oldSecure`).
- Websocket's `HttpClient.cpp`: `beginRequest()` keeps the length and the chunked
  flag of the response before; `headerAvailable()` has no timeout and takes -1 for
  a character; a `100 Continue` that a blank line follows at once is invalid;
  `read(buf, size)` returns the framing of chunks.
- `WebSocketClient.cpp`: `write()` cuts the size with `sizeof(iTxSize)`
  (`TxFits`); `ping()` in an open message mixes with it; a header torn after two
  bytes is lost; a short bulk read skews the mask; `flushRx()` spins. `read()` past
  the end of a frame hands out the next header and wraps the unsigned `iRxSize`,
  although `WebSocketClient.h:80-82` promises -1; `begin()` on a connection that
  already carries frames reads them for a status line. A control frame between two
  fragments leaves its type in `iRxOpCode`: the continuation is taken for a control
  frame, and after a ping it is sent back as a pong (`FragmentsKept` excepts it).

### Text

- `String.cpp`: `s += s` reads a buffer that `realloc()` has freed when it moves
  (`doubled`); `indexOf()` of an argument that is a String without a buffer reads at
  NULL (line 571); a `replace()` whose second argument is a String that got no
  memory deletes what it finds; the difference in `startsWith()` is unsigned and wraps; `concat(float)` writes into 20 bytes.
- `Stream.cpp`: a lone `-` is consumed; an ignore character equal to `(char) -1`
  loops for ever at a timeout.
- `IPAddress.cpp`: `::` for a single field at either end is refused, a single
  leading colon is taken as 0; a failed parse leaves bytes behind;
  `IPAddress(const char *)` leaves the type unset then; IPv4 addresses with
  different unused bytes are unequal.
- `DNSServer.cpp`: an empty datagram, or a failed allocation, leaves the packet in
  the UDP buffer and the server deaf until it is restarted (`rx` is then
  `"unread"`); every inner `www.` is removed too; a query with an additional record
  (EDNS) is refused, although the example says that `*` replies to every query;
  an AAAA question gets an A answer. The length of a datagram is not looked at: a
  short header and a name without its end are read on into the heap, and a name of
  more than 255 bytes is written past `QName` (not modelled).
- `Print.cpp`: `printULLNumber()` returns its count whatever the device took.

## 5. Proofs

| Module | Theorem | For every ... |
|---|---|---|
| CoreProofs | `TypeCorrect` (TypeOK), `CountSafe` (CountNeverAhead), `StopEmpties` (StoppedIsEmpty) | ring size, number of bytes, FIFO depth and setting of the flags |
| | `FifoImplemented` (ImplementsFifo) | ring size and number of bytes, if the handler never runs inside a call |
| | `DnsSafe` (AnswersItsDomain) | set of domains, names and datagrams, number of calls; of a datagram that ends too early, only to whom the reply goes |
| | `PrintSafe` (TextIsNumber) | number, width of the three integer types, in the bases 2, 8, 10 and 16 |
| | `StreamSafe` (StreamIsExact) | set of bytes, targets, terminators and lengths, number of bytes |
| | `StringSafe` (StringIsExact) | set of texts without NUL, length of the String; outcome of every allocation |
| BoardProofs | `TimersSafe` (TimersAgree) | set of objects, assignment of timers, number of calls |
| | `OnceSafe` (the first half of OnceAtMostOnce) | number of armings, if callbacks do not block |
| | `ActiveSafe` (OnceAtMostOnce) | the same, if the RTOS has timers enough as well |
| | `InterruptSafe` (InterruptIsOwn) | number of calls and of edges |
| | `MessageSafe` (MessageDelivered) | buffer size, message length, number of messages |
| WirelessProofs | `StationStoppable` (RunningStationInMode), `StaticAddressKept` (StaticIpSurvives) | number of calls and of waiting events; the second if callbacks can be registered |
| | `ResultsSafe` (ResultsAreOwn) | number of scans, if the event task runs before the sketch |
| | `StrongestSafe` (JoinsTheStrongest) | set of names and strengths, number of networks |
| | `RadioSafe` (RadioMatches, the first half of StackAgrees) | set of services, number of calls and of answers of the stack |
| | `StackSafe` (StackAgrees) | the same, for services whose attributes fit the table (fewer than 256) |
| SocketsProofs | `TypeCorrect` (TypeOK), `UniqueHolder` (HolderIsUnique), `NoOtherLeak` (OnlyEndLeaks) | set of clients, size of the socket table and of the backlog |
| | `PacketsSafe` (PacketsKept) | buffer size, length of datagrams |
| | `BytesSafe` (BytesAccounted) | number of retries, size of a write, number of bytes |
| | `SecureSafe` (SocketsKept), `OrderSafe` (BytesInOrder) | set of clients and descriptors, number of bytes |
| PubSubClientProofs | `SilenceSafe` (SilenceNoticed) | keepalive interval and gap between calls of `loop()`, if `SocketTimeout <= KeepAlive` (both are 15 s by default) |
| | `HealthyKept` (HealthyBrokerKept) | the same, if `(MaxBacklog + 1) * MaxGap <= KeepAlive`: a full backlog can be read within one interval |
| | `AckSafe` (AckMatches) | set of packets and ids |
| | `WriterSafe` (WholePackets; its second half for `publish()` and `unsubscribe()` only) | buffer sizes, lengths of topics and payloads, base of the length field, width of a word of at most four digits |
| | `ReaderSafe` (PacketIsWhole) | buffer size, lengths of topics and payloads below four digits, base, number of packets |
| HTTPClientProofs | `RequestSafe` (RequestToItsSite), `ResponseSafe` (ResponseIsOwn) | set of sites and responses, redirect limit |
| | `BodySafe` (BodyIsWhole) | length of bodies and of chunks |
| | `CookiesSafe` (CookiesAreCurrent) | set of hosts, names, ages and dates, number of headers |
| WebsocketProofs | `FramesSafe` (FramesIntact) | set of frames, buffer size, message size |
| | `AnswerSafe` (AnswerIsServers) | set of responses, number of requests |

*Sums.* A theorem about a component that is INSTANCEd is stated of `PartsSpec`. The
lemma `PartsMove` of each module says that a step of the sum is a step of the
component or leaves its variables alone; what follows is then about the component's
own `Init` and `Next`.

*Recursion.* The library's induction theorems take the property as an operator, which
the provers cannot instantiate. The module `Recursion` states the same for sets and
functions, which are values: a set of naturals that has 0, and `n + 1` with every `n`,
has them all (`Induction`, `CourseOfValues`); a recursive definition whose step is a
function defines a function (`RecursionExists`, and `StepsExist` and `Iteration` for
the simpler forms). Both follow from the well-foundedness of `<`. The proofs name
the set of the numbers that have the property at hand, and the step function
of the definition at hand; a definition `LET f[n] == ... IN f[k]` of the model is then
unfolded once per definition, and used like any other fact. The recursive definitions
of the model are written as functions for that reason.

*SerialRx.* TypeOK is not inductive: `ReadStore` writes `tmp - 1`, which is in
range only if the loaded count was positive. `Inv1` adds `CountPositive`: from
the test in `read_char()` to its last store the count, and the loaded copy of it,
stay positive, because the handler only increments. `Inv2` adds the bound of
`CountNeverAhead` in a form that survives the handler between load and store
(the copy is at most the count, so what is lost is an increment, never a
decrement). `Inv3` adds `Attachment` (a port that is not started is not in the
handler's table, but for the steps of `begin()` and `end()` themselves) and
`HiddenRing` (what `end()` has cleared so far stays cleared once the handler has
lost the object). The assumptions are that `N` is a positive number, the bounds
are numbers and the flags Boolean.

*The FIFO.* The queue of BoundedFifo is the window of `num` bytes that begins at
`tail`. `ExactInv` is `Inv3` and `ExactCount`: the head is `num` places after the
tail, or one less once `read_char()` has moved the tail and not yet stored the
count. Lemmas on windows of a ring say that storing at the head appends
(`StoreAppends`), that moving the tail takes the first byte (`ReadTakesHead`), and
that two places less than `N` apart differ (`PlacesDiffer`, which is what keeps a
store from overwriting an unread byte). Every step is then a step of BoundedFifo
or leaves the queue and its output alone. The assumption is needed: without it
`serial_overwrite` has the counterexample.

*HardwareTimer.* `IInv` links three copies of one fact: the table, `m_running`
and the hardware. `TableIsOwn`: an object that has begun is in the table at its
own place; `CallIsOwn`: where a call has got to says what the timer does;
`CountingIsLive` and `RunningCounts`: a timer counts exactly while `m_running` of
the object in the table is set, but for the statement between the two. Timers that
two objects have begun are left out of all of them, once and for all, because
`excuse` only grows.

*Ticker.* `TickerInv`: an arming that is yet to come has not been called
(`Unborn`); a timer runs only for the arming whose members the object holds, and
while no thunk runs that one has not been called (`TimerIsOwn`); behind
`rtos_deinit_timer()` no timer runs, and what `start()` has assigned is an arming never
called (`CallStands`); the one-shot of a thunk has been called once and is still at
hand, or was replaced by one that has not (`ThunkStands`). All of it needs that the
timer task runs a thunk to its end while the sketch stands still, which is the
assumption on callbacks. `RunningInv` adds, for `active()`, that between `detach()`
and `start()` an active object has a timer that runs; a start that the RTOS refuses
breaks it, hence the second assumption of `ActiveSafe`.

*Gpio.* `HandlerStands`: the handler runs only for an interrupt that is attached, and
inside `attachInterrupt()` only if one was attached before. `SlotStands` says which
members of the slot are old and which are new, statement by statement: a handler
that finds `hasParam` finds a function and its own parameter, unless one with a
parameter replaces another. `EdgeStands`: a CHANGE interrupt waits for the edge that
ends the present level, or its flag is up and the handler has yet to turn it around.

*Wire.* `QueueStands`: the slave thread has a queue for as long as it runs, and leaves
before `end()` deletes it. `OneEvent`: unless an event came after its timeout, the
event of the transfer at hand is the only one there is, in the queue or on its way.

*WiFiStation.* `ModeInv` adds that the bit is set from the first statement of
`begin()` to the start of the station, several SDK calls later. `StaticInv` adds
`Armed`: once `config()` has returned, the SDK's flag is set but for the time
between the SDK's netif callback, which clears it on a disconnect, and
`wifiGenericWifiEventCb()`, which the same task runs next; and that the callback
is registered, which is where the assumption comes in.

*WiFiScan and WiFiMulti.* `ScanInv`: no scan runs outside of the call, and the one
that runs inside is its own (`ScanIsOwn`); no SCAN_DONE of an earlier scan can wake
it, because the semaphore was drained when no event was waiting (`WakeIsOwn`, where
the order of the two tasks is needed); the accessors have the entries of the last
scan or none (`EntriesStand`). `MultiInv` carries the loop's invariant `BestSoFar`:
the candidate is the strongest known network among the results looked at so far.

*Ble.* `ActivityStands`: an advertisement needs an activity, and a connection ends it.
`LastStands`: of the commands that the stack has yet to answer the awaited one comes
last. While nothing has parted the flag from the radio, `IdleInStep`, `StartInStep`
and `StopInStep` say between calls and at each wait of `advertise()` and
`stopAdvertise()` which answers can be outstanding and what the radio does;
`RadioMatches` is the case where none is. For the bindings, `Laid` says that a table
built as far as the n-th characteristic has a value, and a descriptor if a binding
names one, where each of its bindings points; `AddCharLays` that one more characteristic
moves none of them (it only appends, and its own come last), and by induction it holds
of the whole service. `GattProgress` follows `finalizeDatabase()` over the services: the
stack has confirmed those before the one at hand as they were built (`Confirmed`), each
binding belongs to one of them, and two services share no characteristic, so that
`handle` is not overwritten. A confirmation that came late leaves no claim, as in
the property.

*WiFiSockets.* `IInv` is the conjunction of the three properties: each needs the
others. A socket taken from the table is fresh (`FreshSocket`), so a new holder
is the only one because every held descriptor is open; closing one frees it for
good because its holder was the only one. There is a lemma per operation;
`StopHolds` serves `stop()`, the destructor and the first half of `connect()`.

*WiFiUdp and WiFiStream.* `UdpInv`: what is allocated, open or joined is what the
fields name, and a group is joined only with a socket (`Holdings`); of a packet under
way, what lwIP has and what is in the buffer make up what was written, and its host
is the one that `beginPacket()` was given (`PacketStands`). `StreamInv`: the sum that
`write()` keeps is what lwIP took, and what was read and what can be read make up
what the peer sent while the connection is up.

*WiFiClientSecure.* `SecureInv`: a socket field that `connect()` has assigned names a
socket of the client (`FieldStands`), and what `connect()` allocates is freed before
it returns, or known to be lost (`HeldStands`). Unless a second `connect()` or a shared socket excuses it,
a client knows of every socket it has opened (`OwnerStands`), a call on its way to a
connection belongs to a client that has none (`CallStands`), and the bytes handed
out, the one that `peek()` keeps and those decoded are the first of the session, in
order (`BytesStand`). `LeastOf` (a set of descriptors has a lowest one) rests on the
library's theorem that the naturals are well founded.

*PubSubClient.* For `SilenceSafe`, `IInv` bounds the ages of the last traffic by
`KeepAlive` and the time since `loop()` last looked, and relates them to what
really happened on the wire: the broker has been without a packet for at most the
age of the last one sent, and silent for at most the age of the last one read,
plus one interval if a PINGREQ is out, because sending it resets both ages. For
`HealthyKept`, `PingInv` follows the answer to the PINGREQ: it is owed, or it is
at place `i` of the inbox, there is only one, and the ages leave room for the `i`
calls of `loop()` that it takes to read it. `AckInv`: while the callback runs,
`msgId` is the id that `loop()` read from the packet, whatever has become of the
buffer; at all other times the last message that asked for a PUBACK has it.

*MqttWriter.* `WholePackets` cuts the wire with a recursive function; its inductive form
names the places instead: `Placed(w, s, m, at)` says that the k-th of the packets
`s` begins at `at[k - 1]` and its length field is there, and that `m` bytes of the last
one are still to come. What is needed of the code is that the digits which
`buildHeader()` puts backwards into the buffer are read by the broker as the
length (`Spelled`, for up to four digits), that later writes only append, so that no
packet already there is read differently, and that streamed bytes fill what is left
of the last one.

*MqttReader.* `Layout` places the packets of the broker in what is available and coming
as `Placed` does. `Reading` says, at each place in `readPacket()`, what its variables are
when it has the first n bytes of a packet: in the length field the sum and the
multiplier leave the quotient that the next digits spell (`InLength`), in the topic
the length is known (`InTopic`), in the rest `skip` is the length of topic and id, the
index is the number of bytes taken, and the Stream has those behind topic and id
(`InRest`). A packet ends where its length says, so that the next begins with its
first byte. All of it is claimed until a call gives up inside a packet (`stalled`).

*DNSServer.* `String::replace("www.", "")` is a loop over the words of a name (`Kept`). A
name with `www.` nowhere loses nothing, and of one with `www.` in front only exactly the
first two words go; so the lower-cased rest of a query equals the domain exactly when they
mean the same site. `DnsInv` adds that the domain of the server is `Clean`: lower case
and without `www.`, because `start()` has sent it through the same loop, for which the
domain has to be words with a dot between any two.

*PrintNumbers.* `Spells(t, n, b)`: the digits `t` have the value `n` in base `b` and the
first is not 0. `digits()` spells its number, by course-of-values induction; a number that
is longer than a chunk is spelled by its quotient and the `innerLoops` lowest digits,
zeros included, which needs that `th16` is that power of the base, and that the loop for
it ends (`ChunkSize`). A text of k digits that does not begin with 0 is at least
2^(k-1), so that it fits into `buf`.

*Stream.* `Longest(q, n, str, m)`: m is the length of the longest beginning of the target
`str` that the first n bytes read end with. `NextIndex` says that the loop of
`findMulti()`, which walks back through shorter beginnings without a table, goes from
the longest at n to the longest at n + 1; hence no occurrence is passed, and none is seen
that is not there. For the parsers, `Tally` relates mantissa, decimals and sign to the
places of digits, point and minus among the bytes taken (`ParseState`). For the readers,
what is kept is what was taken, but for the terminator (`ReadState`). `TextInv` puts the
parts together.

*String.* `Holds(x, v)`: the buffer of `x` begins with the text `v` and its NUL, `len` is
the length of `v`, and there is no buffer only if `v` is empty; the capacity is not part of
it, because `replace()` may leave it. `StringInv` says that both Strings hold a text, which
each call keeps. What a call does is then read off `v`: `strlen()` and `strstr()` never pass
the terminator (`Strlen`, `Strstr`), the loop of `lastIndexOf()` ends within `len` rounds
with the last place (`LastFound`). The hard one is `replace()`, which reserves room for what
it counts from the left, and then replaces from the right, in its own output. `Behind` says
that between two rounds the text is unchanged in front of the place reached, and that behind
it stands what the substitution makes of the rest. This needs that no find begins in front of
that place and ends behind it: `NoStraddle` where the new text completes no find, `Apart`
where no two finds overlap; these are the two cases that `EditsAgree` excepts. `Within`
relates the finds replaced to those counted: from wherever it stands in front of the place
reached, the count from the left still meets at least as many finds as were replaced, so
that the text stays within the size computed even if finds overlap.

*HTTPClient.* `SiteInv`: a live connection belongs to a client and leads to the
site at hand unless it has strayed; on a connection that is not open nothing is on
its way, so that it cannot come to life again with bytes of an earlier site.
`BodyInv` says what is still to come, inbox and wire together, at each point:
nothing before the request and only its response after it (`AskedOnce`, `Fresh`), none
or all of the body read between calls (`AtRest`), and inside `writeToStream()` the
place in the data or the chunks that the count `got` tells (`AtBlock`, `AtChunk`);
success is reported where that place is the end. All of it is claimed until an older
body comes late or a line is torn. `JarInv`: a cookie in the jar is the one last set under
its domain and name, and there is one of each; inside `setCookie()` no element in front
of the iterator has the name of the new cookie unless it was found and is that cookie
(`SetLoop`); inside `generateCookieString()` the text holds exactly those in front of
the iterator that are for this host, and none of these has run out (`GenerateLoop`).

*WebSocketClient.* `WsInv` is about `Coming`, the bytes received and those on the
wire as one sequence: an opcode is followed by its whole frame (`Framed`), after the
payload that is left comes an opcode or nothing (`Follows`, `Whole`), and each
payload byte has the place in the mask that the client has counted to
(`MaskInStep`). `BufferStands`: a message of the sketch holds what was written,
a pong the part of the ping that was read. `Drops` says how the stream changes when
the client consumes some tokens. `FragmentsKept` is inductive by itself.

*WsHttpClient.* `AnswerInv` is about `Ahead`, received and on the wire, again as one
sequence. Unless leftovers came late, nothing older than the last response is ahead
(`StatusStands`), and what is ahead, given the state of the client, is the rest of
one response in its grammar: the rest of the headers (`HeadFrom`, `SecondFrom`,
`EndFrom`), then a plain or a chunked body (`BodyFrom`). `HeadersStand` and
`BodyStands` tie `iContentLength`, `iIsChunked` and `iChunkLength` to the response
that is being read; `TextStands` says that `responseBody()` returns a text only when as
many bytes were handed out as were announced. Two families of lemmas do the work: `Goes(t, b, q,
a)` carries what is known of a sequence over to what it becomes when its front is
read, and `PiecesRead` shows that what the server puts on the wire is one response.

Out of the prover's reach, and left to TLC:

- the liveness properties (`WaitsEnd`, `CallsReturn`, `ConnectReturns`,
  `RequestReturns`, `CallReturns`): there is no rule for fairness or ENABLED;
- `AddressesAgree`: the parsers and the printers are folds of the library (`FoldLeft`,
  `FoldLeftDomain`, `FlattenSeq`, `SelectSeq`), which take operators as parameters, and what
  they compute of a text would have to be proved by induction over it.

All other invariants of the runs are theorems.

## 6. Not modelled

SPI, PWM and ADC are sequential wrappers of driver calls with an initialised flag
and no second actor; base64 is a pure function of bits (for unit tests, of which there are none); `http_parser.c` is third
party; the SDK, FreeRTOS, lwIP and mbedTLS appear as what the code asks of them;
build files, variants and tools are not programs of the device.

In the modelled components: the vector of user callbacks behind `onEvent()`
(section 4); the text of headers, URLs, UUIDs, keys, certificates and credentials,
and with it the matching of host names and the search in a certificate bundle;
floating point numbers (those of `parseFloat()` are exact decimals, those of
`print()` are left out); conversions of String from and to numbers; copies of a
WiFiClient (an example of the library says that there is no safe copy); a WiFiUDP
packet that is written or ended without having been begun; reading a body through
`getStream()`; `setTimeout()`, `setNoDelay()`, getters and other calls that do not
change the control.

Further work, in the order of its use: WiFiMulti composed with WiFiScan and
WiFiStation; PubSubClient over WiFiStream.
