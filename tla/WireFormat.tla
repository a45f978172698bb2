------------------------------ MODULE WireFormat ------------------------------
(***************************************************************************)
(* The payloads of the messages: the Send functions of Lib/Protocol.c,     *)
(* which write the fields of a message one after the other, and the        *)
(* Receive functions, which read them again from the buffer ProtocolReceive*)
(* filled.  Numbers are big-endian; a text is its length in two bytes and  *)
(* its characters.                                                         *)
(*                                                                         *)
(* A Receive function gets the buffer and the size of the payload: a       *)
(* buffer is used for one message after the other and never cleared, so    *)
(* behind the payload there are bytes of older ones.  An operator below    *)
(* takes the message as a record with its parameters; -1 is Malformed.     *)
(*                                                                         *)
(* How a payload travels, and what is sent before it, is the module        *)
(* Framing.  The callers send no key or value that ValidateKey or          *)
(* ValidateValue refuses, no address that is cut, and an empty value with  *)
(* every result but ERR_NONE.                                              *)
(***************************************************************************)
EXTENDS Integers, Sequences

CONSTANTS MaxKeySize,   \* MAX_KEY_SIZE
          MaxValueSize, \* MAX_VALUE_SIZE
          MaxTextSize,  \* 255: what a reader takes of an address or an error text
          MaxErrorSize, \* MAX_ERROR_MSG_SIZE
          Chars,        \* the characters of a text
          Ids,          \* client and worker ids, numbers of entries
          Ports,        \* ports the workers listen at for their peers
          Stale         \* bytes that older messages left behind a payload

ASSUME LimitsAssumption == /\ MaxKeySize \in Nat \ {0} /\ MaxKeySize < 65536
                           /\ MaxValueSize \in Nat /\ MaxValueSize < 65536
                           /\ MaxTextSize \in Nat /\ MaxTextSize <= MaxErrorSize
                           /\ MaxErrorSize \in Nat /\ MaxErrorSize < 65535
ASSUME NumbersAssumption == /\ \A x \in Ids : x \in Nat /\ x \div 16777216 < 256
                            /\ \A x \in Ports : x \in Nat /\ x < 65536
ASSUME BytesAssumption == /\ Chars \subseteq 1 .. 255
                          /\ Stale \subseteq Seq(0 .. 255)

Text(max) == UNION {[1 .. n -> Chars] : n \in 0 .. max}
Keys == Text(MaxKeySize) \ {<< >>}
Values == Text(MaxValueSize)
Codes == 0 .. 6     \* ErrorCode; 0 is ERR_NONE

-----------------------------------------------------------------------------
(* Fields.  An offset counts the bytes before the field.                   *)

WriteUInt8(x) == <<x % 256>>
WriteUInt16(x) == <<(x \div 256) % 256, x % 256>>
WriteUInt32(x) == <<(x \div 16777216) % 256, (x \div 65536) % 256,
                    (x \div 256) % 256, x % 256>>
WriteText(s) == WriteUInt16(Len(s)) \o s

ReadUInt8(b, at) == b[at + 1]
ReadUInt16(b, at) == b[at + 1] * 256 + b[at + 2]
ReadUInt32(b, at) == b[at + 1] * 16777216 + b[at + 2] * 65536 + b[at + 3] * 256 + b[at + 4]
ReadString(b, at, length) == SubSeq(b, at + 1, at + length)

\* The text whose length is at an offset, and the offset behind it.
TextAt(b, at) == ReadString(b, at + 2, ReadUInt16(b, at))
After(b, at) == at + 2 + ReadUInt16(b, at)

\* The length lies in the payload and is allowed, and so do the characters.
TextFits(b, size, at, max) == /\ at + 2 <= size
                              /\ ReadUInt16(b, at) <= max
                              /\ After(b, at) <= size

Malformed == [type |-> "malformed"]

-----------------------------------------------------------------------------
(* The client and the load balancer.                                       *)

SendPut(m) == WriteText(m.key) \o WriteText(m.value)

ReceivePut(b, size) ==
    IF TextFits(b, size, 0, MaxKeySize) /\ TextFits(b, size, After(b, 0), MaxValueSize)
    THEN [type |-> "PUT", key |-> TextAt(b, 0), value |-> TextAt(b, After(b, 0))]
    ELSE Malformed

SendPutResponse(m) == WriteUInt8(m.result) \o WriteText(m.key)

ReceivePutResponse(b, size) ==
    IF 1 <= size /\ TextFits(b, size, 1, MaxKeySize)
    THEN [type |-> "PUT_RESPONSE", result |-> ReadUInt8(b, 0), key |-> TextAt(b, 1)]
    ELSE Malformed

SendGet(m) == WriteText(m.key)

ReceiveGet(b, size) == IF TextFits(b, size, 0, MaxKeySize)
                       THEN [type |-> "GET", key |-> TextAt(b, 0)]
                       ELSE Malformed

\* The value of a result other than ERR_NONE is left out.
Found(m) == IF m.result = 0 THEN m.value ELSE << >>

SendGetResponse(m) == WriteUInt8(m.result) \o WriteText(m.key) \o WriteText(Found(m))

ReceiveGetResponse(b, size) ==
    IF /\ 1 <= size
       /\ TextFits(b, size, 1, MaxKeySize)
       /\ TextFits(b, size, After(b, 1), MaxValueSize)
    THEN [type |-> "GET_RESPONSE", result |-> ReadUInt8(b, 0),
          key |-> TextAt(b, 1), value |-> TextAt(b, After(b, 1))]
    ELSE Malformed

\* No more than the first characters of a text.
Cut(s, max) == SubSeq(s, 1, IF Len(s) > max THEN max ELSE Len(s))

\* A text that is too long is cut here, and cut again by the reader.
SendError(m) == WriteUInt8(m.result) \o WriteText(Cut(m.text, MaxErrorSize))

ReceiveError(b, size) ==
    LET length == ReadUInt16(b, 1)
    IN IF 1 <= size /\ 3 <= size /\ After(b, 1) <= size
       THEN [type |-> "ERROR", result |-> ReadUInt8(b, 0),
             text |-> ReadString(b, 3, IF length > MaxTextSize THEN MaxTextSize ELSE length)]
       ELSE Malformed

-----------------------------------------------------------------------------
(* The load balancer and a worker.                                         *)

SendStoreRequest(m) == WriteUInt32(m.id) \o WriteText(m.key) \o WriteText(m.value)

ReceiveStoreRequest(b, size) ==
    IF /\ 4 <= size
       /\ TextFits(b, size, 4, MaxKeySize)
       /\ TextFits(b, size, After(b, 4), MaxValueSize)
    THEN [type |-> "STORE_REQUEST", id |-> ReadUInt32(b, 0),
          key |-> TextAt(b, 4), value |-> TextAt(b, After(b, 4))]
    ELSE Malformed

SendStoreResponse(m) == WriteUInt8(m.result) \o WriteUInt32(m.id) \o WriteText(m.key)

ReceiveStoreResponse(b, size) ==
    IF 1 <= size /\ 5 <= size /\ TextFits(b, size, 5, MaxKeySize)
    THEN [type |-> "STORE_RESPONSE", result |-> ReadUInt8(b, 0),
          id |-> ReadUInt32(b, 1), key |-> TextAt(b, 5)]
    ELSE Malformed

SendRetrieveRequest(m) == WriteUInt32(m.id) \o WriteText(m.key)

ReceiveRetrieveRequest(b, size) ==
    IF 4 <= size /\ TextFits(b, size, 4, MaxKeySize)
    THEN [type |-> "RETRIEVE_REQUEST", id |-> ReadUInt32(b, 0), key |-> TextAt(b, 4)]
    ELSE Malformed

SendRetrieveResponse(m) ==
    WriteUInt8(m.result) \o WriteUInt32(m.id) \o WriteText(m.key) \o WriteText(Found(m))

ReceiveRetrieveResponse(b, size) ==
    IF /\ 1 <= size
       /\ 5 <= size
       /\ TextFits(b, size, 5, MaxKeySize)
       /\ TextFits(b, size, After(b, 5), MaxValueSize)
    THEN [type |-> "RETRIEVE_RESPONSE", result |-> ReadUInt8(b, 0), id |-> ReadUInt32(b, 1),
          key |-> TextAt(b, 5), value |-> TextAt(b, After(b, 5))]
    ELSE Malformed

SendWorkerReady(m) == WriteUInt32(m.id) \o WriteUInt16(m.port)

ReceiveWorkerReady(b, size) ==
    IF 4 <= size /\ 6 <= size
    THEN [type |-> "WORKER_READY", id |-> ReadUInt32(b, 0), port |-> ReadUInt16(b, 4)]
    ELSE Malformed

SendWorkerEntry(m) ==
    WriteUInt32(m.id) \o WriteText(m.address) \o WriteUInt16(m.port) \o WriteUInt8(m.export)

ReceiveWorkerEntry(b, size) ==
    LET at == After(b, 4)
    IN IF /\ 4 <= size
          /\ TextFits(b, size, 4, MaxTextSize)
          /\ at + 2 <= size
          /\ at + 3 <= size
       THEN [type |-> "WORKER_ENTRY", id |-> ReadUInt32(b, 0), address |-> TextAt(b, 4),
             port |-> ReadUInt16(b, at), export |-> ReadUInt8(b, at + 2)]
       ELSE Malformed

-----------------------------------------------------------------------------
(* A worker and its peer.                                                  *)

SendDataExportStart(m) == WriteUInt32(m.id)

ReceiveDataExportStart(b, size) == IF 4 <= size
                                   THEN [type |-> "DATA_EXPORT_START", id |-> ReadUInt32(b, 0)]
                                   ELSE Malformed

SendDataEntry(m) == WriteText(m.key) \o WriteText(m.value)

ReceiveDataEntry(b, size) ==
    IF TextFits(b, size, 0, MaxKeySize) /\ TextFits(b, size, After(b, 0), MaxValueSize)
    THEN [type |-> "DATA_ENTRY", key |-> TextAt(b, 0), value |-> TextAt(b, After(b, 0))]
    ELSE Malformed

SendPeerNotify(m) == WriteText(m.key) \o WriteText(m.value)

ReceivePeerNotify(b, size) ==
    IF TextFits(b, size, 0, MaxKeySize) /\ TextFits(b, size, After(b, 0), MaxValueSize)
    THEN [type |-> "PEER_NOTIFY", key |-> TextAt(b, 0), value |-> TextAt(b, After(b, 0))]
    ELSE Malformed

-----------------------------------------------------------------------------
(* The Send and Receive functions of each message type.                    *)

Pairs == [type : {"PUT", "DATA_ENTRY", "PEER_NOTIFY"}, key : Keys, value : Values]
Answers == [type : {"PUT_RESPONSE"}, result : Codes, key : Keys]
Questions == [type : {"GET"}, key : Keys]
Errors == [type : {"ERROR"}, result : Codes, text : Text(MaxErrorSize + 1)]
Stores == [type : {"STORE_REQUEST"}, id : Ids, key : Keys, value : Values]
StoreAnswers == [type : {"STORE_RESPONSE"}, result : Codes, id : Ids, key : Keys]
Retrieves == [type : {"RETRIEVE_REQUEST"}, id : Ids, key : Keys]
GetAnswers == {m \in [type : {"GET_RESPONSE"}, result : Codes, key : Keys, value : Values] :
                  m.result # 0 => m.value = << >>}
RetrieveAnswers ==
    {m \in [type : {"RETRIEVE_RESPONSE"}, result : Codes, id : Ids, key : Keys, value : Values] :
        m.result # 0 => m.value = << >>}
Announcements == [type : {"WORKER_READY"}, id : Ids, port : Ports]
Entries == [type : {"WORKER_ENTRY"}, id : Ids, address : Text(MaxTextSize), port : Ports,
            export : {0, 1}]
Starts == [type : {"DATA_EXPORT_START"}, id : Ids]

Sendable == UNION {Pairs, Answers, Questions, Errors, Stores, StoreAnswers, Retrieves,
                   GetAnswers, RetrieveAnswers, Announcements, Entries, Starts}

Encoded(m) == CASE m.type = "PUT" -> SendPut(m)
                [] m.type = "PUT_RESPONSE" -> SendPutResponse(m)
                [] m.type = "GET" -> SendGet(m)
                [] m.type = "GET_RESPONSE" -> SendGetResponse(m)
                [] m.type = "ERROR" -> SendError(m)
                [] m.type = "STORE_REQUEST" -> SendStoreRequest(m)
                [] m.type = "STORE_RESPONSE" -> SendStoreResponse(m)
                [] m.type = "RETRIEVE_REQUEST" -> SendRetrieveRequest(m)
                [] m.type = "RETRIEVE_RESPONSE" -> SendRetrieveResponse(m)
                [] m.type = "WORKER_READY" -> SendWorkerReady(m)
                [] m.type = "WORKER_ENTRY" -> SendWorkerEntry(m)
                [] m.type = "DATA_EXPORT_START" -> SendDataExportStart(m)
                [] m.type = "DATA_ENTRY" -> SendDataEntry(m)
                [] m.type = "PEER_NOTIFY" -> SendPeerNotify(m)

Decoded(type, b, size) ==
    CASE type = "PUT" -> ReceivePut(b, size)
      [] type = "PUT_RESPONSE" -> ReceivePutResponse(b, size)
      [] type = "GET" -> ReceiveGet(b, size)
      [] type = "GET_RESPONSE" -> ReceiveGetResponse(b, size)
      [] type = "ERROR" -> ReceiveError(b, size)
      [] type = "STORE_REQUEST" -> ReceiveStoreRequest(b, size)
      [] type = "STORE_RESPONSE" -> ReceiveStoreResponse(b, size)
      [] type = "RETRIEVE_REQUEST" -> ReceiveRetrieveRequest(b, size)
      [] type = "RETRIEVE_RESPONSE" -> ReceiveRetrieveResponse(b, size)
      [] type = "WORKER_READY" -> ReceiveWorkerReady(b, size)
      [] type = "WORKER_ENTRY" -> ReceiveWorkerEntry(b, size)
      [] type = "DATA_EXPORT_START" -> ReceiveDataExportStart(b, size)
      [] type = "DATA_ENTRY" -> ReceiveDataEntry(b, size)
      [] type = "PEER_NOTIFY" -> ReceivePeerNotify(b, size)

-----------------------------------------------------------------------------
\* What is left of a message's parameters: a long error text is cut.
Shown(m) == IF m.type = "ERROR" THEN [m EXCEPT !.text = Cut(@, MaxTextSize)] ELSE m

\* Whatever is behind a payload in the buffer, the reader gets the parameters
\* the writer was given, and of an error text its beginning, although it is cut
\* twice, at different limits.
PayloadsReadBack ==
    \A m \in Sendable, stale \in Stale :
       Decoded(m.type, Encoded(m) \o stale, Len(Encoded(m))) = Shown(m)

\* A payload that breaks off is refused although the buffer holds plausible
\* bytes behind it: no field is read past the size.
CutPayloadsRefused ==
    \A m \in Sendable : \A size \in 0 .. Len(Encoded(m)) - 1 :
       Decoded(m.type, Encoded(m), size) = Malformed
=============================================================================
