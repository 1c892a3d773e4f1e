------------------------------ MODULE UdpCodec ------------------------------
(***************************************************************************)
(* The bytes of a datagram: what the sending methods of UDPPostman write   *)
(* (authorize to confirm), what the server writes, with both bytes of its  *)
(* ids, and what data_to_message makes of the bytes that arrive, which may *)
(* be fewer or more than were written.  UdpPostman abstracts from bytes;   *)
(* the four outcomes it has for a datagram are the outcomes here: a        *)
(* message, an UNKNOWN with an id, one without, and an exception.          *)
(***************************************************************************)
EXTENDS ChatTypes, Integers, Sequences, SequencesExt

CONSTANTS
    Ids,    \* message ids that are used
    Texts,  \* sequences of bytes: names, channels, contents
    Extra   \* bytes that may be appended to a datagram

ASSUME CodecAssumption ==
    /\ \A id \in Ids : id \in Nat /\ id < 65536
    /\ Texts \subseteq Seq(1 .. 255)
    /\ Extra \subseteq 0 .. 255

VARIABLES
    message,   \* the message that is written
    datagram,  \* its bytes, or what has become of them
    damage,    \* "none", "cut", "extended" or "retyped"
    outcome    \* what data_to_message returns, or how it ends

vars == <<message, datagram, damage, outcome>>

Code(type) ==
    CASE type = "CONFIRM" -> 0 [] type = "REPLY" -> 1 [] type = "AUTH" -> 2
      [] type = "JOIN"    -> 3 [] type = "MSG"   -> 4 [] type = "ERR"  -> 254
      [] type = "BYE"     -> 255

(* How many texts a message of a type has. *)
FieldCount(type) ==
    CASE type = "AUTH" -> 3 [] type \in {"JOIN", "MSG", "ERR"} -> 2
      [] type = "REPLY" -> 1 [] OTHER -> 0

(* Whatever data_to_message has a case for, the client writes or a server. *)
Written ==
    UNION {[by     : IF t = "REPLY" THEN {"server"} ELSE {"client", "server"},
            type   : {t}, id : Ids,
            result : IF t = "REPLY" THEN {0, 1} ELSE {0},
            ref_id : IF t = "REPLY" THEN Ids ELSE {0},
            fields : [1 .. FieldCount(t) -> Texts]] :
           t \in {"CONFIRM", "REPLY", "AUTH", "JOIN", "MSG", "ERR", "BYE"}}

(* (uint8_t)id >> 8: the cast comes first. *)
HighByteSent(id) == (id % 256) \div 256

(* The server's ids are whole, as data_to_message reads them. *)
HighByte(m) == IF m.by = "server" THEN m.id \div 256 ELSE HighByteSent(m.id)

Header(m) == <<Code(m.type), HighByte(m), m.id % 256>>

Unterminated(fields) == FlattenSeq(fields)

Terminated(fields) == FlattenSeq([k \in DOMAIN fields |-> Append(fields[k], 0)])

Encode(m) ==
    IF m.type = "REPLY"
    THEN <<Code("REPLY"), HighByte(m), m.id % 256, m.result,
           m.ref_id \div 256, m.ref_id % 256>> \o Terminated(m.fields)
    ELSE Header(m) \o Terminated(m.fields)

-----------------------------------------------------------------------------
(* data_to_message.  Offsets count from 0; data.at throws behind the end. *)

Throws == [type |-> "throws"]
UnknownNoId == [type |-> "UNKNOWN"]
UnknownWithId(data) == [type |-> "UNKNOWN", id |-> data[2] * 256 + data[3]]

Nul(data, from) ==
    LET nuls == {i \in from .. Len(data) : data[i] = 0} IN
    IF nuls = {} THEN 0 ELSE CHOOSE i \in nuls : \A j \in nuls : i <= j

(* Where the first n texts behind the header end, one after the other; 0 if
   the bytes end before. *)
FieldEnd(data, n) ==
    LET end[k \in 0 .. n] ==
            IF k = 0 THEN 3
            ELSE IF end[k - 1] = 0 THEN 0 ELSE Nul(data, end[k - 1] + 1)
    IN  end[n]

(* The last text reaches to the end. *)
FieldToEnd(data, k) ==
    SubSeq(data, FieldEnd(data, k - 1) + 1,
           (IF FieldEnd(data, k + 1) = 0 THEN Len(data) ELSE FieldEnd(data, k)) - 1)

FieldOf(data, k) == SubSeq(data, FieldEnd(data, k - 1) + 1, FieldEnd(data, k) - 1)

Parsed(type, id, result, ref_id, fields) ==
    [type |-> type, id |-> id, result |-> result, ref_id |-> ref_id, fields |-> fields]

(* CONFIRM and BYE must be exactly their header; the id of the UNKNOWN they
   otherwise become is not initialised. *)
HeaderOnly(data, type) ==
    IF Len(data) < 3 THEN Throws
    ELSE IF Len(data) # 3 THEN UnknownNoId
    ELSE Parsed(type, data[2] * 256 + data[3], 0, 0, <<>>)

ReplyUnchecked(data) ==
    IF Len(data) < 7 THEN Throws
    ELSE Parsed("REPLY", data[2] * 256 + data[3], data[4], data[5] * 256 + data[6],
                <<SubSeq(data, 7, Len(data) - 1)>>)

(* The contents are all that follows; their last byte is looked at, which
   throws if there is none. *)
Reply(data) ==
    IF Len(data) < 7 THEN Throws
    ELSE IF data[Len(data)] # 0 THEN UnknownWithId(data)
    ELSE Parsed("REPLY", data[2] * 256 + data[3], data[4], data[5] * 256 + data[6],
                <<SubSeq(data, 7, Len(data) - 1)>>)

(* The texts of the others are read up to their NULs, and what follows the
   last one is ignored. *)
WithFields(data, type) ==
    LET n      == FieldCount(type)
        fields == [k \in 1 .. n |-> FieldOf(data, k)]
    IN  IF Len(data) < 3 \/ FieldEnd(data, n) = 0 THEN Throws
        ELSE IF \E k \in 1 .. n : fields[k] = <<>> THEN UnknownWithId(data)
        ELSE Parsed(type, data[2] * 256 + data[3], 0, 0, fields)

DataToMessage(data) ==
    IF data = <<>> THEN UnknownNoId
    ELSE CASE data[1] = Code("CONFIRM") -> HeaderOnly(data, "CONFIRM")
           [] data[1] = Code("BYE")     -> HeaderOnly(data, "BYE")
           [] data[1] = Code("REPLY")   -> Reply(data)
           [] data[1] = Code("AUTH")    -> WithFields(data, "AUTH")
           [] data[1] = Code("JOIN")    -> WithFields(data, "JOIN")
           [] data[1] = Code("MSG")     -> WithFields(data, "MSG")
           [] data[1] = Code("ERR")     -> WithFields(data, "ERR")
           [] OTHER -> IF Len(data) < 3 THEN Throws ELSE UnknownWithId(data)

-----------------------------------------------------------------------------

Init ==
    /\ message \in Written
    /\ datagram = Encode(message)
    /\ damage = "none"
    /\ outcome = [type |-> "none"]

Damage(kind, bytes) ==
    /\ damage = "none" /\ outcome.type = "none"
    /\ damage' = kind
    /\ datagram' = bytes
    /\ UNCHANGED <<message, outcome>>

Cut(n) == Damage("cut", SubSeq(datagram, 1, n))

Extend(byte) == Damage("extended", Append(datagram, byte))

(* A type the protocol does not have. *)
Retype == Damage("retyped", [datagram EXCEPT ![1] = 5])

Receive ==
    /\ outcome.type = "none"
    /\ outcome' = DataToMessage(datagram)
    /\ UNCHANGED <<message, datagram, damage>>

Next ==
    \/ \E n \in 0 .. Len(datagram) - 1 : Cut(n)
    \/ \E byte \in Extra : Extend(byte)
    \/ Retype
    \/ Receive

Spec == Init /\ [][Next]_vars

-----------------------------------------------------------------------------
(* Properties *)

Understood == outcome.type \in MessageType \ {"UNKNOWN"}

(* The id of the client's own messages is reduced to a byte. *)
IdSent(m) == IF m.by = "server" THEN m.id ELSE m.id % 256

(* Sender and receiver agree on the format: an intact message is read as it
   was written, with both bytes of the server's ids.  (The id field of a
   CONFIRM is the id it refers to.) *)
ReadAsWritten ==
    /\ outcome.type # "none" /\ damage = "none"
    /\ \A k \in DOMAIN message.fields : message.fields[k] # <<>>
    =>
        outcome = Parsed(message.type, IdSent(message), message.result,
                         message.ref_id, message.fields)

(* A datagram that has lost its end is never taken for a message: not for
   a shorter text, a shorter name, or another type. *)
CutIsNoMessage == damage = "cut" => ~Understood

(* A datagram that has got longer is still read as what was written or not
   at all, except that the contents of a REPLY reach to its end. *)
LongerIsTheSame ==
    damage = "extended" /\ Understood =>
        /\ outcome.type = message.type /\ outcome.id = IdSent(message)
        /\ message.type # "REPLY" => outcome.fields = message.fields

=============================================================================
