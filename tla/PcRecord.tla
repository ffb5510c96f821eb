------------------------------ MODULE PcRecord ------------------------------
(***************************************************************************)
(* The records of the PC telemetry bridge as bytes on the serial line:     *)
(* main/telemetry/pc_telemetry_protocol.cpp, and cobs_decode and           *)
(* decode_bridge_frame in tools/ground_station/ground_station.py.          *)
(*                                                                         *)
(* No record is longer than 60 bytes, so COBS never needs a block of 254   *)
(* bytes, and a code byte of 255 is always a truncated block.              *)
(***************************************************************************)
EXTENDS Bayang

PC_TELEMETRY_PROTOCOL_VERSION == 1
MessageLength == [t \in {1, 2} |-> IF t = 1 THEN BAYANG_PACKET_SIZE ELSE 44]

-----------------------------------------------------------------------------
(* The transmitter.                                                         *)

\* The flight flags that the saved AUX selections are shown in, with the bit
\* of the selection and the bit of the flag.
ConfigFlags == {<<0, 3>>, <<1, 4>>, <<2, 5>>, <<3, 6>>}

Bit(v, i) == (v \div 2^i) % 2

\* decode_flight_mode, of the flight flags.
decode_flight_mode(flags) ==
    LET race == Bit(flags, 4) = 1
        horizon == Bit(flags, 5) = 1
    IN  IF Bit(flags, 3) = 0 THEN "Acro"
        ELSE IF race /\ horizon THEN "RaceHorizon"
        ELSE IF horizon THEN "Horizon"
        ELSE IF race THEN "Race" ELSE "Level"

\* The flight flags with the selections of saved_aux_flags in them.
WithSaved(flags, saved) ==
    ValueOf([n \in 1 .. 8 |->
        LET source == {c \in ConfigFlags : c[2] = 8 - n}
        IN  IF source = {} THEN Bit(flags, 8 - n)
            ELSE Bit(saved, (CHOOSE c \in source : TRUE)[1])])

\* pc_telemetry_overlay_saved_flight_config, on a valid flight page.
Overlaid(packet, saved) ==
    IF bayang_check_telemetry(packet) /\ packet[1] = \h86
                                      /\ packet[2] \div 64 = 1
    THEN Checked([SubSeq(packet, 1, 14) EXCEPT ![14] = WithSaved(@, saved)])
    ELSE packet

\* The lengths of the blocks between zeros.
cobs_encode(bytes) ==
    LET n == Len(bytes)
        zeros == {i \in 1 .. n : bytes[i] = 0} \cup {n + 1}
        next(i) == Min({z \in zeros : z >= i})
    IN  [i \in 1 .. n + 1 |->
            IF i = 1 \/ (i > 1 /\ bytes[i - 1] = 0) THEN next(i) - i + 1
            ELSE bytes[i - 1]]

\* encode_message: the envelope, the payload, their CRC, and a delimiter.
encode_message(type, sequence, timestamp, payload) ==
    LET record == <<PC_TELEMETRY_PROTOCOL_VERSION, type>>
                  \o ToBytes(BitsOf(Len(payload), 16))
                  \o ToBytes(BitsOf(sequence, 16)) \o timestamp \o payload
    IN  Append(cobs_encode(record \o ToBytes(BitsOf(Crc16(\hFFFF, record), 16))),
               0)

-----------------------------------------------------------------------------
(* The ground station.                                                      *)

Malformed == <<-1>>      \* a DecodeError

\* cobs_decode, of bytes without a zero.
cobs_decode(bytes) ==
    LET n == Len(bytes)
        from[i \in 1 .. n] ==
            LET end == i + bytes[i]
                rest == from[end]
            IN  IF end > n + 1 THEN Malformed
                ELSE IF end = n + 1 THEN SubSeq(bytes, i + 1, n)
                ELSE IF rest = Malformed THEN Malformed
                ELSE SubSeq(bytes, i + 1, end - 1) \o <<0>> \o rest
    IN  from[1]

\* Wrong variant: the CRC is not compared.
Intact_NoCrc(record) == TRUE

\* The CRC at the end of a record is that of the rest.
Intact(record) ==
    LET n == Len(record)
    IN  SubSeq(record, n - 1, n)
            = ToBytes(BitsOf(Crc16(\hFFFF, SubSeq(record, 1, n - 2)), 16))

\* decode_bridge_frame, when it raises no DecodeError.
Accepted(record) ==
    LET length == ValueOf(ToBits(SubSeq(record, 3, 4)))
    IN  /\ Len(record) >= 16
        /\ record[1] = PC_TELEMETRY_PROTOCOL_VERSION
        /\ record[2] \in DOMAIN MessageLength
        /\ length = MessageLength[record[2]]
        /\ Len(record) = 14 + length + 2
        /\ Intact(record)

\* BridgeRecord.
BridgeRecord(record) ==
    [type |-> record[2],
     sequence |-> ValueOf(ToBits(SubSeq(record, 5, 6))),
     timestamp |-> SubSeq(record, 7, 14),
     payload |-> SubSeq(record, 15, Len(record) - 2)]

\* run_viewer: what is decoded of a stream, cut at its zeros; what follows the
\* last zero waits for more.
Decoded(stream) ==
    LET zeros == {0} \cup {i \in 1 .. Len(stream) : stream[i] = 0}
        segments == {SubSeq(stream, a + 1, Min({z \in zeros : z > a}) - 1) :
                         a \in zeros \ {Max(zeros)}} \ {<<>>}
        records == {cobs_decode(s) : s \in segments}
    IN  {BridgeRecord(r) : r \in {r \in records : Accepted(r)}}
=============================================================================
