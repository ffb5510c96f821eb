------------------------------- MODULE Bayang -------------------------------
(***************************************************************************)
(* The packets of the transmitter and their frames on the air:             *)
(* main/radio/bayang.cpp, main/radio/xn297.cpp, and the mapping of sticks  *)
(* to channels, main/gamepad/control_mapping.cpp.                          *)
(*                                                                         *)
(* The mapping is written in exact arithmetic.  For every position of a    *)
(* stick and the tuning of main/config.h the code's single-precision       *)
(* result, truncated to an integer, is the same.                           *)
(*                                                                         *)
(* The XN297 chip of the flight controller and what its firmware reads of  *)
(* a packet are external.                                                  *)
(***************************************************************************)
EXTENDS Bits, SequencesExt

Nothing == <<>>     \* no packet was heard

-----------------------------------------------------------------------------
(* control_mapping.cpp, with the tuning of config.h: no expo, nothing       *)
(* reversed, the left stick as throttle.                                    *)

Clamp(v, low, high) == IF v < low THEN low ELSE IF v > high THEN high ELSE v

STICK_DEADBAND == 5          \* percent
THROTTLE_MAX_PERCENT == 50

\* map_half_stick_throttle.
map_half_stick_throttle(axisY) ==
    LET n == Clamp(-axisY, -511, 511)
    IN  IF 100 * n <= STICK_DEADBAND * 511 THEN 0
        ELSE (1023 * (100 * n - STICK_DEADBAND * 511))
                 \div ((100 - STICK_DEADBAND) * 511)

\* map_bayang_channel of the throttle.
map_throttle(raw) == (Clamp(raw, 0, 1023) * THROTTLE_MAX_PERCENT) \div 100

\* map_bayang_channel of a stick: with n the position beyond the deadband, as
\* a fraction, the channel is (n + 1) * 511.5 + 0.5, rounded down.
map_stick(raw) ==
    LET r == Clamp(raw, -512, 512)
        size == IF r < 0 THEN -r ELSE r
        past == 100 * size - STICK_DEADBAND * 512
        way == IF r < 0 THEN -1 ELSE 1
    IN  IF past < 0 THEN 512
        ELSE 512 + (1023 * way * past) \div (1024 * (100 - STICK_DEADBAND))

-----------------------------------------------------------------------------
(* bayang.cpp.                                                              *)

BAYANG_PACKET_SIZE == 15
BAYANG_BIND_A3 == \hA3       \* telemetry on, analog aux off
BAYANG_DATA == \hA5

\* bayang_init: the hopping channels.
hopping_channels(id) ==
    LET first == (id[4] % 32) + 16 IN <<0, first, first + 32, first + 64>>

\* bayang_calculate_checksum, in the last byte of every packet.
bayang_calculate_checksum(packet) == Sum8(SubSeq(packet, 1, 14))
Checked(bytes) == Append(bytes, bayang_calculate_checksum(bytes))

\* Wrong variant: the address is copied in the order of the air.
bayang_build_bind_packet_Reversed(id) ==
    Checked(<<BAYANG_BIND_A3>> \o Reverse(id) \o hopping_channels(id)
            \o SubSeq(id, 1, 3) \o <<\h0A>>)

\* bayang_build_bind_packet with the header of bayang_select_bind_header.
bayang_build_bind_packet(id) ==
    Checked(<<BAYANG_BIND_A3>> \o id \o hopping_channels(id)
            \o SubSeq(id, 1, 3) \o <<\h0A>>)

\* The bit of a flag: in packet[2] and, for the second table, in packet[3].
Flags2 == [flip |-> \h08, rth |-> \h01, headless |-> \h02,
           picture |-> \h20, video |-> \h10]
Flags3 == [take_off |-> \h20, inverted |-> \h80, emg_stop |-> \h0C]

\* The byte with the bits of the flags that are set.
FlagByte(table, set) ==
    ValueOf([i \in 1 .. 8 |->
        IF \E f \in set \cap DOMAIN table : BitsOf(table[f], 8)[i] = 1
        THEN 1 ELSE 0])

\* Wrong variant: the trim reaches into the two high bits of the channel.
dynamic_trim_Unmasked(v) == (v \div 4) % 256

dynamic_trim(v) == 4 * ((v \div 16) % 64)

\* The two bytes of a channel; throttle and, in headless mode, all channels
\* have a fixed trim.
ChannelBytes(value, fixed) ==
    LET v == Clamp(value, 0, 1023)
    IN  <<v \div 256 + (IF fixed THEN \h7C ELSE dynamic_trim(v)), v % 256>>

\* bayang_build_data_packet; a command has four channels and a set of flags.
bayang_build_data_packet(id, c) ==
    LET headless == "headless" \in c.flags
    IN  Checked(<<BAYANG_DATA, \hFA, FlagByte(Flags2, c.flags),
                  FlagByte(Flags3, c.flags)>>
                \o ChannelBytes(c.roll, headless)
                \o ChannelBytes(c.pitch, headless)
                \o ChannelBytes(c.throttle, TRUE)
                \o ChannelBytes(c.yaw, headless)
                \o <<id[3], \h0A>>)

bayang_check_telemetry(packet) ==
    /\ packet[1] \in {\h85, \h86}
    /\ bayang_calculate_checksum(packet) = packet[15]

-----------------------------------------------------------------------------
(* xn297.cpp.                                                               *)

\* What a frame with 15 bytes of payload uses of the two tables.
xn297_scramble ==
    <<\hE3, \hB1, \h4B, \hEA, \h85, \hBC, \hE5, \h66, \h0D, \hAE,
      \h8C, \h88, \h12, \h69, \hEE, \h1F, \hC7, \h62, \h97, \hD5>>
xn297_crc_xorout == \h9BA7

bit_reverse == [b \in 0 .. 255 |-> ValueOf(Reverse(BitsOf(b, 8)))]

\* Bytes i .. of a frame, scrambled or unscrambled.
Scrambled(bytes, i) ==
    [n \in 1 .. Len(bytes) |-> bytes[n] ^^ xn297_scramble[i + n - 1]]

\* The address and the payload on the air.
Body(address, msg) ==
    Scrambled(Reverse(address)
              \o [n \in 1 .. Len(msg) |-> bit_reverse[msg[n]]], 1)

Xn297Crc(body) == Crc16(\hB5D2, body) ^^ xn297_crc_xorout

\* xn297_write_payload after xn297_set_tx_address.
xn297_write_payload(address, msg) ==
    LET body == Body(address, msg)
    IN  body \o ToBytes(BitsOf(Xn297Crc(body), 16))

\* The payload of a frame: the loop of xn297_read_payload.
Payload(bytes) ==
    LET plain == Scrambled(bytes, 6)
    IN  [n \in 1 .. Len(plain) |-> bit_reverse[plain[n]]]

\* xn297_set_rx_address: the address the nRF24 compares with, in the order of
\* its register, which is sent last byte first.
physical_rx_addr(address) ==
    [i \in 1 .. 5 |-> address[i] ^^ xn297_scramble[6 - i]]

\* The nRF24 listens with its CRC off, then xn297_read_payload.
xn297_read_payload(address, frame) ==
    IF SubSeq(frame, 1, 5) = Reverse(physical_rx_addr(address))
    THEN Payload(SubSeq(frame, 6, 20)) ELSE Nothing

-----------------------------------------------------------------------------
(* The flight controller.                                                   *)

\* Its XN297 checks the address and the CRC, its firmware the checksum.
FcHears(address, header, frame) ==
    LET packet == Payload(SubSeq(frame, 6, 20))
    IN  IF /\ SubSeq(frame, 1, 5) = Scrambled(Reverse(address), 1)
           /\ SubSeq(frame, 21, 22)
                = ToBytes(BitsOf(Xn297Crc(SubSeq(frame, 1, 20)), 16))
           /\ packet[1] = header
           /\ bayang_calculate_checksum(packet) = packet[15]
        THEN packet ELSE Nothing

\* What it reads of a bind packet and of a data packet.
FcBinding(packet) ==
    [id |-> SubSeq(packet, 2, 6), channels |-> SubSeq(packet, 7, 10)]
FcCommand(packet) ==
    LET channel(i) == (packet[i] % 4) * 256 + packet[i + 1]
    IN  [roll |-> channel(5), pitch |-> channel(7), throttle |-> channel(9),
         yaw |-> channel(11),
         flags |-> {f \in DOMAIN Flags2 : (packet[3] & Flags2[f]) # 0}
                   \cup {f \in DOMAIN Flags3 : (packet[4] & Flags3[f]) # 0}]

\* An answer has no CRC.
FcAnswer(address, packet) == Body(address, packet)
=============================================================================
