-------------------------------- MODULE Bits --------------------------------
(***************************************************************************)
(* Bytes, bits and the CRC that the radio link and the serial line share.  *)
(* A field of a packet is a sequence of bits, most significant bit first,  *)
(* so that 32-bit fields keep their width; bytes are numbers, for sums.    *)
(* Sequences count from 1 where the code's arrays count from 0.            *)
(***************************************************************************)
EXTENDS Integers, Sequences, Bitwise

\* The w bits of the number v.
BitsOf(v, w) == [i \in 1 .. w |-> (v \div 2^(w - i)) % 2]

\* The number with these bits.
ValueOf(bits) ==
    LET v[n \in 0 .. Len(bits)] ==
            IF n = 0 THEN 0 ELSE 2 * v[n - 1] + bits[n]
    IN  v[Len(bits)]

\* The bits of a sequence of bytes, and the bytes of a sequence of bits.
ToBits(bytes) ==
    [i \in 1 .. 8 * Len(bytes) |->
        (bytes[(i - 1) \div 8 + 1] \div 2^(7 - ((i - 1) % 8))) % 2]
ToBytes(bits) ==
    [i \in 1 .. Len(bits) \div 8 |-> ValueOf(SubSeq(bits, 8 * i - 7, 8 * i))]

\* The bytes with these bits inverted, counted from 1.
Inverted(bytes, positions) ==
    [n \in 1 .. Len(bytes) |->
        LET hit == positions \cap (8 * n - 7 .. 8 * n)
        IN  IF hit = {} THEN bytes[n]
            ELSE bytes[n] ^^ ValueOf([i \in 1 .. 8 |->
                                 IF 8 * n - 8 + i \in hit THEN 1 ELSE 0])]

\* The sum of bytes in a uint8_t.
Sum8(bytes) ==
    LET sum[n \in 0 .. Len(bytes)] ==
            IF n = 0 THEN 0 ELSE (sum[n - 1] + bytes[n]) % 256
    IN  sum[Len(bytes)]

\* One bit of crc16_update in xn297.cpp, of pc_telemetry_crc16_ccitt_false and
\* of crc16_ccitt_false in the viewer: the three inner loops are the same.
CrcBit(crc) ==
    IF crc >= \h8000 THEN ((2 * crc) % 65536) ^^ \h1021 ELSE 2 * crc

\* The eight rounds of the inner loop for each value of the high byte.
CrcRounds ==
    [high \in 0 .. 255 |->
        LET round[n \in 0 .. 8] ==
                IF n = 0 THEN 256 * high ELSE CrcBit(round[n - 1])
        IN  round[8]]

\* The CRC of a sequence of bytes.
Crc16(start, bytes) ==
    LET step[crc \in 0 .. 65535, byte \in 0 .. 255] ==
            CrcRounds[(crc \div 256) ^^ byte] ^^ (256 * (crc % 256))
        crc[n \in 0 .. Len(bytes)] ==
            IF n = 0 THEN start ELSE step[crc[n - 1], bytes[n]]
    IN  crc[Len(bytes)]
=============================================================================
