----------------------------- MODULE MCAirLink ------------------------------
(***************************************************************************)
(* AirLink with every single inverted bit on the air and pairs across the  *)
(* bounds of bytes; on the line with every lost byte, every inverted bit   *)
(* of the answer's frame, its delimiter and the code byte after it, and    *)
(* every seventh bit of the next frame.                                    *)
(***************************************************************************)
EXTENDS AirLink

MCZero == <<0, 0, 0, 0, 0>>
MCFirstByteOne == <<1, 0, 0, 0, 0>>
MCIds == {MCZero, MCFirstByteOne, <<\h12, \h34, \h56, \hFF, \h9A>>}

\* The edges of the deadband, the ends and the middle of the way; all flags
\* with and without headless, which selects the fixed trim.
Position(roll, pitch, yaw, y, flags) ==
    [rollRaw |-> roll, pitchRaw |-> pitch, yawRaw |-> yaw, axisY |-> y,
     flags |-> flags]
MCSticks == {Position(-512, 25, 511, -512, {"flip", "rth", "inverted"}),
             Position(-26, 512, 0, 0, {"flip", "headless", "video"}),
             Position(27, 300, 301, -26, {"flip", "picture", "headless",
                                          "rth", "video", "inverted"}),
             Position(-511, -301, -25, -255, {}),
             Position(0, 1, 26, 511, {"flip"})}

\* The original format, a flight page and a page of another kind.
MCAnswers == {Checked(<<\h85, 0, 0, 3, 21, 9, 0, 100, 65, 0, 0, 0, 0, 0>>),
              Checked(<<\h86, \h6F, 1, 0, 0, 255, 255, 8, 0, 0, 16, 0, 9, \h95>>),
              Checked(<<\h86, \h90, 15, 160, 15, 10, 200, 0, 99, 1, 0, 60,
                        0, 255>>)}
MCSelections == {10, 21}

MCAirDamage == {{}} \cup {{i} : i \in 1 .. 176}
                    \cup {{8 * i, 8 * i + 1} : i \in 1 .. 21}
MCLineDamage ==
    {[inverted |-> {i}, dropped |-> 0] :
         i \in 1 .. 280 \cup {i \in 281 .. 760 : i % 7 = 0}}
        \cup {[inverted |-> {}, dropped |-> i] : i \in 0 .. 95}
=============================================================================
