------------------------------- MODULE Payload ------------------------------
(***************************************************************************)
(* src/payload.rs: the frame put around a payload, and its checksum.       *)
(***************************************************************************)
EXTENDS Naturals, SequencesExt, Bitwise

HEADER == 170

\* One turn of crc8's inner loop, on eight bits.
Shift(crc) == IF crc >= 128 THEN ((2 * crc) % 256) ^^ 133 ELSE 2 * crc

\* The eight turns that follow the xor with a byte.
Turned == [b \in 0..255 |-> Shift(Shift(Shift(Shift(Shift(Shift(Shift(Shift(b))))))))]

\* crc8: polynomial 0x85, no initial value, no reflection.
crc8(payload) == FoldLeft(LAMBDA crc, byte : Turned[crc ^^ byte], 0, payload)

\* generate: header, big-endian size, payload, checksum.
generate(payload) ==
    <<HEADER, Len(payload) \div 256, Len(payload) % 256>>
        \o payload \o <<crc8(payload)>>

\* The checks of payload.rs's own tests: monitoring_frame and the empty payload.
ASSUME MonitoringFrame == generate(<<8>>) = <<170, 0, 1, 8, 179>>
ASSUME EmptyPayload == crc8(<<>>) = 0
=============================================================================
