------------------------------ MODULE MCIpModem ------------------------------
\* The instance of IpModem that TLC checks: all short buffers, and one that ends
\* a frame and begins the next.
EXTENDS IpModem

CONSTANTS right, wrong, none, flag, byte

MCBytes  == {flag, byte}
MCChunks == UNION {[1..n -> MCBytes] : n \in 1..2} \cup {<<byte, flag, byte>>}
=============================================================================
