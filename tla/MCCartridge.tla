----------------------------- MODULE MCCartridge -----------------------------
\* Cartridge for TLC: two sectors of two pages of two bytes, one page of which holds an
\* unlock address; minutes of two seconds (of three), hours of one minute, days of one hour.
EXTENDS Cartridge

MCLimit == [s |-> 2, m |-> 1, h |-> 1]
MCWidth == [s |-> 3, m |-> 2, h |-> 2]
=============================================================================
