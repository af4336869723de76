-------------------------- MODULE MCStandardMessage --------------------------
(***************************************************************************)
(* StandardMessage for TLC: tokens, directed CQs, the shortest, first and   *)
(* last callsigns, reports on both sides of every limit, the first and last *)
(* grids and RR73, exchanges on both sides of 1, 16, 17 and 32.             *)
(***************************************************************************)
EXTENDS StandardMessage, TLC

Call(chars) == [kind |-> "call", chars |-> chars, portable |-> FALSE]
Portable(chars) == [kind |-> "call", chars |-> chars, portable |-> TRUE]
Grid(chars) == [kind |-> "grid", chars |-> chars]
Report(snr, response) == [kind |-> "report", snr |-> snr, response |-> response]
Exchange(ntx, class) == [kind |-> "exchange", ntx |-> ntx, class |-> class]
Digits(n) == [kind |-> "digits", n |-> n]
Other == [kind |-> "other"]

K1ABC == <<0, 20, 1, 1, 2, 3>>
W9XYZ == <<0, 32, 9, 24, 25, 26>>
ShortCall == <<3, 14, 0, 0, 0, 0>>
LastCall == <<36, 35, 9, 26, 26, 26>>
DX   == Spell(0, 0, 4, 24)
ZZZZ == Spell(26, 26, 26, 26)
WI   == Spell(0, 0, 23, 9)
EMA  == Spell(0, 5, 13, 1)

MCSections == <<DX, EMA, WI>>

Firsts == {CQ, DE, Directed(DX), Call(K1ABC), Portable(W9XYZ), Call(LastCall), Other}
Seconds == {CQ, QRZ, DX, ZZZZ, R, Digits(0), Digits(999), Directed(DE), Call(ShortCall),
            Portable(K1ABC), Call(W9XYZ)}
Tails == {Grid(<<0, 0, 0, 0>>), Grid(<<17, 17, 9, 9>>), RR73, RRR, Final, Other, R}
           \cup {Report(snr, response) : snr \in {-51, -50, -31, -30, 49, 50},
                                         response \in BOOLEAN}
Exchanges == {Exchange(ntx, 0) : ntx \in {0, 1, 16, 17, 32, 33}} \cup {Exchange(1, 7), Exchange(1, 8)}

MCWordsAt == <<Firsts, Seconds, Tails \cup Exchanges \cup Seconds,
               Tails \cup Exchanges \cup {WI, DX}, {WI, ZZZZ}>>

\* Two calls, a word that is none of the packer's, and an ending.
MCFourWords == <<{Call(K1ABC)}, {Call(W9XYZ)}, {Other, R}, {Final, Grid(<<5, 13, 4, 2>>)}>>
==============================================================================
