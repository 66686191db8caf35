---- MODULE MCReception ----
EXTENDS Reception

\* Any hash will do: this one makes most of the addresses collide.
MCHash(addr) == IF 0 \in addr THEN 3 ELSE 2

\* 0xff123456, which is no address.
MCShowOnly == (24 .. 31) \union {20, 17, 13, 12, 10, 6, 4, 2, 1}

\* A2 differs from A1 in one bit.
A1 == {22, 14, 9, 5, 2, 0}
A2 == {22, 14, 9, 5, 2}
A3 == {21, 20, 7, 3}
A4 == {21, 16, 11, 0}

Message(df, addr, ic) == [df |-> df, addr |-> addr, ic |-> ic]

\* Format, address (31 is where A1 and A2 differ), content, parity.
Positions == {3, 4, 31, 40, 106}
\* Six positions that make a message of their own.
Codeword == {8, 10, 53, 63, 83, 106}

UpTo(n, set) == {d \in SUBSET set : Cardinality(d) <= n}

Receiver(name, nfix, fixDF, decodeAll) ==
    [name |-> name, nfix |-> nfix, fixDF |-> fixDF, decodeAll |-> decodeAll]
Surroundings(name, air, net, phase) == [name |-> name, air |-> air, net |-> net, phase |-> phase]

Checked == {Message(17, A1, {}), Message(11, A2, {}), Message(11, A1, {2, 0}),
            Message(18, A2, {})}
Mixed == {Message(17, A1, {}), Message(4, A1, {}), Message(20, A2, {}),
          Message(16, A1, {}), Message(24, A2, {}), Message(19, A1, {})}

MCReceivers ==
    {Receiver("crowd", 0, FALSE, FALSE), Receiver("noise", 1, TRUE, FALSE),
     Receiver("codeword", 1, TRUE, TRUE), Receiver("rare", 1, FALSE, FALSE),
     Receiver("rare", 0, TRUE, TRUE), Receiver("radio", 1, TRUE, FALSE)}

MCAir ==
    {Surroundings("crowd", {Message(17, a, {}) : a \in {A1, A2, A3, A4}}, {{}}, {}),
     Surroundings("noise", Checked, UpTo(2, Positions), {}),
     Surroundings("codeword", {Message(17, A1, {}), Message(11, A2, {})},
            UpTo(4, Positions) \union {Codeword \ {i} : i \in Codeword}, {}),
     Surroundings("rare", Mixed, UpTo(1, {4, 40}), {}),
     Surroundings("radio", Checked, {}, UpTo(1, {4, 31, 40}))}
====
