-------------------------------- MODULE MCNmea --------------------------------
(* The sentences in the comments of minmea.c, whole, cut off, and with one     *)
(* field in the place of which stands another; fractions of every shape; and *)
(* sentences to damage.                                                       *)
EXTENDS Nmea

RECURSIVE Padded(_, _)
Padded(n, width) == IF width = 0 THEN <<>> ELSE Append(Padded(n \div 10, width - 1), Digits[(n % 10) + 1])
Real(n, width, d, decimals) == Padded(n, width) \o <<".">> \o Padded(d, decimals)
I2(n) == Padded(n, 2)
R1(n, width, d) == Real(n, width, d, 1)
Id(c) == <<"$", "G", "P">> \o c
None == <<>>
Sum(a, b) == <<"*", a, b>>

Example ==
    [RMC |-> [fields |-> <<Id(<<"R", "M", "C">>), Padded(81836, 6), <<"A">>, Real(3751, 4, 65, 2), <<"S">>,
                           Real(14507, 5, 36, 2), <<"E">>, R1(0, 3, 0), R1(360, 3, 0), Padded(130998, 6),
                           R1(11, 3, 3), <<"E">>>>, tail |-> Sum("6", "2")],
     GGA |-> [fields |-> <<Id(<<"G", "G", "A">>), Padded(123519, 6), Real(4807, 4, 38, 3), <<"N">>,
                           Real(1131, 5, 0, 3), <<"E">>, <<"1">>, I2(8), R1(0, 1, 9), R1(545, 3, 4), <<"M">>,
                           R1(46, 2, 9), <<"M">>, None, None>>, tail |-> Sum("4", "7")],
     GSA |-> [fields |-> <<Id(<<"G", "S", "A">>), <<"A">>, <<"3">>, I2(4), I2(5), None, I2(9), I2(12), None,
                           None, I2(24), None, None, None, None, R1(2, 1, 5), R1(1, 1, 3), R1(2, 1, 1)>>,
              tail |-> Sum("3", "9")],
     GLL |-> [fields |-> <<Id(<<"G", "L", "L">>), Real(3723, 4, 2475, 4), <<"N">>, Real(12158, 5, 3416, 4),
                           <<"W">>, Real(161229, 6, 487, 3), <<"A">>, <<"A">>>>, tail |-> Sum("4", "1")],
     GST |-> [fields |-> <<Id(<<"G", "S", "T">>), Real(24603, 6, 0, 2), R1(3, 1, 2), R1(6, 1, 6), R1(4, 1, 7),
                           R1(47, 2, 3), R1(5, 1, 8), R1(5, 1, 6), R1(22, 2, 0)>>, tail |-> Sum("5", "8")],
     GSV |-> [fields |-> <<Id(<<"G", "S", "V">>), <<"4">>, <<"2">>, I2(11), I2(8), I2(51), Padded(203, 3), I2(30),
                           I2(9), I2(45), Padded(215, 3), I2(28)>>, tail |-> Sum("7", "5")],
     VTG |-> [fields |-> <<Id(<<"V", "T", "G">>), Real(188, 3, 36, 2), <<"T">>, None, <<"M">>, Real(0, 1, 820, 3),
                           <<"N">>, Real(1, 1, 519, 3), <<"K">>, <<"A">>>>, tail |-> Sum("3", "F")]]

Kinds == DOMAIN Example
Of(fn, fields, tail) == [fn |-> fn, fields |-> fields, tail |-> tail]

Other == {None, <<"N">>, <<"W">>, <<"T">>, <<"1", "x">>, <<" ", "-", "7">>, <<"-", "3", ".", "5">>,
          Padded(235959, 6), <<"9", "9", "9", "9", "9", "9", "9", "9", "9">>}

Whole == {Of(fn, Example[k].fields, Example[k].tail) : fn \in Kinds, k \in Kinds}
Cut == UNION {{Of(k, SubSeq(Example[k].fields, 1, n), <<>>) : n \in DOMAIN Example[k].fields} : k \in Kinds}
Changed == UNION {{Of(k, [Example[k].fields EXCEPT ![i] = f], <<>>) :
                      i \in DOMAIN Example[k].fields, f \in Other} : k \in Kinds}

Fractions ==
    {sign \o Padded(0, zeros) \o Padded(n, width) \o point \o Padded(0, more) \o Padded(d, decimals) :
        sign \in {<<>>, <<"-">>, <<" ", "+">>}, zeros \in {0, 2}, n \in {7, 67108863}, width \in {0, 1, 8, 9},
        point \in {<<>>, <<".">>}, more \in {0, 1, 6, 7, 8}, d \in {3, 67108863, 67108864}, decimals \in {0, 1, 7, 8}}
Scraps == SeqOf({"0", "9", ".", "-", " ", "A"}, 4)
Own == {Of("own", <<Id(<<"X", "X", "X">>), f, None>>, <<>>) : f \in Fractions \cup Scraps}

Damaged ==
    {Of("own", <<Id(<<"G", "S", "V">>), <<"4">>, <<"4">>, I2(13)>>, Sum("7", x) \o end) :
        x \in {"B", "b"}, end \in {<<>>, <<"\n">>, <<"\r", "\n">>}}
    \cup {Of("own", Example[k].fields, Example[k].tail) : k \in {"GSV", "VTG", "GLL"}}

MCCalls == Whole \cup Cut \cup Changed \cup Own \cup Damaged
===============================================================================
