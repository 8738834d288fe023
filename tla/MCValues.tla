------------------------------ MODULE MCValues ------------------------------
(***************************************************************************)
(* Arithmetic on a register, or rows made into the entries of an index:    *)
(* one behaviour does one of the two.                                      *)
(***************************************************************************)
EXTENDS RowKeys, NumCalc

\* Significands round the tenth, the half and the whole of the word, zero,
\* infinities, and an approximate number; integers round the halves of a word.
NumOperands ==
  {RealMem(x) : x \in
     {Number(s, m, e) : s \in {0, 1}, m \in {6, 25, 63}, e \in {-2, 1}}
       \cup {Number(0, 0, 0), Number(1, 0, 1), Number(0, 7, 0), Number(0, 32, 3),
             Number(0, 31, 0), Number(1, 32, 0), Number(0, 1, 4), Number(1, 1, 4),
             [Number(1, 63, 3) EXCEPT !.approx = 1]}}
    \cup {IntMem(i) : i \in {-32, -31, -9, -4, -1, 0, 1, 3, 8, 16, 31}} \cup {NULL}

---------------------------------------------------------------------------
(* The indexes.                                                            *)

Index(nIn, nField, iRoot, so, coll, seq, start, vals) ==
  [nIn |-> nIn, ki |-> [nField |-> nField, so |-> so, coll |-> coll], iRoot |-> iRoot,
   seq |-> seq, start |-> start, vals |-> vals]

BIN == <<"BINARY", "BINARY", "BINARY">>
Orders == {"asc", "desc"}

\* Numbers round the limits of the key encoding: exponents of one and two
\* bytes, large, medium and small values, one, two and three digits.
Magnitudes ==
  {<<0, 0>>, <<1, 0>>, <<10, 0>>, <<1, 1>>, <<99, 0>>, <<100, 0>>, <<9901, -2>>, <<12345, 0>>,
   <<12345, -1>>, <<12345, -3>>, <<123, -3>>, <<123, -4>>, <<123, -5>>, <<5, -1>>,
   <<1, -2>>, <<1, -3>>, <<9, 19>>, <<1, 20>>, <<12, 20>>, <<1, 480>>, <<1, 482>>,
   <<1, -482>>, <<1, -484>>, <<10001, 476>>, <<1, 999>>, <<1, 1000>>}
KeyNumbers == {Real(Number(s, p[1], p[2])) : s \in {0, 1}, p \in Magnitudes}

Integers32 == {Integer(i) : i \in {-8388609, -8388608, -32769, -32768, -129, -128, -1, 0, 1, 127,
                                   128, 255, 256, 32512, 32513, 32767, 32768, 8323072,
                                   8323073, 123456789}}

Texts == {Text(s) : s \in {<<>>, <<97>>, <<65>>, <<97, 98>>, <<65, 98>>, <<97, 32>>, <<97, 32, 32>>,
                           <<97, 32, 98>>, <<32>>, <<128, 97>>, <<255>>, <<1>>, <<1, 255>>}}
Blobs == {Blob(s) : s \in {<<>>, <<0>>, <<0, 0>>, <<97>>, <<97, 129>>, <<97, 1>>, <<255>>, <<128, 127>>,
                           <<1, 2, 3, 4, 5, 6, 7>>, <<1, 2, 3, 4, 5, 6, 7, 0>>, <<1, 2, 3, 4, 5, 6, 6, 255>>}}
Few == {Null, Integer(7), Integer(700), Real(Number(0, 75, -1)), Text(<<97>>), Text(<<97, 1>>), Blob(<<97>>), Blob(<<97, 0>>)}

Groups == {Null, Integer(7), Integer(707), Text(<<97>>), Text(<<97, 1>>), Real(Number(1, 75, -1))}
GroupBlobs == {Blob(<<97>>), Blob(<<97, 129>>)}

MCValueSets ==
  [key |-> KeyNumbers \cup Integers32 \cup {Null, Text(<<>>), Blob(<<>>)},
   column |-> Texts \cup Blobs \cup {Null, Integer(0), Real(Number(1, 1, 1000))},
   printable |-> {v \in Texts : \A i \in DOMAIN v.s : v.s[i] >= 32},
   few |-> Few, group |-> Groups, blobgroup |-> GroupBlobs]

\* A table whose key is a number; an index on a text or blob column, before the
\* primary key; a table whose key is a text or a blob; rows of two columns, in
\* either order; a GROUP BY sorter, after so many other rows.
IndexCases ==
  {Index(1, 1, 2, <<so>>, BIN, FALSE, 0, <<"key">>) : so \in Orders}
  \cup {Index(1, 2, 300, <<so>>, <<coll>>, FALSE, 0, <<"column">>)
          : so \in Orders, coll \in {"BINARY", "NOCASE"}}
  \cup {Index(1, 2, 300, <<so>>, <<"RTRIM">>, FALSE, 0, <<"printable">>) : so \in Orders}
  \cup {Index(1, 1, 7, <<"asc">>, BIN, FALSE, 0, <<"column">>)}
  \cup {Index(2, 3, 3, <<so1, so2>>, BIN, FALSE, 0, <<"few", "few">>)
          : so1, so2 \in Orders}
  \cup {Index(1, 1, 4, <<so>>, BIN, TRUE, start, <<"group">>)
          : so \in Orders, start \in {0, 126}}
  \cup {Index(2, 2, 4, <<"asc", "asc">>, BIN, TRUE, 126, <<"blobgroup", "group">>)}

---------------------------------------------------------------------------
NoIndex == Index(0, 0, 0, <<>>, <<>>, FALSE, 0, <<>>)

Init == \/ KeyInit /\ acc = NULL /\ last = NoOp
        \/ CalcInit /\ ix = NoIndex /\ made = <<>>

Next == \/ ix # NoIndex /\ KeyNext /\ UNCHANGED calcVars
        \/ ix = NoIndex /\ CalcNext /\ UNCHANGED keyVars

Spec == Init /\ [][Next]_<<keyVars, calcVars>>
=============================================================================
