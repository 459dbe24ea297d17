------------------------------ MODULE MCPolicy ------------------------------
(* Policy on a workbook of two sheets of two rows and two columns. *)
EXTENDS Policy

CONSTANTS s1, s2, column

\* Every readable range and a whole column, selected on the first sheet.
Selections == {[sheet |-> s1, range |-> t] : t \in Text}

\* Nothing is guarded, or one range of either sheet.
MCRequests ==
    [selection : Selections,
     guarded   : {{}} \cup {{[sheet |-> s, range |-> t]} : s \in Sheets, t \in Text}]

Square == [r1 |-> 1, c1 |-> 1, r2 |-> 2, c2 |-> 2]
Corner == [r1 |-> 2, c1 |-> 2, r2 |-> 2, c2 |-> 2]
Upside == [r1 |-> 2, c1 |-> 1, r2 |-> 1, c2 |-> 1]

\* Matrices: a cell, a column, a square, a ragged one, one too wide, an empty row.
Matrices == {<<1>>, <<1, 1>>, <<2, 2>>, <<1, 2>>, <<3>>, <<0>>}

MatrixActions ==
    [type : {"SET_VALUES"}, target : {[sheet |-> s1, range |-> t] : t \in {Square, Corner, Upside}},
     rows : Matrices, prefixed : {TRUE}, risk : {"high"}]
    \cup [type : {"SET_FORMULAS"}, target : {[sheet |-> s2, range |-> Square]},
          rows : {<<2, 2>>}, prefixed : BOOLEAN, risk : {"low"}]

RangeActions ==
    [type : {"CLEAR_RANGE", "FORMAT_RANGE"},
     target : [sheet : Sheets, range : {Square, Upside, column}],
     rows : {<<>>}, prefixed : {TRUE}, risk : {"low"}]

FreeActions ==
    [type : {"ADD_SHEET", "NO_OP"}, target : {None}, rows : {<<>>}, prefixed : {TRUE},
     risk : {"low"}]

MCActions == MatrixActions \cup RangeActions \cup FreeActions

MCPlans ==
    {<<>>} \cup {<<a>> : a \in MCActions} \cup {<<a, b>> : a, b \in MCActions}
    \cup {<<a, b, c>> : a, b, c \in FreeActions}
=============================================================================
