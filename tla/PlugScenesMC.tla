---------------------------- MODULE PlugScenesMC ----------------------------
(***************************************************************************)
(* Documents for the panel: one or two scenes, or one kind of condition    *)
(* with its unused rows last, as the panel's page sends them.              *)
(***************************************************************************)
EXTENDS PlugScenes, TLC

Long == <<65, 66, 67, 68, 69, 70, 71, 72, 73, 74, 75, 76>>
Ten == <<1, 2, 3, 4, 5, 6, 7, 8, 9, 10>>

Coded(cmd, text) == [cmd |-> cmd, text |-> text]

Full == [act |-> 1, name |-> Long, relay |-> <<1>>, virtual |-> <<5, None, None>>,
         code |-> <<Coded(1, <<7, 8, 9>>), Coded(2, Ten), Coded(None, <<>>)>>]
Plain == [act |-> 1, name |-> <<65>>, relay |-> <<2>>, virtual |-> <<6, 7, None>>,
          code |-> <<>>]
(* A document that speaks neither of the relay nor of codes.               *)
Short == [act |-> 0, name |-> <<66, 66>>, relay |-> <<>>, virtual |-> <<9, 8>>, code |-> <<>>]

MCSceneDocs == {1 :> Full, 2 :> Full, 3 :> Short, 4 :> Plain @@ 102 :> Plain, 5 :> Short,
                103 :> Full}

VirtualDoc(rows) ==
    [virtual |-> [i \in VirtualRows |-> IF i < Len(rows) THEN rows[i + 1] ELSE NoRow],
     code |-> <<>>]
CodeDoc(rows) ==
    [code |-> [i \in CodeRows |-> IF i < Len(rows) THEN rows[i + 1] ELSE NoCode],
     virtual |-> <<>>]

Row(con, sen) == [dvc |-> IF con = 0 THEN 0 ELSE 1, con |-> con, sen |-> sen]
CRow(con, sen) == [dvc |-> 1, con |-> con, sen |-> sen]

MCRunsenDocs ==
    {VirtualDoc(<<Row(3, 1), Row(3, 4), Row(4, 9)>>), VirtualDoc(<<Row(0, 1), Row(3, 102)>>),
     CodeDoc(<<CRow(Ten, 1), CRow(<<1, 2>>, 4)>>),
     CodeDoc(<<CRow(<<1>>, 9), CRow(<<2>>, 2), CRow(<<3>>, 3), CRow(<<4>>, 4), CRow(<<5>>, 5)>>)}

MCCodes == {0, 3, 4}
MCTexts == {<<1>>, <<1, 2>>, Ten}
=============================================================================
