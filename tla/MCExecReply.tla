------------------------------- MODULE MCExecReply -------------------------------
(***************************************************************************)
(* Model checking ExecReply.  Values are empty, NULL, look like a type, a   *)
(* tag or a ReadyForQuery frame, and hold each of the bytes that separate   *)
(* columns and lines; a notice holds a whole ReadyForQuery frame.           *)
(***************************************************************************)
EXTENDS ExecReply

Ready   == [type |-> Z, body |-> <<15>>]
Notice  == [type |-> S, body |-> <<Z, 0, 3, 15, 0>>]
Tag     == [type |-> C, tag |-> <<S, 15>>]
Row(r)  == [type |-> D, row |-> r]
Failure == [type |-> E, fields |-> <<[kind |-> S, text |-> <<15, 15, 15>>],
                                     [kind |-> 9, text |-> <<S>>],
                                     [kind |-> M, text |-> <<M, 2>>],
                                     [kind |-> C, text |-> <<5>>]>>]

Values   == {<<>>, NoValue, <<Z, 0, 3>>, <<Hash>>, <<Tab, 15>>, <<15, Return>>}
OneRow   == { <<Row(<<v>>), Tag>> : v \in Values }
TwoRows  == { <<Row(<<v, <<15>>>>), Row(<<<<15>>, w>>), Tag>> :
                v, w \in Values \ {<<Tab, 15>>} }
NoRow    == {<<Notice, Tag>>, <<Row(<<>>), Tag>>}
Batches  == OneRow \cup TwoRows \cup NoRow

MCReplies ==
  { b \o <<Ready>> : b \in Batches }
    \cup { b \o <<Failure, Ready>> : b \in OneRow \cup {<<>>} }
    \cup { <<Tag>> \o b \o <<Ready>> : b \in OneRow }

Request(code, salt) == [type |-> R, code |-> code, salt |-> salt]

MCAuthReplies ==
  { <<Request(0, <<>>), Notice, Ready>>, <<Request(3, <<>>)>>,
    <<Request(5, <<7, 9>>)>>, <<Request(10, <<15>>)>>, <<Failure>> }
===============================================================================
