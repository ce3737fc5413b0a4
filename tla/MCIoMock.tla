------------------------------ MODULE MCIoMock ------------------------------
EXTENDS IoMock
CONSTANTS p1, p2
MCPayloadLength == [p \in Payload |-> IF p = p1 THEN 32 ELSE 133]
Entry(name, type, p) == [name |-> name, message |-> [type |-> type, payload |-> p]]
OneNotice == [kind : {"notice"}, payload : {p1}]
MCMaxSeq == [ns \in Namespace |-> [output |-> 2, report |-> 0, exception |-> 1, gio |-> 1][ns]]
\* Two advances; a reply after a request.
MCInputLists ==
  {<<Entry("a", "advance", p1), Entry("b", "advance", p2)>>,
   <<Entry("a", "inspect", p1), Entry("b", "gio", p1)>>}
\* "told" is written by every call and read by none.
WithoutTold == <<vars, driver, aligned>>
=============================================================================
