------------------------------- MODULE MCTools -------------------------------
EXTENDS Tools
CONSTANTS MaxText, MaxInput

\* The edges of every field of the word, and one value between.
Edges(bytes) == {0, 1, Size[bytes] \div 2, Size[bytes] - 1}
MCRequests == [dev : {2}, cmd : {0, 1}, reason : Edges(2), data : Edges(4)]
MCAnswers == [dev : Edges(1), cmd : {1}, reason : Edges(2), data : Edges(4)]

\* The edges of 32 bits, and past them.
MCDataArgs == {0, 1} \cup ((Size[4] - 1)..(Size[4] + 1))

\* Every domain, and two that are too wide.
MCDomains == 0..(Size[2] + 1)
MCIds == {0, 1, Size[4] - 1}

\* Texts alone, after "0x", after two other characters, and "0x" twice.
Rest == SeqOf({0, 1, Other}, MaxText)
MCTexts == Rest \cup {Zx \o s : s \in Rest} \cup {<<Other, 1>> \o s : s \in Rest}
             \cup {Zx \o Zx \o s : s \in SeqOf({0, 1}, 3)}

\* Every short input, alone and after "0x".
MCInputs == LET all == SeqOf(0..Other, MaxInput) IN all \cup {Zx \o s : s \in all}
=============================================================================
