------------------------------ MODULE MCIoTerm ------------------------------
\* Every buffer of at most three characters, and a literal of four bytes.
EXTENDS IoTerm

MCBuffers == {<<a>> : a \in {"x", "cr", "lf"}}
             \cup {<<a, b>> : a, b \in {"x", "cr", "lf"}}
             \cup {<<a, b, c>> : a, b, c \in {"x", "cr", "lf"}}
MCLit == <<"x", "cr", "lf", "bs">>
=============================================================================
