----------------------------- MODULE MCRedirect -----------------------------
\* Redirect with one service that has addresses of both families, one of them
\* in two spellings, and with two services of one address.
EXTENDS Redirect

OneService == {"ns/a"}
ThreeAddrs == {"10.0.0.1", "fd00::1", "fd00:0::1"}
SomeEntries == {{"fd00::1"}, {"10.0.0.1", "fd00::1"}, {"10.0.0.1", "fd00:0::1"}}
ParseThree == [a \in ThreeAddrs |-> IF a = "10.0.0.1" THEN a ELSE "fd00::1"]
FamilyOfTwo == [ip \in {"10.0.0.1", "fd00::1"} |-> IF ip = "10.0.0.1" THEN "v4" ELSE "v6"]

TwoServices == {"ns/a", "ns/b"}
OneAddr == {"10.0.0.1"}
OneEntry == {OneAddr}
ParseOne == [a \in OneAddr |-> a]
FamilyOfOne == [ip \in OneAddr |-> "v4"]
=============================================================================
