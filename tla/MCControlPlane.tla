--------------------------- MODULE MCControlPlane ---------------------------
\* Instances of ControlPlane: small clusters and a handful of writes.
EXTENDS ControlPlane, TLC

OneService == {<<"ns", "a">>}

\* Services of the same name in two namespaces.
SameName == {<<"ns", "a">>, <<"other", "a">>}

\* A single slice, of service a.
OneSlice == {<<"ns", "s">>}
LabelOfOne == <<"ns", "s">> :> {"a"}
=============================================================================
