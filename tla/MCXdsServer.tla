---------------------------- MODULE MCXdsServer ----------------------------
\* Instances of XdsServer: two services, one of them with a named target port.
EXTENDS XdsServer

CONSTANTS a, b

TwoServices == {a, b}
OneNamed == {b}
=============================================================================
